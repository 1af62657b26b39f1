----------------------------- MODULE ThreadPool -----------------------------
(***************************************************************************)
(* The thread pool (Event/ThreadPool/ThreadPool.c): worker threads take    *)
(* tasks from a circular buffer under one mutex and sleep on one condition *)
(* variable; any thread, a worker's task included, adds tasks; destroy     *)
(* sets a flag, wakes every worker, joins them and frees the pool.         *)
(*                                                                         *)
(* A critical section is one step that needs the mutex free.  `lock' is    *)
(* the thread that holds the mutex between two steps: only destroy called  *)
(* a second time does that.  pthread_cond_wait may return at any time.     *)
(*                                                                         *)
(* Callers: the pool is used from when threadpool_create returned it until *)
(* it is freed.  Two threads may both destroy it.                          *)
(***************************************************************************)
EXTENDS Integers, FiniteSets

CONSTANTS
  Task,          \* what is added: a function and its argument
  User,          \* the threads that may destroy the pool
  ThreadCount,
  QueueSize,
  NoTask,
  NoThread

ASSUME SizesAssumption == ThreadCount \in Nat /\ QueueSize \in Nat \ {0}
ASSUME NoneAssumption  == NoTask \notin Task /\ NoThread \notin User

Worker == 1..ThreadCount

VARIABLES
  queue, head, tail, count,   \* the circular buffer
  shutdown,                   \* "no", "graceful" or "immediate"
  thread_count, started,      \* threads created, threads not yet ended
  worker,                     \* where each worker is
  task,                       \* each worker's `task' while it runs it
  lock,
  creator,                    \* "creating", then "returned" or "failed"
  destroyer,                  \* the thread in destroy's join loop
  joined,                     \* `i' there: threads joined so far
  called,                     \* the users that have called destroy
  freed

buffer == <<queue, head, tail, count>>
vars == <<buffer, shutdown, thread_count, started, worker, task, lock,
          creator, destroyer, joined, called, freed>>

Waiting == {w \in Worker : worker[w] = "waiting"}
Ready   == {w \in Worker : worker[w] = "ready"}

NextSlot(i) == IF i + 1 = QueueSize THEN 0 ELSE i + 1

---------------------------------------------------------------------------
Init ==
  /\ queue = [i \in 0..QueueSize-1 |-> NoTask]
  /\ head = 0 /\ tail = 0 /\ count = 0
  /\ shutdown = "no"
  /\ thread_count = 0 /\ started = 0
  /\ worker = [w \in Worker |-> "none"]
  /\ task = [w \in Worker |-> NoTask]
  /\ lock = NoThread
  /\ creator = "creating"
  /\ destroyer = NoThread /\ joined = 0 /\ called = {}
  /\ freed = FALSE

(* A seeded fault: the new thread is not counted as started.               *)
CreateThreadNotCounted ==
  /\ creator = "creating"
  /\ thread_count < ThreadCount
  /\ thread_count' = thread_count + 1
  /\ worker' = [worker EXCEPT ![thread_count + 1] = "ready"]
  /\ UNCHANGED <<buffer, shutdown, started, task, lock, creator, destroyer,
                 joined, called, freed>>

(* threadpool_create's loop.  A worker may run before the next is created. *)
CreateThread ==
  /\ creator = "creating"
  /\ thread_count < ThreadCount
  /\ thread_count' = thread_count + 1
  /\ started' = started + 1
  /\ worker' = [worker EXCEPT ![thread_count + 1] = "ready"]
  /\ UNCHANGED <<buffer, shutdown, task, lock, creator, destroyer, joined,
                 called, freed>>

CreateReturns ==
  /\ creator = "creating"
  /\ thread_count = ThreadCount
  /\ creator' = "returned"
  /\ UNCHANGED <<buffer, shutdown, thread_count, started, worker, task, lock,
                 destroyer, joined, called, freed>>

(* A seeded fault: one worker is woken instead of all.                     *)
ShutdownWakingOne(u, how) ==
  /\ lock = NoThread
  /\ shutdown = "no"
  /\ shutdown' = how
  /\ \/ Waiting = {} /\ UNCHANGED worker
     \/ \E w \in Waiting : worker' = [worker EXCEPT ![w] = "ready"]
  /\ destroyer' = u
  /\ UNCHANGED <<buffer, thread_count, started, task, lock, joined, freed>>

(* The part of threadpool_destroy under the mutex, when it is the first.   *)
Shutdown(u, how) ==
  /\ lock = NoThread
  /\ shutdown = "no"
  /\ shutdown' = how
  /\ worker' = [w \in Worker |-> IF w \in Waiting THEN "ready" ELSE worker[w]]
  /\ destroyer' = u
  /\ UNCHANGED <<buffer, thread_count, started, task, lock, joined, freed>>

(* pthread_create failed: the threads there are get joined, at once.       *)
CreateFails(u) ==
  /\ creator = "creating"
  /\ thread_count < ThreadCount
  /\ creator' = "failed"
  /\ Shutdown(u, "immediate")
  /\ UNCHANGED called

(* A seeded fault: a worker is woken only when the queue was empty.        *)
AddWakingWhenEmpty(t) ==
  /\ creator = "returned" /\ ~freed
  /\ lock = NoThread
  /\ count # QueueSize
  /\ shutdown = "no"
  /\ queue' = [queue EXCEPT ![tail] = t]
  /\ tail' = NextSlot(tail)
  /\ count' = count + 1
  /\ \/ (Waiting = {} \/ count > 0) /\ UNCHANGED worker
     \/ \E w \in Waiting :
          count = 0 /\ worker' = [worker EXCEPT ![w] = "ready"]
  /\ UNCHANGED <<head, shutdown, thread_count, started, task, lock, creator,
                 destroyer, joined, called, freed>>

(* A seeded fault: no worker is woken.                                     *)
AddWakingNobody(t) ==
  /\ creator = "returned" /\ ~freed
  /\ lock = NoThread
  /\ count # QueueSize
  /\ shutdown = "no"
  /\ queue' = [queue EXCEPT ![tail] = t]
  /\ tail' = NextSlot(tail)
  /\ count' = count + 1
  /\ UNCHANGED <<head, shutdown, thread_count, started, worker, task, lock,
                 creator, destroyer, joined, called, freed>>

(* threadpool_add, when it succeeds: signal wakes one sleeping worker.     *)
Add(t) ==
  /\ creator = "returned" /\ ~freed
  /\ lock = NoThread
  /\ count # QueueSize
  /\ shutdown = "no"
  /\ queue' = [queue EXCEPT ![tail] = t]
  /\ tail' = NextSlot(tail)
  /\ count' = count + 1
  /\ \/ Waiting = {} /\ UNCHANGED worker
     \/ \E w \in Waiting : worker' = [worker EXCEPT ![w] = "ready"]
  /\ UNCHANGED <<head, shutdown, thread_count, started, task, lock, creator,
                 destroyer, joined, called, freed>>

Destroy(u, how) ==
  /\ creator = "returned" /\ ~freed
  /\ u \notin called
  /\ called' = called \cup {u}
  /\ Shutdown(u, how)
  /\ UNCHANGED creator

(* "Already shutting down": destroy returns, and the mutex stays locked.   *)
DestroyAgain(u) ==
  /\ creator = "returned" /\ ~freed
  /\ u \notin called
  /\ called' = called \cup {u}
  /\ lock = NoThread
  /\ shutdown # "no"
  /\ lock' = u
  /\ UNCHANGED <<buffer, shutdown, thread_count, started, worker, task,
                 creator, destroyer, joined, freed>>

Join ==
  /\ destroyer # NoThread
  /\ joined < thread_count
  /\ worker[joined + 1] = "exited"
  /\ joined' = joined + 1
  /\ UNCHANGED <<buffer, shutdown, thread_count, started, worker, task, lock,
                 creator, destroyer, called, freed>>

(* A seeded fault: the pool is freed without joining its threads.          *)
FreeWithoutJoin ==
  /\ destroyer # NoThread
  /\ lock = NoThread
  /\ freed' = TRUE
  /\ destroyer' = NoThread
  /\ UNCHANGED <<buffer, shutdown, thread_count, started, worker, task, lock,
                 creator, joined, called>>

(* threadpool_free, which does nothing while a thread is started and else  *)
(* locks the mutex; then destroy returns.                                  *)
Free ==
  /\ destroyer # NoThread
  /\ joined = thread_count
  /\ started <= 0 => lock = NoThread
  /\ freed' = (started <= 0)
  /\ destroyer' = NoThread
  /\ UNCHANGED <<buffer, shutdown, thread_count, started, worker, task, lock,
                 creator, joined, called>>

---------------------------------------------------------------------------
(* threadpool_thread: what a worker does when it gets the mutex, from the  *)
(* top of the loop and from pthread_cond_wait alike.                       *)
Sleep(w) ==
  /\ worker[w] = "ready" /\ lock = NoThread
  /\ count = 0 /\ shutdown = "no"
  /\ worker' = [worker EXCEPT ![w] = "waiting"]
  /\ UNCHANGED <<buffer, shutdown, thread_count, started, task, lock, creator,
                 destroyer, joined, called, freed>>

(* A seeded fault: a graceful shutdown does not look at the queue.         *)
ExitWithTasksLeft(w) ==
  /\ worker[w] = "ready" /\ lock = NoThread
  /\ shutdown # "no"
  /\ worker' = [worker EXCEPT ![w] = "exited"]
  /\ started' = started - 1
  /\ UNCHANGED <<buffer, shutdown, thread_count, task, lock, creator,
                 destroyer, joined, called, freed>>

Exit(w) ==
  /\ worker[w] = "ready" /\ lock = NoThread
  /\ \/ shutdown = "immediate"
     \/ shutdown = "graceful" /\ count = 0
  /\ worker' = [worker EXCEPT ![w] = "exited"]
  /\ started' = started - 1
  /\ UNCHANGED <<buffer, shutdown, thread_count, task, lock, creator,
                 destroyer, joined, called, freed>>

Grab(w) ==
  /\ worker[w] = "ready" /\ lock = NoThread
  /\ count # 0
  /\ shutdown # "immediate"
  /\ task' = [task EXCEPT ![w] = queue[head]]
  /\ head' = NextSlot(head)
  /\ count' = count - 1
  /\ worker' = [worker EXCEPT ![w] = "busy"]
  /\ UNCHANGED <<queue, tail, shutdown, thread_count, started, lock, creator,
                 destroyer, joined, called, freed>>

TaskReturns(w) ==
  /\ worker[w] = "busy"
  /\ worker' = [worker EXCEPT ![w] = "ready"]
  /\ task' = [task EXCEPT ![w] = NoTask]
  /\ UNCHANGED <<buffer, shutdown, thread_count, started, lock, creator,
                 destroyer, joined, called, freed>>

SpuriousWakeup(w) ==
  /\ worker[w] = "waiting"
  /\ worker' = [worker EXCEPT ![w] = "ready"]
  /\ UNCHANGED <<buffer, shutdown, thread_count, started, task, lock, creator,
                 destroyer, joined, called, freed>>

WorkerStep(w) == Sleep(w) \/ Exit(w) \/ Grab(w) \/ TaskReturns(w)

(* Every call has returned, the pool is gone or was never handed out.      *)
AllDone ==
  /\ creator # "creating" /\ destroyer = NoThread /\ freed
  /\ UNCHANGED vars

Next ==
  \/ CreateThread \/ CreateReturns
  \/ \E u \in User : CreateFails(u) \/ DestroyAgain(u)
  \/ \E u \in User, how \in {"graceful", "immediate"} : Destroy(u, how)
  \/ \E t \in Task : Add(t)
  \/ Join \/ Free
  \/ \E w \in Worker : WorkerStep(w) \/ SpuriousWakeup(w)
  \/ AllDone

Spec == Init /\ [][Next]_vars

(* Tasks return, every thread that can go on does, and the mutex is handed *)
(* to a thread that waits for it in the end.                               *)
Fairness ==
  /\ WF_vars(CreateThread \/ CreateReturns)
  /\ WF_vars(Join)
  /\ WF_vars(Free)
  /\ \A w \in Worker : WF_vars(WorkerStep(w))

FairSpec == Spec /\ Fairness

---------------------------------------------------------------------------
TypeOK ==
  /\ queue \in [0..QueueSize-1 -> Task \cup {NoTask}]
  /\ head \in 0..QueueSize-1 /\ tail \in 0..QueueSize-1
  /\ count \in 0..QueueSize
  /\ shutdown \in {"no", "graceful", "immediate"}
  /\ thread_count \in 0..ThreadCount /\ started \in 0..ThreadCount
  /\ worker \in [Worker -> {"none", "ready", "waiting", "busy", "exited"}]
  /\ task \in [Worker -> Task \cup {NoTask}]
  /\ lock \in User \cup {NoThread} /\ destroyer \in User \cup {NoThread}
  /\ creator \in {"creating", "returned", "failed"}
  /\ joined \in 0..ThreadCount /\ called \subseteq User /\ freed \in BOOLEAN

(* A signal is never lost: while a worker sleeps, there are at least as    *)
(* many on their way to the queue as tasks in it.                          *)
NoLostWakeup == Waiting # {} => count <= Cardinality(Ready)

(* Nobody sleeps through a shutdown: destroy would join it for ever.       *)
NobodySleepsThroughShutdown == shutdown # "no" => Waiting = {}

(* The pool is freed only when no thread can touch it any more.            *)
FreedAfterTheLastThread ==
  freed => \A w \in Worker : worker[w] \in {"none", "exited"}

(* README: "Stops and joins all worker threads on destroy."                *)
DestroyStopsThePool == shutdown # "no" ~> freed

(* A destroy, threadpool_create's own included, is done in the end, unless *)
(* a second one keeps the mutex.                                           *)
OneDestroyStopsThePool == shutdown # "no" ~> freed \/ lock # NoThread

---------------------------------------------------------------------------
(* The circular buffer as the sequence of tasks it holds.                  *)
Slot(i) == IF head + i >= QueueSize THEN head + i - QueueSize ELSE head + i

pending == [i \in 1..count |-> queue[Slot(i - 1)]]

(* Every task that was accepted is started, unless the pool is destroyed   *)
(* at once or a second destroy keeps the mutex.                            *)
AcceptedTaskStarts ==
  \A t \in Task :
    (\E i \in 1..count : pending[i] = t)
      ~> \/ \E w \in Worker : task[w] = t
         \/ shutdown = "immediate"
         \/ lock # NoThread

Promise == INSTANCE WorkQueue
             WITH active <- task,
                  closing <- IF shutdown = "no" THEN "open" ELSE shutdown,
                  released <- freed

(* The pool implements the bounded work queue.                             *)
ImplementsWorkQueue == Promise!Spec
===========================================================================
