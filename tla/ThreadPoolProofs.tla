-------------------------- MODULE ThreadPoolProofs --------------------------
(***************************************************************************)
(* Proofs about ThreadPool, for any number of workers, any queue size and  *)
(* any set of tasks and of threads that destroy the pool: its types, its   *)
(* safety invariants and that it implements WorkQueue.                     *)
(*                                                                         *)
(* The inductive invariant PoolInv adds to the properties what they rest   *)
(* on: which workers exist, that `started' counts those alive, that `tail' *)
(* is where the buffer ends, and what a shutdown has seen happen.          *)
(***************************************************************************)
EXTENDS ThreadPool, FiniteSetTheorems, SequenceTheorems, TLAPS

Alive == {w \in Worker : worker[w] \notin {"none", "exited"}}

CreatedInOrder == \A w \in Worker : worker[w] = "none" <=> w > thread_count

StartedCountsAlive == started = Cardinality(Alive)

TailFollowsTasks == tail = Slot(count)

TaskOnlyWhileBusy == \A w \in Worker : worker[w] # "busy" => task[w] = NoTask

JoinedHaveExited ==
  /\ joined <= thread_count
  /\ \A w \in Worker : w <= joined => worker[w] = "exited"

CreationDone == creator = "returned" => thread_count = ThreadCount

(* What a shutdown implies, from the flag to the freed pool.               *)
ShutdownOrder ==
  /\ shutdown # "no" => creator # "creating"
  /\ shutdown = "graceful" => creator = "returned"
  /\ destroyer # NoThread => shutdown # "no"
  /\ freed => shutdown # "no" /\ joined = thread_count

ExitsAreOrderly ==
  \A w \in Worker : worker[w] = "exited" =>
    /\ shutdown # "no"
    /\ shutdown = "graceful" => count = 0

(* All of PoolInv that is not about cardinalities.                         *)
PoolShape ==
  /\ queue \in [0..QueueSize-1 -> Task \cup {NoTask}]
  /\ head \in 0..QueueSize-1 /\ tail \in 0..QueueSize-1
  /\ count \in 0..QueueSize
  /\ shutdown \in {"no", "graceful", "immediate"}
  /\ thread_count \in 0..ThreadCount
  /\ worker \in [Worker -> {"none", "ready", "waiting", "busy", "exited"}]
  /\ task \in [Worker -> Task \cup {NoTask}]
  /\ lock \in User \cup {NoThread} /\ destroyer \in User \cup {NoThread}
  /\ creator \in {"creating", "returned", "failed"}
  /\ joined \in 0..ThreadCount /\ called \subseteq User /\ freed \in BOOLEAN
  /\ CreatedInOrder /\ TailFollowsTasks /\ TaskOnlyWhileBusy
  /\ NobodySleepsThroughShutdown
  /\ JoinedHaveExited /\ CreationDone /\ ShutdownOrder /\ ExitsAreOrderly

PoolInv == PoolShape /\ StartedCountsAlive /\ NoLostWakeup

---------------------------------------------------------------------------
(* A set of workers is finite, and gains or loses one by one.              *)
LEMMA WorkersAreFinite ==
  ASSUME NEW S \in SUBSET Worker
  PROVE  IsFiniteSet(S) /\ Cardinality(S) \in 0..ThreadCount
<1>1. IsFiniteSet(Worker) /\ Cardinality(Worker) = ThreadCount
  BY SizesAssumption, FS_Interval DEF Worker
<1>2. IsFiniteSet(S) /\ Cardinality(S) <= ThreadCount
  BY <1>1, FS_Subset
<1>3. Cardinality(S) \in Nat
  BY <1>2, FS_CardinalityType
<1>. QED BY <1>2, <1>3, SizesAssumption

(* Counting the workers of a set that one joins.                           *)
LEMMA WorkerAdded ==
  ASSUME NEW S \in SUBSET Worker, NEW w \in Worker, w \notin S
  PROVE  Cardinality(S \cup {w}) = Cardinality(S) + 1
BY WorkersAreFinite, FS_AddElement

(* Counting the workers of a set that one leaves.                          *)
LEMMA WorkerRemoved ==
  ASSUME NEW S \in SUBSET Worker, NEW w \in S
  PROVE  /\ Cardinality(S \ {w}) = Cardinality(S) - 1
         /\ Cardinality(S) >= 1
<1>1. Cardinality(S \ {w}) = Cardinality(S) - 1
  BY WorkersAreFinite, FS_RemoveElement
<1>2. Cardinality(S \ {w}) \in Nat /\ Cardinality(S) \in Nat
  BY WorkersAreFinite
<1>. QED BY <1>1, <1>2

(* The slots of the circular buffer: moving head moves them all.           *)
LEMMA SlotType ==
  ASSUME PoolShape, NEW i \in 0..QueueSize
  PROVE  Slot(i) \in 0..QueueSize-1
BY SizesAssumption DEF Slot, PoolShape

(* A pool that has no thread yet satisfies the invariant.                  *)
LEMMA InitPoolInv == Init => PoolInv
<1>. SUFFICES ASSUME Init PROVE PoolInv
  OBVIOUS
<1>1. PoolShape
  <2>1. CreatedInOrder /\ JoinedHaveExited
    BY SizesAssumption DEF Init, CreatedInOrder, JoinedHaveExited, Worker
  <2>2. TailFollowsTasks
    BY SizesAssumption DEF Init, TailFollowsTasks, Slot
  <2>3. TaskOnlyWhileBusy /\ CreationDone /\ ShutdownOrder /\ ExitsAreOrderly
    BY DEF Init, TaskOnlyWhileBusy, CreationDone, ShutdownOrder,
           ExitsAreOrderly
  <2>4. NobodySleepsThroughShutdown
    BY DEF Init, NobodySleepsThroughShutdown
  <2>5. /\ queue \in [0..QueueSize-1 -> Task \cup {NoTask}]
        /\ worker \in [Worker -> {"none", "ready", "waiting", "busy", "exited"}]
        /\ task \in [Worker -> Task \cup {NoTask}]
    BY DEF Init
  <2>6. /\ head \in 0..QueueSize-1 /\ tail \in 0..QueueSize-1
        /\ count \in 0..QueueSize
        /\ thread_count \in 0..ThreadCount /\ joined \in 0..ThreadCount
    BY SizesAssumption DEF Init
  <2>. QED
    BY <2>1, <2>2, <2>3, <2>4, <2>5, <2>6 DEF Init, PoolShape
<1>2. Alive = {} /\ Waiting = {}
  BY DEF Init, Alive, Waiting
<1>3. StartedCountsAlive
  BY <1>2, FS_EmptySet DEF Init, StartedCountsAlive
<1>. QED BY <1>1, <1>2, <1>3 DEF PoolInv, NoLostWakeup
---------------------------------------------------------------------------
(* Whatever step is taken, the shape of the pool is kept.                  *)
LEMMA ShapeStep == PoolShape /\ [Next]_vars => PoolShape'
<1>. SUFFICES ASSUME PoolShape, [Next]_vars PROVE PoolShape'
  OBVIOUS
<1>. USE SizesAssumption, NoneAssumption
     DEF PoolShape, CreatedInOrder, TailFollowsTasks, TaskOnlyWhileBusy,
         NobodySleepsThroughShutdown, JoinedHaveExited, CreationDone,
         ShutdownOrder, ExitsAreOrderly, Waiting, Slot, Worker, buffer
<1>1. CASE CreateThread
  BY <1>1 DEF CreateThread
<1>2. CASE CreateReturns
  BY <1>2 DEF CreateReturns
<1>3. ASSUME NEW u \in User, CreateFails(u) PROVE PoolShape'
  BY <1>3 DEF CreateFails, Shutdown
<1>4. ASSUME NEW u \in User, DestroyAgain(u) PROVE PoolShape'
  BY <1>4 DEF DestroyAgain
<1>5. ASSUME NEW u \in User, NEW how \in {"graceful", "immediate"},
             Destroy(u, how)
      PROVE  PoolShape'
  BY <1>5 DEF Destroy, Shutdown
<1>6. ASSUME NEW t \in Task, Add(t) PROVE PoolShape'
  BY <1>6, SMTT(60) DEF Add, NextSlot
<1>7. CASE Join
  BY <1>7 DEF Join
<1>8. CASE Free
  BY <1>8 DEF Free
<1>9. ASSUME NEW w \in Worker, Sleep(w) PROVE PoolShape'
  BY <1>9 DEF Sleep
<1>10. ASSUME NEW w \in Worker, Exit(w) PROVE PoolShape'
  BY <1>10 DEF Exit
<1>11. ASSUME NEW w \in Worker, Grab(w) PROVE PoolShape'
  BY <1>11 DEF Grab, NextSlot
<1>12. ASSUME NEW w \in Worker, TaskReturns(w) PROVE PoolShape'
  BY <1>12 DEF TaskReturns
<1>13. ASSUME NEW w \in Worker, SpuriousWakeup(w) PROVE PoolShape'
  BY <1>13 DEF SpuriousWakeup
<1>14. CASE UNCHANGED vars
  BY <1>14 DEF vars
<1>. QED
  BY <1>1, <1>2, <1>3, <1>4, <1>5, <1>6, <1>7, <1>8, <1>9, <1>10, <1>11,
     <1>12, <1>13, <1>14 DEF Next, WorkerStep, AllDone

---------------------------------------------------------------------------
(* `started' counts the workers alive: creating one adds it, its exit      *)
(* takes it away, and no other step makes or ends one.                     *)
LEMMA AliveStep ==
  PoolShape /\ StartedCountsAlive /\ [Next]_vars => StartedCountsAlive'
<1>. SUFFICES ASSUME PoolShape, StartedCountsAlive, [Next]_vars
              PROVE  StartedCountsAlive'
  OBVIOUS
<1>1. CASE CreateThread
  <2>. DEFINE new == thread_count + 1
  <2>1. new \in Worker /\ new \notin Alive /\ Alive' = Alive \cup {new}
    BY <1>1, SizesAssumption
    DEF CreateThread, PoolShape, CreatedInOrder, Alive, Worker
  <2>2. Cardinality(Alive') = Cardinality(Alive) + 1
    BY <2>1, WorkerAdded DEF Alive
  <2>. QED BY <1>1, <2>2 DEF CreateThread, StartedCountsAlive
<1>2. ASSUME NEW w \in Worker, Exit(w) PROVE StartedCountsAlive'
  <2>1. w \in Alive /\ Alive' = Alive \ {w}
    BY <1>2 DEF Exit, PoolShape, Alive
  <2>2. Cardinality(Alive') = Cardinality(Alive) - 1
    BY <2>1, WorkerRemoved DEF Alive
  <2>. QED BY <1>2, <2>2 DEF Exit, StartedCountsAlive
<1>3. ASSUME NEW w \in Worker, Sleep(w) \/ Grab(w) \/ TaskReturns(w)
                               \/ SpuriousWakeup(w)
      PROVE  StartedCountsAlive'
  <2>1. Alive' = Alive
    BY <1>3 DEF Sleep, Grab, TaskReturns, SpuriousWakeup, PoolShape, Alive
  <2>. QED
    BY <1>3, <2>1
    DEF Sleep, Grab, TaskReturns, SpuriousWakeup, StartedCountsAlive
<1>4. ASSUME NEW u \in User, NEW how, Shutdown(u, how)
      PROVE  StartedCountsAlive'
  <2>1. Alive' = Alive
    BY <1>4 DEF Shutdown, PoolShape, Alive, Waiting
  <2>. QED BY <1>4, <2>1 DEF Shutdown, StartedCountsAlive
<1>5. ASSUME NEW t \in Task, Add(t) PROVE StartedCountsAlive'
  <2>1. Alive' = Alive
    BY <1>5 DEF Add, PoolShape, Alive, Waiting
  <2>. QED BY <1>5, <2>1 DEF Add, StartedCountsAlive
<1>6. ASSUME UNCHANGED <<started, worker>> PROVE StartedCountsAlive'
  BY <1>6 DEF StartedCountsAlive, Alive
<1>. QED
  BY <1>1, <1>2, <1>3, <1>4, <1>5, <1>6
  DEF Next, WorkerStep, AllDone, vars, CreateReturns, CreateFails, Destroy,
      DestroyAgain, Join, Free

---------------------------------------------------------------------------
(* A wakeup is not lost: a task that comes takes a sleeping worker to the  *)
(* queue with it, or finds none asleep, and a worker that turns away from  *)
(* the queue takes a task or leaves none asleep behind it.                 *)
LEMMA WakeupStep ==
  PoolShape /\ NoLostWakeup /\ [Next]_vars => NoLostWakeup'
<1>. SUFFICES ASSUME PoolShape, NoLostWakeup, [Next]_vars
              PROVE  NoLostWakeup'
  OBVIOUS
<1>0. /\ count \in Nat
      /\ Cardinality(Ready) \in Nat /\ Cardinality(Ready') \in Nat
  BY WorkersAreFinite, SizesAssumption DEF PoolShape, Ready
<1>1. CASE CreateThread
  <2>. DEFINE new == thread_count + 1
  <2>1. /\ new \in Worker /\ new \notin Ready /\ Ready' = Ready \cup {new}
        /\ Waiting' = Waiting
    BY <1>1, SizesAssumption
    DEF CreateThread, PoolShape, CreatedInOrder, Ready, Waiting, Worker
  <2>2. Cardinality(Ready') = Cardinality(Ready) + 1
    BY <2>1, WorkerAdded DEF Ready
  <2>. QED BY <1>0, <1>1, <2>1, <2>2 DEF CreateThread, buffer, NoLostWakeup
<1>2. ASSUME NEW u \in User, NEW how, Shutdown(u, how) PROVE NoLostWakeup'
  BY <1>2 DEF Shutdown, PoolShape, NoLostWakeup, Waiting
<1>3. ASSUME NEW t \in Task, Add(t) PROVE NoLostWakeup'
  <2>1. CASE Waiting = {}
    BY <1>3, <2>1 DEF Add, NoLostWakeup, Waiting
  <2>2. ASSUME NEW w \in Waiting, worker' = [worker EXCEPT ![w] = "ready"]
        PROVE  NoLostWakeup'
    <3>1. w \in Worker /\ w \notin Ready /\ Ready' = Ready \cup {w}
      BY <2>2 DEF PoolShape, Ready, Waiting
    <3>2. Cardinality(Ready') = Cardinality(Ready) + 1
      BY <3>1, WorkerAdded DEF Ready
    <3>. QED BY <1>0, <1>3, <2>2, <3>2 DEF Add, NoLostWakeup
  <2>. QED BY <1>3, <2>1, <2>2 DEF Add
<1>4. ASSUME NEW w \in Worker, Sleep(w) PROVE NoLostWakeup'
  BY <1>0, <1>4 DEF Sleep, buffer, NoLostWakeup
<1>5. ASSUME NEW w \in Worker, Exit(w) PROVE NoLostWakeup'
  BY <1>5
  DEF Exit, PoolShape, NobodySleepsThroughShutdown, NoLostWakeup, Waiting
<1>6. ASSUME NEW w \in Worker, Grab(w) PROVE NoLostWakeup'
  <2>1. w \in Ready /\ Ready' = Ready \ {w} /\ Waiting' = Waiting
    BY <1>6 DEF Grab, PoolShape, Ready, Waiting
  <2>2. Cardinality(Ready') = Cardinality(Ready) - 1
    BY <2>1, WorkerRemoved DEF Ready
  <2>. QED BY <1>0, <1>6, <2>1, <2>2 DEF Grab, NoLostWakeup
<1>7. ASSUME NEW w \in Worker, TaskReturns(w) PROVE NoLostWakeup'
  <2>1. w \notin Ready /\ Ready' = Ready \cup {w} /\ Waiting' = Waiting
    BY <1>7 DEF TaskReturns, PoolShape, Ready, Waiting
  <2>2. Cardinality(Ready') = Cardinality(Ready) + 1
    BY <2>1, WorkerAdded DEF Ready
  <2>. QED BY <1>0, <1>7, <2>1, <2>2 DEF TaskReturns, buffer, NoLostWakeup
<1>8. ASSUME NEW w \in Worker, SpuriousWakeup(w) PROVE NoLostWakeup'
  <2>1. /\ w \in Waiting /\ w \notin Ready
        /\ Ready' = Ready \cup {w} /\ Waiting' = Waiting \ {w}
    BY <1>8 DEF SpuriousWakeup, PoolShape, Ready, Waiting
  <2>2. Cardinality(Ready') = Cardinality(Ready) + 1
    BY <2>1, WorkerAdded DEF Ready
  <2>. QED BY <1>0, <1>8, <2>1, <2>2 DEF SpuriousWakeup, buffer, NoLostWakeup
<1>9. ASSUME UNCHANGED <<count, worker>> PROVE NoLostWakeup'
  BY <1>9 DEF NoLostWakeup, Ready, Waiting
<1>. QED
  BY <1>1, <1>2, <1>3, <1>4, <1>5, <1>6, <1>7, <1>8, <1>9
  DEF Next, WorkerStep, AllDone, vars, buffer, CreateReturns, CreateFails,
      Destroy, DestroyAgain, Join, Free

---------------------------------------------------------------------------
(* The invariant always holds.                                             *)
LEMMA PoolInvariant == Spec => []PoolInv
<1>1. PoolInv /\ [Next]_vars => PoolInv'
  BY ShapeStep, AliveStep, WakeupStep DEF PoolInv
<1>. QED BY <1>1, InitPoolInv, PTL DEF Spec

(* The variables keep their types; that `started' stays within the number  *)
(* of threads is that it counts those alive.                               *)
THEOREM PoolTypes == Spec => []TypeOK
<1>1. PoolInv => TypeOK
  <2>. SUFFICES ASSUME PoolInv PROVE TypeOK
    OBVIOUS
  <2>1. started \in 0..ThreadCount
    BY WorkersAreFinite DEF PoolInv, StartedCountsAlive, Alive
  <2>. QED BY <2>1 DEF PoolInv, PoolShape, TypeOK
<1>. QED BY <1>1, PoolInvariant, PTL

(* pthread_cond_signal wakes one worker for one task, and that is enough.  *)
THEOREM NoWakeupIsLost == Spec => []NoLostWakeup
BY PoolInvariant, PTL DEF PoolInv

(* threadpool_destroy wakes every worker, and none goes to sleep again.    *)
THEOREM NobodySleeps == Spec => []NobodySleepsThroughShutdown
BY PoolInvariant, PTL DEF PoolInv, PoolShape

(* threadpool_free comes after the last thread has left the pool alone.    *)
THEOREM FreedLast == Spec => []FreedAfterTheLastThread
<1>1. PoolInv => FreedAfterTheLastThread
  BY SizesAssumption
  DEF PoolInv, PoolShape, CreatedInOrder, JoinedHaveExited, ShutdownOrder,
      FreedAfterTheLastThread, Worker
<1>. QED BY <1>1, PoolInvariant, PTL
---------------------------------------------------------------------------
(* The circular buffer as a sequence: what is put at `tail' comes last,    *)
(* and when `head' moves the first is gone.                                *)
LEMMA PendingType ==
  PoolShape => /\ pending \in Seq(Task \cup {NoTask})
               /\ Len(pending) = count
BY SlotType, SizesAssumption DEF PoolShape, pending

(* threadpool_add appends to the tasks that wait.                          *)
LEMMA PendingAdded ==
  ASSUME PoolShape, NEW t \in Task, Add(t)
  PROVE  pending' = Append(pending, t)
<1>. USE SizesAssumption DEF PoolShape
<1>1. /\ count' = count + 1 /\ head' = head
      /\ queue' = [queue EXCEPT ![Slot(count)] = t]
      /\ Slot(count) \in 0..QueueSize-1
  BY SlotType DEF Add, TailFollowsTasks
<1>2. \A i \in 1..count : Slot(i-1) # Slot(count) /\ Slot(i-1) \in 0..QueueSize-1
  BY DEF Slot, Add
<1>3. \A i : Slot(i)' = Slot(i)
  BY <1>1 DEF Slot
<1>4. pending' = [i \in 1..count+1 |->
                    IF i = count+1 THEN t ELSE pending[i]]
  BY <1>1, <1>2, <1>3 DEF pending
<1>5. pending \in Seq(Task \cup {NoTask}) /\ Len(pending) = count
  BY PendingType
<1>6. /\ pending' \in Seq(Task \cup {NoTask}) /\ Len(pending') = count + 1
  BY <1>4, <1>5, ElementOfSeq
<1>7. \A i \in 1..count+1 : pending'[i] = Append(pending, t)[i]
  BY <1>4, <1>5, AppendProperties
<1>. QED BY <1>5, <1>6, <1>7, AppendProperties, SeqEqual

(* A worker takes the first of them.                                       *)
LEMMA PendingTaken ==
  ASSUME PoolShape, NEW w \in Worker, Grab(w)
  PROVE  /\ pending # <<>>
         /\ task' = [task EXCEPT ![w] = Head(pending)]
         /\ pending' = Tail(pending)
<1>. USE SizesAssumption DEF PoolShape
<1>1. /\ count \in 1..QueueSize /\ count' = count - 1
      /\ queue' = queue /\ head' = NextSlot(head)
      /\ task' = [task EXCEPT ![w] = queue[head]]
  BY DEF Grab
<1>2. Slot(0) = head
  BY DEF Slot
<1>3. pending # <<>> /\ Head(pending) = queue[head]
  BY <1>1, <1>2, PendingType DEF pending
<1>4. \A i \in 1..count-1 : Slot(i-1)' = Slot(i)
  BY <1>1 DEF Slot, NextSlot
<1>5. pending' = [i \in 1..count-1 |-> queue[Slot(i)]]
  BY <1>1, <1>4 DEF pending
<1>6. Tail(pending) = [i \in 1..count-1 |-> queue[Slot(i)]]
  BY <1>1, <1>3, PendingType, SMTT(60) DEF pending
<1>. QED BY <1>1, <1>3, <1>5, <1>6

(* When destroy has joined every worker, none runs a task, and after a     *)
(* graceful shutdown the last of them has found the queue empty.           *)
LEMMA FreedWhenDone ==
  ASSUME PoolShape, ThreadCount # 0, shutdown # "no", joined = thread_count
  PROVE  /\ \A w \in Worker : task[w] = NoTask
         /\ shutdown = "graceful" => pending = <<>>
<1>. USE SizesAssumption DEF PoolShape
<1>1. \A w \in Worker : worker[w] \in {"none", "exited"}
  BY DEF CreatedInOrder, JoinedHaveExited, Worker
<1>2. \A w \in Worker : task[w] = NoTask
  BY <1>1 DEF TaskOnlyWhileBusy
<1>3. ASSUME shutdown = "graceful" PROVE pending = <<>>
  <2>1. 1 \in Worker /\ worker[1] = "exited"
    BY <1>3 DEF ShutdownOrder, CreationDone, JoinedHaveExited, Worker
  <2>2. count = 0
    BY <1>3, <2>1 DEF ExitsAreOrderly
  <2>. QED BY <2>2, PendingType
<1>. QED BY <1>2, <1>3

(* Every step of the pool is one of the work queue, or none.               *)
LEMMA PoolStepIsWorkQueueStep ==
  ASSUME ThreadCount # 0, PoolInv, [Next]_vars
  PROVE  [Promise!Next]_(Promise!vars)
<1>. USE DEF PoolInv, Promise!vars
<1>1. ASSUME NEW t \in Task, Add(t) PROVE Promise!Submit(t)
  <2>1. Len(pending) < QueueSize
    BY <1>1, PendingType, SizesAssumption DEF Add, PoolShape
  <2>. QED BY <1>1, <2>1, PendingAdded DEF Add, Promise!Submit
<1>2. ASSUME NEW w \in Worker, Grab(w) PROVE Promise!Begin(w)
  <2>1. task[w] = NoTask
    BY <1>2 DEF Grab, PoolShape, TaskOnlyWhileBusy
  <2>. QED BY <1>2, <2>1, PendingTaken DEF Grab, PoolShape, Promise!Begin
<1>3. ASSUME NEW w \in Worker, TaskReturns(w) PROVE Promise!End(w)
  BY <1>3 DEF TaskReturns, buffer, pending, Slot, Promise!End
<1>4. ASSUME NEW u \in User, NEW how \in {"graceful", "immediate"},
             Shutdown(u, how)
      PROVE  Promise!Close(how)
  BY <1>4 DEF Shutdown, buffer, pending, Slot, Promise!Close
<1>5. CASE Free
  <2>1. UNCHANGED <<pending, task, shutdown>>
    BY <1>5 DEF Free, buffer, pending, Slot
  <2>2. CASE started <= 0
    <3>1. shutdown # "no" /\ joined = thread_count /\ freed' = TRUE
      BY <1>5, <2>2 DEF Free, PoolShape, ShutdownOrder
    <3>2. Promise!Release
      BY <2>1, <3>1, FreedWhenDone DEF Promise!Release, PoolShape
    <3>. QED BY <3>2 DEF Promise!Next
  <2>3. CASE ~(started <= 0)
    <3>1. Alive = {}
      BY <1>5, SizesAssumption
      DEF Free, PoolShape, CreatedInOrder, JoinedHaveExited, Alive, Worker
    <3>. QED BY <2>3, <3>1, FS_EmptySet DEF StartedCountsAlive
  <2>. QED BY <2>2, <2>3
<1>6. ASSUME UNCHANGED <<buffer, task, shutdown, freed>>
      PROVE  UNCHANGED Promise!vars
  BY <1>6 DEF buffer, pending, Slot
<1>. QED
  BY <1>1, <1>2, <1>3, <1>4, <1>5, <1>6
  DEF Next, WorkerStep, AllDone, vars, CreateThread, CreateReturns,
      CreateFails, Destroy, DestroyAgain, Join, Sleep, Exit, SpuriousWakeup,
      Promise!Next

(* The pool implements the work queue of ThreadPool.h, if it has a thread: *)
(* threadpool_create takes 0 as well, and then a graceful destroy frees    *)
(* the pool with the tasks still in it.                                    *)
THEOREM PoolImplementsWorkQueue ==
  ASSUME ThreadCount # 0
  PROVE  Spec => ImplementsWorkQueue
<1>1. Init => Promise!Init
  BY DEF Init, Promise!Init, pending
<1>2. PoolInv /\ [Next]_vars => [Promise!Next]_(Promise!vars)
  BY PoolStepIsWorkQueueStep
<1>. QED
  BY <1>1, <1>2, PoolInvariant, PTL DEF Spec, ImplementsWorkQueue, Promise!Spec
=============================================================================
