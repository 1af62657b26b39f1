-------------------------- MODULE DelayTaskProofs ---------------------------
(***************************************************************************)
(* Proofs about DelayTask, for any tasks, sessions, delays and clock: its  *)
(* types, that a task is queued once, and that do_delay_task still finds   *)
(* the task it runs at the head of the list, due, whatever the callback    *)
(* added or destroyed; and that the list implements TimerList.             *)
(*                                                                         *)
(* The conjunction of the three is inductive: what a deletion does to the  *)
(* head is known because only one entry is the task that runs.  The        *)
(* refinement follows from what each operation on a list does to the       *)
(* timers it stands for (TimerOf) and to their order (OrderOf).            *)
(***************************************************************************)
EXTENDS DelayTask, DelayQueueProofs

TaskInv == TypeOK /\ QueuedOnce /\ RunningAtHead

(* r is q after the walk of destroy_sess_task has looked at i entries: of  *)
(* the first i those of the session are gone, the rest are as they were.   *)
WalkedTo(q, a, r, i) ==
  /\ Len(r) \in Len(q)-i..Len(q)
  /\ \A j \in i+1..Len(q) : /\ r[j - (Len(q) - Len(r))].id = q[j].id
                            /\ r[j - (Len(q) - Len(r))].arg = q[j].arg
  /\ \A k \in 1..Len(r) : \E j \in 1..Len(q) : /\ r[k].id = q[j].id
                                               /\ r[k].arg = q[j].arg
  /\ \A k, l \in 1..Len(r) : r[k].id = r[l].id => k = l
  /\ \A k \in 1..Len(r) - (Len(q) - i) : r[k].arg # a
  /\ i > 0 /\ q[1].arg # a => /\ Len(r) - (Len(q) - i) >= 1
                              /\ r[1].id = q[1].id /\ r[1].delta = q[1].delta
  /\ i = 0 => r = q

---------------------------------------------------------------------------
(* What DelayQueueProofs asks of a set of entries.                         *)
LEMMA EntriesAreEntries == IsEntrySet(Entry)
BY DEF IsEntrySet, Entry

(* sync_delay_time's `elapsed' is a number.                                *)
LEMMA ElapsedType ==
  ASSUME NEW s \in Int
  PROVE  Elapsed(s, IntMax) \in Int
BY ClockAssumption DEF Elapsed

(* Bringing the list up to date changes deltas only, and none that is 0.   *)
LEMMA ElapseKeeps ==
  ASSUME NEW q \in Seq(Entry), NEW e \in Int
  PROVE  /\ Elapse(q, e) \in Seq(Entry) /\ Len(Elapse(q, e)) = Len(q)
         /\ \A i \in 1..Len(q) : /\ Elapse(q, e)[i].id = q[i].id
                                 /\ Elapse(q, e)[i].arg = q[i].arg
                                 /\ q[i].delta = 0 => Elapse(q, e)[i].delta = 0
<1>1. /\ Elapse(q, e) \in Seq(Entry) /\ Len(Elapse(q, e)) = Len(q)
      /\ \A i \in 1..Len(q) :
           /\ Redated(q[i], Elapse(q, e)[i])
           /\ q[i].delta = 0 => Elapse(q, e)[i].delta = 0
  BY EntriesAreEntries, ElapseType
<1>2. \A i \in 1..Len(q) : q[i] \in Entry
  BY ElementOfSeq
<1>. QED BY <1>1, <1>2 DEF Entry, Redated

(* Adding a task adds its entry, behind those due before or with it.       *)
LEMMA InsertKeeps ==
  ASSUME NEW q \in Seq(Entry), NEW task \in Entry
  PROVE  /\ Insert(q, task) \in Seq(Entry)
         /\ Len(Insert(q, task)) = Len(q) + 1
         /\ \E p \in 1..Len(q)+1 :
              /\ Insert(q, task)[p].id = task.id
              /\ \A i \in 1..p-1 : Insert(q, task)[i] = q[i]
              /\ \A i \in p+1..Len(q)+1 : Insert(q, task)[i].id = q[i-1].id
              /\ Len(q) > 0 /\ q[1].delta = 0 => p > 1
<1>. DEFINE p == InsertPos(q, task.delta)
<1>1. /\ Insert(q, task) \in Seq(Entry)
      /\ Len(Insert(q, task)) = Len(q) + 1
      /\ InsertedAt(q, task, p, Insert(q, task))
  BY EntriesAreEntries, InsertType
<1>2. /\ Len(q) \in Nat /\ task.delta \in Nat
      /\ \A i \in 1..Len(q) : q[i] \in Entry
  BY ElementOfSeq, LenProperties DEF Entry
<1>3. /\ p <= Len(q) => DueTimes(q)[p] > task.delta
      /\ DueTimes(q)[0] = 0
      /\ \A i \in 1..Len(q) : DueTimes(q)[i] = DueTimes(q)[i-1] + q[i].delta
  BY <1>2, EntriesAreEntries, InsertPosIsFirstLater, DueTimesEquation
<1>. HIDE DEF p
<1>4. Len(q) > 0 /\ q[1].delta = 0 => p > 1
  <2>. SUFFICES ASSUME Len(q) > 0, q[1].delta = 0, p = 1 PROVE FALSE
    BY <1>1, <1>2 DEF InsertedAt
  <2>1. DueTimes(q)[1] = 0
    BY <1>2, <1>3
  <2>. QED BY <1>2, <1>3, <2>1
<1>5. \A i \in p+1..Len(q)+1 : Insert(q, task)[i].id = q[i-1].id
  <2>1. \A i \in p+1..Len(q)+1 : q[i-1] \in Entry
    BY <1>1, <1>2 DEF InsertedAt
  <2>. QED BY <1>1, <2>1 DEF InsertedAt, Redated, Entry
<1>6. Insert(q, task)[p].id = task.id
  BY <1>1 DEF InsertedAt, Redated, Entry
<1>. QED BY <1>1, <1>4, <1>5, <1>6 DEF InsertedAt

(* Deleting an entry moves those after it up by one.                       *)
LEMMA DeleteKeeps ==
  ASSUME NEW q \in Seq(Entry), NEW i \in 1..Len(q)
  PROVE  /\ Delete(q, i) \in Seq(Entry)
         /\ Len(Delete(q, i)) = Len(q) - 1
         /\ \A k \in 1..i-1 : Delete(q, i)[k] = q[k]
         /\ \A k \in i..Len(q)-1 : /\ Delete(q, i)[k].id = q[k+1].id
                                   /\ Delete(q, i)[k].arg = q[k+1].arg
<1>1. Len(q) \in Nat /\ \A k \in 1..Len(q) : q[k] \in Entry
  BY ElementOfSeq, LenProperties
<1>2. Delete(q, i) \in Seq(Entry) /\ Len(Delete(q, i)) = Len(q) - 1
  <2>1. i \in Int /\ Len(q) > 0
    BY <1>1
  <2>. QED BY <2>1, EntriesAreEntries, DeleteType, Zenon
<1>3. \A k \in 1..i-1 : Delete(q, i)[k] = q[k]
  BY <1>1 DEF Delete
<1>4. ASSUME NEW k \in i..Len(q)-1
      PROVE  /\ Delete(q, i)[k].id = q[k+1].id
             /\ Delete(q, i)[k].arg = q[k+1].arg
  <2>1. k \in 1..Len(q)-1 /\ q[k+1] \in Entry
    BY <1>1
  <2>. QED BY <1>1, <2>1 DEF Delete, Entry
<1>. QED BY <1>2, <1>3, <1>4
---------------------------------------------------------------------------
(* Looking at one more entry keeps WalkedTo.                               *)
LEMMA WalkStep ==
  ASSUME NEW q \in Seq(Entry), NEW a, NEW i \in 1..Len(q),
         NEW r \in Seq(Entry), WalkedTo(q, a, r, i-1)
  PROVE  WalkedTo(q, a, IF q[i].arg = a
                        THEN Delete(r, i - (Len(q) - Len(r))) ELSE r, i)
<1>. DEFINE c == i - (Len(q) - Len(r))
            d == Delete(r, c)
<1>1. /\ Len(q) \in Nat /\ Len(r) \in Nat
      /\ Len(r) \in Len(q)-(i-1)..Len(q)
      /\ c = i - (Len(q) - Len(r)) /\ c \in 1..Len(r) /\ c <= i
      /\ r[c].id = q[i].id /\ r[c].arg = q[i].arg
  BY LenProperties DEF WalkedTo
<1>. HIDE DEF c
<1>2. CASE q[i].arg # a
  <2>1. \A k \in 1..Len(r) - (Len(q) - i) : r[k].arg # a
    <3>1. \A k \in 1..Len(r) - (Len(q) - i) :
            k = c \/ k \in 1..Len(r) - (Len(q) - (i-1))
      BY <1>1, SMTT(60)
    <3>. QED BY <1>1, <1>2, <3>1 DEF WalkedTo
  <2>2. q[1].arg # a => /\ Len(r) - (Len(q) - i) >= 1
                        /\ r[1].id = q[1].id /\ r[1].delta = q[1].delta
    <3>1. CASE i = 1
      <4>1. r = q
        BY <3>1 DEF WalkedTo
      <4>. QED BY <1>1, <3>1, <4>1
    <3>2. CASE i # 1
      <4>1. i - 1 > 0
        BY <3>2
      <4>2. q[1].arg # a => /\ Len(r) - (Len(q) - (i-1)) >= 1
                            /\ r[1].id = q[1].id /\ r[1].delta = q[1].delta
        BY <4>1 DEF WalkedTo
      <4>. QED BY <1>1, <4>2
    <3>. QED BY <3>1, <3>2
  <2>3. /\ Len(r) \in Len(q)-i..Len(q)
        /\ \A j \in i+1..Len(q) : /\ r[j - (Len(q) - Len(r))].id = q[j].id
                                  /\ r[j - (Len(q) - Len(r))].arg = q[j].arg
    BY <1>1 DEF WalkedTo
  <2>4. WalkedTo(q, a, r, i)
    BY <1>1, <2>1, <2>2, <2>3 DEF WalkedTo
  <2>. QED BY <1>2, <2>4
<1>3. CASE q[i].arg = a
  <2>1. /\ d \in Seq(Entry) /\ Len(d) = Len(r) - 1
        /\ \A k \in 1..c-1 : d[k] = r[k]
        /\ \A k \in c..Len(r)-1 : d[k].id = r[k+1].id /\ d[k].arg = r[k+1].arg
    BY <1>1, DeleteKeeps
  <2>. HIDE DEF d
  <2>2. Len(d) \in Len(q)-i..Len(q)
    BY <1>1, <2>1
  <2>3. ASSUME NEW j \in i+1..Len(q)
        PROVE  /\ d[j - (Len(q) - Len(d))].id = q[j].id
               /\ d[j - (Len(q) - Len(d))].arg = q[j].arg
    <3>1. /\ j - (Len(q) - Len(d)) \in c..Len(r)-1
          /\ (j - (Len(q) - Len(d))) + 1 = j - (Len(q) - Len(r))
          /\ j \in (i-1)+1..Len(q)
      BY <1>1, <2>1, SMTT(60)
    <3>2. /\ r[j - (Len(q) - Len(r))].id = q[j].id
          /\ r[j - (Len(q) - Len(r))].arg = q[j].arg
      BY <3>1 DEF WalkedTo
    <3>. QED BY <2>1, <3>1, <3>2
  <2>4. ASSUME NEW k \in 1..Len(d)
        PROVE  \/ /\ k < c /\ k \in 1..Len(r)
                  /\ d[k].id = r[k].id /\ d[k].arg = r[k].arg
               \/ /\ k >= c /\ k + 1 \in 1..Len(r)
                  /\ d[k].id = r[k+1].id /\ d[k].arg = r[k+1].arg
    <3>1. CASE k < c
      <4>1. k \in 1..c-1 /\ k \in 1..Len(r)
        BY <1>1, <2>1, <3>1, SMTT(60)
      <4>. QED BY <2>1, <3>1, <4>1
    <3>2. CASE k >= c
      <4>1. k \in c..Len(r)-1 /\ k + 1 \in 1..Len(r)
        BY <1>1, <2>1, <3>2, SMTT(60)
      <4>. QED BY <2>1, <3>2, <4>1
    <3>. QED BY <1>1, <3>1, <3>2
  <2>5. \A k \in 1..Len(d) : \E j \in 1..Len(q) : /\ d[k].id = q[j].id
                                                 /\ d[k].arg = q[j].arg
    <3>1. ASSUME NEW k \in 1..Len(d)
          PROVE  \E m \in 1..Len(r) : d[k].id = r[m].id /\ d[k].arg = r[m].arg
      BY <2>4
    <3>2. \A m \in 1..Len(r) : \E j \in 1..Len(q) : /\ r[m].id = q[j].id
                                                     /\ r[m].arg = q[j].arg
      BY DEF WalkedTo
    <3>. QED BY <3>1, <3>2
  <2>6. \A k, l \in 1..Len(d) : d[k].id = d[l].id => k = l
    <3>. SUFFICES ASSUME NEW k \in 1..Len(d), NEW l \in 1..Len(d),
                         d[k].id = d[l].id
                  PROVE  k = l
      OBVIOUS
    <3>. DEFINE from(n) == IF n < c THEN n ELSE n + 1
    <3>1. /\ from(k) \in 1..Len(r) /\ from(l) \in 1..Len(r)
          /\ r[from(k)].id = d[k].id /\ r[from(l)].id = d[l].id
      <4>1. from(k) \in 1..Len(r) /\ r[from(k)].id = d[k].id
        BY <1>1, <2>4, SMTT(60)
      <4>2. from(l) \in 1..Len(r) /\ r[from(l)].id = d[l].id
        BY <1>1, <2>4, SMTT(60)
      <4>. QED BY <4>1, <4>2
    <3>2. from(k) = from(l)
      <4>1. \A m, n \in 1..Len(r) : r[m].id = r[n].id => m = n
        BY DEF WalkedTo
      <4>. HIDE DEF from
      <4>. QED BY <3>1, <4>1
    <3>. QED BY <1>1, <2>1, <3>2, SMTT(60)
  <2>7. ASSUME NEW k \in 1..Len(d) - (Len(q) - i) PROVE d[k].arg # a
    <3>1. /\ Len(d) - (Len(q) - i) = c - 1
          /\ Len(r) - (Len(q) - (i-1)) = c - 1
      BY <1>1, <2>1
    <3>2. \A m \in 1..c-1 : r[m].arg # a
      BY <3>1 DEF WalkedTo
    <3>3. k \in 1..c-1
      BY <3>1
    <3>. QED BY <2>1, <3>2, <3>3
  <2>8. ASSUME q[1].arg # a
        PROVE  /\ Len(d) - (Len(q) - i) >= 1
               /\ d[1].id = q[1].id /\ d[1].delta = q[1].delta
    <3>1. i - 1 > 0
      BY <1>1, <1>3, <2>8
    <3>2. /\ Len(r) - (Len(q) - (i-1)) >= 1
          /\ r[1].id = q[1].id /\ r[1].delta = q[1].delta
      BY <2>8, <3>1 DEF WalkedTo
    <3>3. 1 \in 1..c-1 /\ Len(d) - (Len(q) - i) >= 1
      BY <1>1, <2>1, <3>2
    <3>. QED BY <2>1, <3>2, <3>3
  <2>9. WalkedTo(q, a, d, i)
    BY <1>1, <2>2, <2>3, <2>5, <2>6, <2>7, <2>8 DEF WalkedTo
  <2>10. d = Delete(r, i - (Len(q) - Len(r)))
    BY <1>1 DEF d
  <2>. QED BY <1>3, <2>9, <2>10
<1>. QED BY <1>2, <1>3

(* destroy_sess_task: nothing of the session is left, nothing else goes,   *)
(* and the head, if it is another session's, is the head still.            *)
LEMMA DeleteArgKeeps ==
  ASSUME NEW q \in Seq(Entry), NEW a,
         \A k, l \in 1..Len(q) : q[k].id = q[l].id => k = l
  PROVE  DeleteArg(q, a) \in Seq(Entry) /\ WalkedTo(q, a, DeleteArg(q, a), Len(q))
<1>1. PICK rest \in [0..Len(q) -> Seq(Entry)] :
        Walk(q, a, rest) /\ DeleteArg(q, a) = rest[Len(q)]
  BY EntriesAreEntries, DeleteArgWalk
<1>2. Len(q) \in Nat
  BY LenProperties
<1>. DEFINE T == {i \in 0..Len(q) : WalkedTo(q, a, rest[i], i)}
<1>3. 0 \in T /\ T \in SUBSET (0..Len(q))
  <2>1. rest[0] = q
    BY <1>1 DEF Walk
  <2>2. WalkedTo(q, a, q, 0)
    BY <1>2 DEF WalkedTo
  <2>. QED BY <1>2, <2>1, <2>2
<1>4. ASSUME NEW i \in 1..Len(q), i - 1 \in T PROVE i \in T
  <2>1. i - 1 \in 0..Len(q) /\ rest[i-1] \in Seq(Entry)
    BY <1>2, SMTT(60)
  <2>2. WalkedTo(q, a, rest[i-1], i-1)
    BY <1>4
  <2>3. WalkedTo(q, a, IF q[i].arg = a
                       THEN Delete(rest[i-1], i - (Len(q) - Len(rest[i-1])))
                       ELSE rest[i-1], i)
    BY <2>1, <2>2, WalkStep
  <2>4. rest[i] = IF q[i].arg = a
                  THEN Delete(rest[i-1], i - (Len(q) - Len(rest[i-1])))
                  ELSE rest[i-1]
    BY <1>1 DEF Walk
  <2>5. i \in 0..Len(q) /\ WalkedTo(q, a, rest[i], i)
    BY <1>2, <2>3, <2>4
  <2>. QED BY <2>5
<1>5. T = 0..Len(q)
  <2>. HIDE DEF T
  <2>. QED BY <1>2, <1>3, <1>4, UptoInduction
<1>. QED BY <1>1, <1>2, <1>5
---------------------------------------------------------------------------
(* What is on a list are tasks.                                            *)
LEMMA IdsAreTasks ==
  ASSUME NEW q \in Seq(Entry)
  PROVE  \A k \in 1..Len(q) : q[k].id \in Task
<1>. SUFFICES ASSUME NEW k \in 1..Len(q) PROVE q[k].id \in Task
  OBVIOUS
<1>1. q[k] \in Entry
  BY ElementOfSeq
<1>. QED BY <1>1 DEF Entry

(* init_delay_task_queue establishes the invariant.                        *)
LEMMA InitTaskInv == Init => TaskInv
<1>. SUFFICES ASSUME Init PROVE TaskInv
  OBVIOUS
<1>1. queue = <<>> /\ queue \in Seq(Entry) /\ Len(queue) = 0
  BY EmptySeq DEF Init
<1>2. TypeOK
  <2>1. skew \in Int /\ running \in Task \cup {NoTask}
    BY DEF Init
  <2>2. spilled \in BOOLEAN
    BY Zenon DEF Init
  <2>. QED BY <1>1, <2>1, <2>2 DEF TypeOK
<1>3. QueuedOnce /\ RunningAtHead
  BY <1>1 DEF QueuedOnce, RunningAtHead, Queued
<1>. QED BY <1>2, <1>3 DEF TaskInv

(* The list brought up to date.                                            *)
LEMMA SyncedKeeps ==
  ASSUME TaskInv
  PROVE  /\ Synced \in Seq(Entry) /\ Len(Synced) = Len(queue)
         /\ \A i \in 1..Len(queue) : /\ Synced[i].id = queue[i].id
                                     /\ Synced[i].arg = queue[i].arg
                                     /\ queue[i].delta = 0 => Synced[i].delta = 0
<1>1. queue \in Seq(Entry) /\ Elapsed(skew, IntMax) \in Int
  BY ElapsedType DEF TaskInv, TypeOK
<1>. QED BY <1>1, ElapseKeeps DEF Synced

(* A list that gets an entry of a task it does not hold.                   *)
LEMMA InsertKeepsOnce ==
  ASSUME NEW q \in Seq(Entry), NEW e \in Entry,
         \A i, j \in 1..Len(q) : q[i].id = q[j].id => i = j,
         \A i \in 1..Len(q) : q[i].id # e.id
  PROVE  \A i, j \in 1..Len(q)+1 :
           Insert(q, e)[i].id = Insert(q, e)[j].id => i = j
<1>1. PICK p \in 1..Len(q)+1 :
        /\ Insert(q, e)[p].id = e.id
        /\ \A i \in 1..p-1 : Insert(q, e)[i] = q[i]
        /\ \A i \in p+1..Len(q)+1 : Insert(q, e)[i].id = q[i-1].id
  BY InsertKeeps, ZenonT(90)
<1>2. Len(q) \in Nat
  BY LenProperties
<1>. DEFINE from(i) == IF i < p THEN i ELSE i - 1
<1>3. ASSUME NEW i \in 1..Len(q)+1
      PROVE  \/ i = p /\ Insert(q, e)[i].id = e.id
             \/ /\ i # p /\ from(i) \in 1..Len(q)
                /\ Insert(q, e)[i].id = q[from(i)].id
  <2>1. CASE i = p
    BY <1>1, <2>1
  <2>2. CASE i < p
    <3>1. i \in 1..p-1 /\ from(i) = i /\ i \in 1..Len(q)
      BY <1>2, <2>2
    <3>. QED BY <1>1, <2>2, <3>1
  <2>3. CASE i > p
    <3>1. i \in p+1..Len(q)+1 /\ from(i) = i - 1 /\ i - 1 \in 1..Len(q)
      BY <1>2, <2>3
    <3>. QED BY <1>1, <2>3, <3>1
  <2>. QED BY <1>2, <2>1, <2>2, <2>3
<1>4. ASSUME NEW i \in 1..Len(q)+1, NEW j \in 1..Len(q)+1,
             i # p, j # p, from(i) = from(j)
      PROVE  i = j
  BY <1>2, <1>4
<1>. HIDE DEF from
<1>. QED BY <1>3, <1>4

(* Deleting an entry leaves the others, each once.                         *)
LEMMA DeleteKeepsOnce ==
  ASSUME NEW q \in Seq(Entry), NEW i \in 1..Len(q),
         \A k, l \in 1..Len(q) : q[k].id = q[l].id => k = l
  PROVE  LET d == Delete(q, i)
         IN  /\ d \in Seq(Entry) /\ Len(d) = Len(q) - 1
             /\ \A k, l \in 1..Len(d) : d[k].id = d[l].id => k = l
             /\ \A k \in 1..Len(d) : d[k].id # q[i].id
<1>. DEFINE d == Delete(q, i)
            from(k) == IF k < i THEN k ELSE k + 1
<1>1. /\ Len(q) \in Nat
      /\ d \in Seq(Entry) /\ Len(d) = Len(q) - 1
      /\ \A k \in 1..i-1 : d[k] = q[k]
      /\ \A k \in i..Len(q)-1 : d[k].id = q[k+1].id
  BY DeleteKeeps, LenProperties
<1>. HIDE DEF d
<1>2. ASSUME NEW k \in 1..Len(d)
      PROVE  /\ from(k) \in 1..Len(q) /\ from(k) # i
             /\ d[k].id = q[from(k)].id
  <2>1. CASE k < i
    <3>1. k \in 1..i-1 /\ from(k) = k /\ k \in 1..Len(q)
      BY <1>1, <2>1
    <3>. QED BY <1>1, <2>1, <3>1
  <2>2. CASE k >= i
    <3>1. k \in i..Len(q)-1 /\ from(k) = k + 1 /\ k + 1 \in 1..Len(q)
      BY <1>1, <2>2
    <3>. QED BY <1>1, <2>2, <3>1
  <2>. QED BY <1>1, <2>1, <2>2
<1>3. ASSUME NEW k \in 1..Len(d), NEW l \in 1..Len(d), from(k) = from(l)
      PROVE  k = l
  BY <1>1, <1>3
<1>. HIDE DEF from
<1>4. ASSUME NEW k \in 1..Len(d), NEW l \in 1..Len(d), d[k].id = d[l].id
      PROVE  k = l
  <2>1. q[from(k)].id = q[from(l)].id
    BY <1>2, <1>4
  <2>2. from(k) = from(l)
    BY <1>2, <2>1
  <2>. QED BY <1>3, <2>2
<1>5. ASSUME NEW k \in 1..Len(d) PROVE d[k].id # q[i].id
  BY <1>2
<1>. QED BY <1>1, <1>4, <1>5 DEF d

(* Bringing a list up to date leaves its tasks as they are.                *)
LEMMA ElapseKeepsOnce ==
  ASSUME NEW q \in Seq(Entry), NEW e \in Int,
         \A k, l \in 1..Len(q) : q[k].id = q[l].id => k = l
  PROVE  \A k, l \in 1..Len(q) : Elapse(q, e)[k].id = Elapse(q, e)[l].id => k = l
BY ElapseKeeps

---------------------------------------------------------------------------
(* The steps that change the list, one lemma each.                         *)
LEMMA CreateDelayTaskKeeps ==
  ASSUME TaskInv, NEW t \in Task, NEW a \in Arg, NEW d \in Delays,
         CreateDelayTask(t, a, d)
  PROVE  TaskInv'
<1>. DEFINE e == [id |-> t, arg |-> a, delta |-> d]
<1>1. e \in Entry /\ e.id = t
  BY DelaysAssumption DEF Entry
<1>. HIDE DEF e
<1>2. /\ Synced \in Seq(Entry) /\ Len(Synced) = Len(queue)
      /\ Len(queue) \in Nat
      /\ \A i \in 1..Len(queue) : /\ Synced[i].id = queue[i].id
                                  /\ queue[i].delta = 0 => Synced[i].delta = 0
  BY SyncedKeeps, LenProperties DEF TaskInv, TypeOK
<1>3. queue' = Insert(Synced, e) /\ skew' = 0 /\ running' = running
      /\ spilled' = spilled
  BY DEF CreateDelayTask, e
<1>4. queue' \in Seq(Entry) /\ Len(queue') = Len(queue) + 1
  BY <1>1, <1>2, <1>3, InsertKeeps
<1>5. TypeOK'
  BY <1>3, <1>4 DEF TaskInv, TypeOK
<1>6. QueuedOnce'
  <2>1. /\ \A i, j \in 1..Len(Synced) : Synced[i].id = Synced[j].id => i = j
        /\ \A i \in 1..Len(Synced) : Synced[i].id # e.id
    BY <1>1, <1>2 DEF TaskInv, QueuedOnce, CreateDelayTask, Queued
  <2>2. \A i, j \in 1..Len(Synced)+1 :
          Insert(Synced, e)[i].id = Insert(Synced, e)[j].id => i = j
    BY <1>1, <1>2, <2>1, InsertKeepsOnce
  <2>. QED BY <1>2, <1>3, <1>4, <2>2 DEF QueuedOnce
<1>7. RunningAtHead'
  <2>1. CASE running = NoTask
    <3>1. \A i \in 1..Len(queue') : queue'[i].id \in Task
      BY <1>4, IdsAreTasks
    <3>. QED BY <1>3, <2>1, <3>1, NoTaskAssumption DEF RunningAtHead, Queued
  <2>2. CASE running # NoTask
    <3>1. /\ Len(queue) > 0 /\ queue[1].id = running /\ queue[1].delta = 0
      BY <1>2, <2>2 DEF CreateDelayTask, TaskInv, RunningAtHead, Queued, TIME_UP
    <3>2. /\ Len(Synced) > 0 /\ Synced[1].id = running /\ Synced[1].delta = 0
      BY <1>2, <3>1
    <3>3. PICK p \in 1..Len(Synced)+1 :
            /\ \A i \in 1..p-1 : Insert(Synced, e)[i] = Synced[i]
            /\ Len(Synced) > 0 /\ Synced[1].delta = 0 => p > 1
      BY <1>1, <1>2, InsertKeeps
    <3>4. 1 \in 1..p-1
      BY <1>2, <3>2, <3>3
    <3>5. queue'[1] = Synced[1]
      BY <1>3, <3>3, <3>4
    <3>. QED BY <1>3, <3>2, <3>5 DEF RunningAtHead, TIME_UP
  <2>. QED BY <2>1, <2>2
<1>. QED BY <1>5, <1>6, <1>7 DEF TaskInv

(* destroy_sess_task, the running task among those destroyed or not.       *)
LEMMA DestroySessTaskKeeps ==
  ASSUME TaskInv, NEW a \in Arg, DestroySessTask(a)
  PROVE  TaskInv'
<1>1. /\ queue \in Seq(Entry) /\ Len(queue) \in Nat
      /\ \A k, l \in 1..Len(queue) : queue[k].id = queue[l].id => k = l
  BY LenProperties DEF TaskInv, TypeOK, QueuedOnce
<1>2. /\ queue' \in Seq(Entry)
      /\ WalkedTo(queue, a, queue', Len(queue))
      /\ skew' = skew /\ running' = running
  BY <1>1, DeleteArgKeeps DEF DestroySessTask
<1>3. TypeOK'
  BY <1>2 DEF DestroySessTask, TaskInv, TypeOK
<1>4. QueuedOnce'
  BY <1>2 DEF WalkedTo, QueuedOnce
<1>5. RunningAtHead'
  <2>. SUFFICES ASSUME running \in Queued'
                PROVE  queue'[1].id = running /\ queue'[1].delta = TIME_UP
    BY <1>2 DEF RunningAtHead
  <2>1. PICK k \in 1..Len(queue') : queue'[k].id = running
    BY DEF Queued
  <2>2. PICK j \in 1..Len(queue) : /\ queue'[k].id = queue[j].id
                                   /\ queue'[k].arg = queue[j].arg
    BY <1>2 DEF WalkedTo
  <2>3. /\ queue[j].id = running
        /\ queue[1].id = running /\ queue[1].delta = TIME_UP
    BY <2>1, <2>2 DEF TaskInv, RunningAtHead, Queued
  <2>4. j = 1 /\ 1 \in 1..Len(queue)
    BY <1>1, <2>3
  <2>5. Len(queue') - (Len(queue) - Len(queue)) = Len(queue') /\ Len(queue) > 0
    BY <1>1, <1>2, <2>4, LenProperties
  <2>6. queue[1].arg # a
    BY <1>2, <2>2, <2>4, <2>5 DEF WalkedTo
  <2>7. queue'[1].id = queue[1].id /\ queue'[1].delta = queue[1].delta
    BY <1>2, <2>5, <2>6 DEF WalkedTo
  <2>. QED BY <2>3, <2>7
<1>. QED BY <1>3, <1>4, <1>5 DEF TaskInv

(* update_delay_time: deleted, brought up to date and added again.         *)
LEMMA FinishDelayedKeeps ==
  ASSUME TaskInv, NEW d \in Delays, FinishDelayed(d)
  PROVE  TaskInv'
<1>1. PICK i \in 1..Len(queue) :
        /\ queue' = Insert(Elapse(Delete(queue, i), Elapsed(skew, IntMax)),
                           [queue[i] EXCEPT !.delta = d])
        /\ spilled' = (spilled \/ DeleteSpills(queue, i))
        /\ skew' = 0 /\ running' = NoTask
  BY DEF FinishDelayed
<1>. DEFINE del == Delete(queue, i)
            syn == Elapse(del, Elapsed(skew, IntMax))
            e   == [queue[i] EXCEPT !.delta = d]
<1>2. /\ queue \in Seq(Entry) /\ Len(queue) \in Nat /\ queue[i] \in Entry
      /\ \A k, l \in 1..Len(queue) : queue[k].id = queue[l].id => k = l
      /\ Elapsed(skew, IntMax) \in Int
  BY LenProperties, ElementOfSeq, ElapsedType DEF TaskInv, TypeOK, QueuedOnce
<1>3. e \in Entry /\ e.id = queue[i].id
  BY <1>2, DelaysAssumption DEF Entry
<1>4. /\ del \in Seq(Entry)
      /\ \A k, l \in 1..Len(del) : del[k].id = del[l].id => k = l
      /\ \A k \in 1..Len(del) : del[k].id # queue[i].id
  BY <1>2, DeleteKeepsOnce
<1>5. queue' = Insert(syn, e)
  BY <1>1
<1>. HIDE DEF del, e
<1>6. /\ syn \in Seq(Entry) /\ Len(syn) = Len(del)
      /\ \A k \in 1..Len(del) : syn[k].id = del[k].id
  BY <1>2, <1>4, ElapseKeeps
<1>. HIDE DEF syn
<1>7. /\ \A k, l \in 1..Len(syn) : syn[k].id = syn[l].id => k = l
      /\ \A k \in 1..Len(syn) : syn[k].id # e.id
  BY <1>3, <1>4, <1>6
<1>8. queue' \in Seq(Entry) /\ Len(queue') = Len(syn) + 1
  BY <1>3, <1>5, <1>6, InsertKeeps
<1>9. TypeOK'
  BY <1>1, <1>8 DEF TaskInv, TypeOK
<1>10. QueuedOnce'
  <2>1. \A k, l \in 1..Len(syn)+1 :
          Insert(syn, e)[k].id = Insert(syn, e)[l].id => k = l
    BY <1>3, <1>6, <1>7, InsertKeepsOnce
  <2>. QED BY <1>5, <1>8, <2>1 DEF QueuedOnce
<1>11. RunningAtHead'
  <2>1. \A k \in 1..Len(queue') : queue'[k].id \in Task
    BY <1>8, IdsAreTasks
  <2>. QED BY <1>1, <2>1, NoTaskAssumption DEF RunningAtHead, Queued
<1>. QED BY <1>9, <1>10, <1>11 DEF TaskInv

(* destroy_delay_task, of a task that is still there or is not.            *)
LEMMA FinishDoneKeeps ==
  ASSUME TaskInv, FinishDone
  PROVE  TaskInv'
<1>1. /\ queue \in Seq(Entry)
      /\ \A k, l \in 1..Len(queue) : queue[k].id = queue[l].id => k = l
  BY DEF TaskInv, TypeOK, QueuedOnce
<1>2. queue' \in Seq(Entry) /\ QueuedOnce'
  <2>1. CASE queue' = queue
    BY <1>1, <2>1 DEF QueuedOnce
  <2>2. ASSUME NEW i \in 1..Len(queue), queue' = Delete(queue, i)
        PROVE  queue' \in Seq(Entry) /\ QueuedOnce'
    BY <1>1, <2>2, DeleteKeepsOnce DEF QueuedOnce
  <2>. QED BY <2>1, <2>2 DEF FinishDone
<1>3. TypeOK'
  BY <1>2 DEF FinishDone, TaskInv, TypeOK
<1>4. RunningAtHead'
  <2>1. \A k \in 1..Len(queue') : queue'[k].id \in Task
    BY <1>2, IdsAreTasks
  <2>. QED BY <2>1, NoTaskAssumption DEF FinishDone, RunningAtHead, Queued
<1>. QED BY <1>2, <1>3, <1>4 DEF TaskInv

(* GetMinDelayTime and StartTask at most bring the list up to date.        *)
LEMMA SyncKeeps ==
  ASSUME TaskInv, GetMinDelayTime \/ StartTask
  PROVE  TaskInv'
<1>1. /\ queue \in Seq(Entry) /\ Len(queue) \in Nat /\ Len(queue) > 0
      /\ running = NoTask
      /\ queue' = Synced \/ queue' = queue
  BY LenProperties, EmptySeq DEF TaskInv, TypeOK, GetMinDelayTime, StartTask
<1>2. /\ queue' \in Seq(Entry) /\ Len(queue') = Len(queue)
      /\ \A i \in 1..Len(queue) : queue'[i].id = queue[i].id
  BY <1>1, SyncedKeeps
<1>3. QueuedOnce'
  BY <1>2 DEF TaskInv, QueuedOnce
<1>4. \A i \in 1..Len(queue') : queue'[i].id \in Task
  BY <1>2, IdsAreTasks
<1>5. \/ running' = NoTask
      \/ running' = queue'[1].id /\ queue'[1].delta = TIME_UP
  BY <1>1, <1>2 DEF GetMinDelayTime, StartTask
<1>6. RunningAtHead'
  BY <1>4, <1>5, NoTaskAssumption DEF RunningAtHead, Queued
<1>7. TypeOK'
  <2>1. running' \in Task \cup {NoTask}
    BY <1>1, <1>2, <1>4, <1>5
  <2>2. skew' \in Int /\ spilled' \in BOOLEAN
    BY DEF TaskInv, TypeOK, GetMinDelayTime, StartTask
  <2>. QED BY <1>2, <2>1, <2>2 DEF TypeOK
<1>. QED BY <1>3, <1>6, <1>7 DEF TaskInv

(* Every step keeps the invariant.                                         *)
LEMMA TaskInvStep == TaskInv /\ [Next]_vars => TaskInv'
<1>. SUFFICES ASSUME TaskInv, [Next]_vars PROVE TaskInv'
  OBVIOUS
<1>1. CASE Tick \/ SetBack \/ UNCHANGED vars
  BY <1>1, ClockAssumption
  DEF Tick, SetBack, vars, TaskInv, TypeOK, QueuedOnce, RunningAtHead, Queued
<1>2. CASE GetMinDelayTime \/ StartTask
  BY <1>2, SyncKeeps
<1>3. ASSUME NEW t \in Task, NEW a \in Arg, NEW d \in Delays,
             CreateDelayTask(t, a, d)
      PROVE  TaskInv'
  BY <1>3, CreateDelayTaskKeeps
<1>4. ASSUME NEW a \in Arg, DestroySessTask(a) PROVE TaskInv'
  BY <1>4, DestroySessTaskKeeps
<1>5. ASSUME NEW d \in Delays, FinishDelayed(d) PROVE TaskInv'
  BY <1>5, FinishDelayedKeeps
<1>6. CASE FinishDone
  BY <1>6, FinishDoneKeeps
<1>. QED BY <1>1, <1>2, <1>3, <1>4, <1>5, <1>6 DEF Next

(* So it always holds.                                                     *)
LEMMA TaskInvariant == Spec => []TaskInv
BY InitTaskInv, TaskInvStep, PTL DEF Spec

(* No operation makes a delta negative or queues something else.           *)
THEOREM DelayTaskTypes == Spec => []TypeOK
BY TaskInvariant, PTL DEF TaskInv

(* update_delay_time takes the task off the list before it adds it again,  *)
(* and create_delay_task's memory is new.                                  *)
THEOREM TaskIsQueuedOnce == Spec => []QueuedOnce
BY TaskInvariant, PTL DEF TaskInv

(* do_delay_task finds the task it ran where it was, if it is there still. *)
THEOREM TaskRunsAtHead == Spec => []RunningAtHead
BY TaskInvariant, PTL DEF TaskInv

(* del_delay_task adds a delta to what is not a task only when it is       *)
(* destroy_sess_task that calls it.                                        *)
THEOREM OnlyDestroySessTaskSpills ==
  Spec => [][spilled' = spilled \/ \E a \in Arg : DestroySessTask(a)]_vars
<1>1. TaskInv /\ [Next]_vars =>
        [spilled' = spilled \/ \E a \in Arg : DestroySessTask(a)]_vars
  <2>. SUFFICES ASSUME TaskInv, Next
                PROVE  spilled' = spilled \/ \E a \in Arg : DestroySessTask(a)
    OBVIOUS
  <2>1. ASSUME NEW i \in 1..Len(queue), queue[i].id = running
        PROVE  ~DeleteSpills(queue, i)
    <3>1. running \in Queued /\ Len(queue) \in Nat
      BY <2>1, LenProperties DEF Queued, TaskInv, TypeOK
    <3>2. queue[1].id = running /\ queue[1].delta = TIME_UP
      BY <3>1 DEF TaskInv, RunningAtHead
    <3>3. i = 1
      BY <2>1, <3>1, <3>2 DEF TaskInv, QueuedOnce
    <3>. QED BY <3>2, <3>3 DEF DeleteSpills, TIME_UP
  <2>2. spilled \in BOOLEAN
    BY DEF TaskInv, TypeOK
  <2>3. ASSUME NEW d \in Delays, FinishDelayed(d) PROVE spilled' = spilled
    BY <2>1, <2>2, <2>3 DEF FinishDelayed
  <2>4. CASE FinishDone
    BY <2>1, <2>2, <2>4 DEF FinishDone
  <2>. QED
    BY <2>3, <2>4
    DEF Next, Tick, SetBack, GetMinDelayTime, CreateDelayTask, StartTask
<1>. QED BY <1>1, TaskInvariant, PTL DEF Spec

---------------------------------------------------------------------------
(* What a list stands for.                                                 *)
Ids(q) == {q[i].id : i \in 1..Len(q)}

Once(q) == \A i, j \in 1..Len(q) : q[i].id = q[j].id => i = j

TimerOf(q) ==
  [t \in Ids(q) |-> LET i == CHOOSE i \in 1..Len(q) : q[i].id = t
                    IN  [arg |-> q[i].arg, left |-> DueTimes(q)[i]]]

OrderOf(q) ==
  {<<q[p[1]].id, q[p[2]].id>> :
     p \in {r \in (1..Len(q)) \X (1..Len(q)) : r[1] < r[2]}}

(* Timers after e has passed, and after another one has joined them.       *)
AgedBy(T, e) ==
  [t \in DOMAIN T |-> [T[t] EXCEPT !.left = Floor(T[t].left - e)]]

WithTimer(T, task) ==
  [s \in DOMAIN T \cup {task.id} |->
     IF s = task.id THEN [arg |-> task.arg, left |-> task.delta] ELSE T[s]]

WithPlace(O, T, task) ==
  O \cup {<<s, task.id>> : s \in {r \in DOMAIN T : T[r].left <= task.delta}}
    \cup {<<task.id, s>> : s \in {r \in DOMAIN T : T[r].left > task.delta}}

---------------------------------------------------------------------------
(* The entries' fields and due times.                                      *)
LEMMA EntryFacts ==
  ASSUME NEW q \in Seq(Entry)
  PROVE  /\ Len(q) \in Nat
         /\ \A i \in 1..Len(q) : /\ q[i] \in Entry /\ q[i].id \in Task
                                 /\ q[i].arg \in Arg /\ q[i].delta \in Nat
                                 /\ DueTimes(q)[i] \in Nat
<1>1. Len(q) \in Nat /\ \A i \in 1..Len(q) : q[i] \in Entry
  BY ElementOfSeq, LenProperties
<1>2. DueTimes(q) \in [0..Len(q) -> Nat]
  BY EntriesAreEntries, DueTimesEquation
<1>3. \A i \in 1..Len(q) : DueTimes(q)[i] \in Nat
  BY <1>1, <1>2
<1>. QED BY <1>1, <1>3 DEF Entry

(* A timer is that of its entry.                                           *)
LEMMA TimerFacts ==
  ASSUME NEW q \in Seq(Entry), Once(q)
  PROVE  /\ DOMAIN TimerOf(q) = Ids(q)
         /\ \A i \in 1..Len(q) :
              TimerOf(q)[q[i].id] = [arg |-> q[i].arg, left |-> DueTimes(q)[i]]
<1>1. DOMAIN TimerOf(q) = Ids(q)
  BY DEF TimerOf
<1>2. ASSUME NEW i \in 1..Len(q)
      PROVE  TimerOf(q)[q[i].id] = [arg |-> q[i].arg, left |-> DueTimes(q)[i]]
  <2>1. q[i].id \in Ids(q)
    BY DEF Ids
  <2>. DEFINE j == CHOOSE j \in 1..Len(q) : q[j].id = q[i].id
  <2>2. j \in 1..Len(q) /\ q[j].id = q[i].id
    BY SMTT(60)
  <2>3. TimerOf(q)[q[i].id] = [arg |-> q[j].arg, left |-> DueTimes(q)[j]]
    BY <2>1 DEF TimerOf
  <2>. HIDE DEF j
  <2>4. j = i
    BY <2>2 DEF Once
  <2>. QED BY <2>3, <2>4
<1>. QED BY <1>1, <1>2

(* And a function that agrees with the entries is their timers.            *)
LEMMA TimerUnique ==
  ASSUME NEW q \in Seq(Entry), Once(q), NEW F, F = [t \in Ids(q) |-> F[t]],
         \A i \in 1..Len(q) :
           F[q[i].id] = [arg |-> q[i].arg, left |-> DueTimes(q)[i]]
  PROVE  TimerOf(q) = F
<1>1. ASSUME NEW t \in Ids(q) PROVE TimerOf(q)[t] = F[t]
  <2>1. PICK i \in 1..Len(q) : t = q[i].id
    BY DEF Ids
  <2>. QED BY <2>1, TimerFacts
<1>2. TimerOf(q) = [t \in Ids(q) |-> TimerOf(q)[t]]
  BY DEF TimerOf
<1>. QED BY <1>1, <1>2

(* The order is that of the entries.                                       *)
LEMMA OrderFacts ==
  ASSUME NEW q \in Seq(Entry)
  PROVE  /\ \A i, j \in 1..Len(q) : i < j => <<q[i].id, q[j].id>> \in OrderOf(q)
         /\ \A p \in OrderOf(q) : \E i, j \in 1..Len(q) :
              i < j /\ p = <<q[i].id, q[j].id>>
<1>1. ASSUME NEW i \in 1..Len(q), NEW j \in 1..Len(q), i < j
      PROVE  <<q[i].id, q[j].id>> \in OrderOf(q)
  <2>. DEFINE r == <<i, j>>
  <2>1. r \in (1..Len(q)) \X (1..Len(q)) /\ r[1] = i /\ r[2] = j
    OBVIOUS
  <2>2. r \in {s \in (1..Len(q)) \X (1..Len(q)) : s[1] < s[2]}
    BY <1>1, <2>1
  <2>. QED BY <2>1, <2>2 DEF OrderOf
<1>2. ASSUME NEW p \in OrderOf(q)
      PROVE  \E i, j \in 1..Len(q) : i < j /\ p = <<q[i].id, q[j].id>>
  <2>1. PICK r \in (1..Len(q)) \X (1..Len(q)) :
          r[1] < r[2] /\ p = <<q[r[1]].id, q[r[2]].id>>
    BY DEF OrderOf
  <2>2. r[1] \in 1..Len(q) /\ r[2] \in 1..Len(q)
    BY <2>1
  <2>. QED BY <2>1, <2>2
<1>. QED BY <1>1, <1>2

---------------------------------------------------------------------------
(* Time passes for each timer alone.                                       *)
LEMMA ElapsedTimers ==
  ASSUME NEW q \in Seq(Entry), Once(q), NEW e \in Nat
  PROVE  /\ Elapse(q, e) \in Seq(Entry) /\ Once(Elapse(q, e))
         /\ Ids(Elapse(q, e)) = Ids(q)
         /\ TimerOf(Elapse(q, e)) = AgedBy(TimerOf(q), e)
         /\ OrderOf(Elapse(q, e)) = OrderOf(q)
<1>. DEFINE r == Elapse(q, e)
<1>1. /\ r \in Seq(Entry) /\ Len(r) = Len(q)
      /\ \A i \in 1..Len(q) : r[i].id = q[i].id /\ r[i].arg = q[i].arg
  <2>1. e \in Int
    OBVIOUS
  <2>. QED BY <2>1, ElapseKeeps
<1>2. Len(q) \in Nat /\ \A i \in 1..Len(q) : DueTimes(r)[i] = Floor(DueTimes(q)[i] - e)
  <2>1. Len(q) \in Nat /\ \A i \in 0..Len(q) : DueTimes(r)[i] = Floor(DueTimes(q)[i] - e)
    BY EntriesAreEntries, ElapseDueTimes, LenProperties
  <2>2. \A i \in 1..Len(q) : i \in 0..Len(q)
    BY <2>1
  <2>. QED BY <2>1, <2>2
<1>. HIDE DEF r
<1>3. Once(r) /\ Ids(r) = Ids(q)
  BY <1>1 DEF Once, Ids
<1>4. TimerOf(r) = AgedBy(TimerOf(q), e)
  <2>. DEFINE F == AgedBy(TimerOf(q), e)
  <2>1. /\ DOMAIN TimerOf(q) = Ids(q)
        /\ \A i \in 1..Len(q) :
              TimerOf(q)[q[i].id] = [arg |-> q[i].arg, left |-> DueTimes(q)[i]]
    BY TimerFacts
  <2>2. F = [t \in Ids(r) |-> F[t]]
    BY <1>3, <2>1 DEF AgedBy
  <2>3. ASSUME NEW i \in 1..Len(r)
        PROVE  F[r[i].id] = [arg |-> r[i].arg, left |-> DueTimes(r)[i]]
    <3>1. i \in 1..Len(q) /\ r[i].id = q[i].id /\ r[i].arg = q[i].arg
          /\ DueTimes(r)[i] = Floor(DueTimes(q)[i] - e)
      BY <1>1, <1>2
    <3>2. q[i].id \in DOMAIN TimerOf(q)
      BY <2>1, <3>1 DEF Ids
    <3>3. F[q[i].id] = [TimerOf(q)[q[i].id] EXCEPT
                          !.left = Floor(TimerOf(q)[q[i].id].left - e)]
      BY <3>2 DEF AgedBy
    <3>4. TimerOf(q)[q[i].id] = [arg |-> q[i].arg, left |-> DueTimes(q)[i]]
      BY <2>1, <3>1
    <3>. HIDE DEF F
    <3>. QED BY <3>1, <3>3, <3>4
  <2>. HIDE DEF F
  <2>4. TimerOf(r) = F
    BY <1>1, <1>3, <2>2, <2>3, TimerUnique
  <2>. QED BY <2>4 DEF F
<1>5. OrderOf(r) = OrderOf(q)
  <2>1. ASSUME NEW p \in OrderOf(q) PROVE p \in OrderOf(r)
    <3>1. PICK i \in 1..Len(q), j \in 1..Len(q) :
            i < j /\ p = <<q[i].id, q[j].id>>
      BY OrderFacts
    <3>2. /\ i \in 1..Len(r) /\ j \in 1..Len(r) /\ p = <<r[i].id, r[j].id>>
      BY <1>1, <3>1
    <3>. QED BY <1>1, <3>1, <3>2, OrderFacts, SMTT(60)
  <2>2. ASSUME NEW p \in OrderOf(r) PROVE p \in OrderOf(q)
    <3>1. PICK i \in 1..Len(r), j \in 1..Len(r) :
            i < j /\ p = <<r[i].id, r[j].id>>
      BY <1>1, OrderFacts
    <3>2. /\ i \in 1..Len(q) /\ j \in 1..Len(q) /\ p = <<q[i].id, q[j].id>>
      BY <1>1, <3>1
    <3>. QED BY <3>1, <3>2, OrderFacts
  <2>. QED BY <2>1, <2>2
<1>. QED BY <1>1, <1>3, <1>4, <1>5 DEF r

(* A new timer joins behind those that are due no later.                   *)
LEMMA InsertedTimers ==
  ASSUME NEW q \in Seq(Entry), Once(q), NEW task \in Entry,
         task.id \notin Ids(q)
  PROVE  /\ Insert(q, task) \in Seq(Entry) /\ Once(Insert(q, task))
         /\ TimerOf(Insert(q, task)) = WithTimer(TimerOf(q), task)
         /\ OrderOf(Insert(q, task)) = WithPlace(OrderOf(q), TimerOf(q), task)
<1>. DEFINE r   == Insert(q, task)
            p   == InsertPos(q, task.delta)
            t   == task.id
            T   == TimerOf(q)
            at(i) == IF i < p THEN i ELSE i + 1
<1>1. /\ Len(q) \in Nat /\ task.delta \in Nat
      /\ \A i \in 1..Len(q) : q[i] \in Entry /\ DueTimes(q)[i] \in Nat
  BY EntryFacts DEF Entry
<1>2. /\ r \in Seq(Entry) /\ Len(r) = Len(q) + 1
      /\ InsertedAt(q, task, p, r)
  BY EntriesAreEntries, InsertType
<1>3. /\ \A i \in 1..p-1 : DueTimes(r)[i] = DueTimes(q)[i]
      /\ DueTimes(r)[p] = task.delta
      /\ \A i \in p+1..Len(q)+1 : DueTimes(r)[i] = DueTimes(q)[i-1]
  BY EntriesAreEntries, InsertDueTimes
<1>4. /\ p \in 1..Len(q)+1
      /\ p <= Len(q) => DueTimes(q)[p] > task.delta
      /\ \A i \in 1..p-1 : DueTimes(q)[i] <= task.delta
  BY <1>1, EntriesAreEntries, InsertPosIsFirstLater
<1>5. ASSUME NEW i \in p..Len(q) PROVE DueTimes(q)[i] > task.delta
  <2>1. p \in 0..Len(q) /\ p \in 1..Len(q) /\ i \in 1..Len(q) /\ p <= Len(q)
    BY <1>1, <1>4
  <2>2. DueTimes(q)[p] <= DueTimes(q)[i]
    BY <2>1, EntriesAreEntries, DueTimesGrow
  <2>3. DueTimes(q)[p] \in Nat /\ DueTimes(q)[i] \in Nat
    BY <1>1, <2>1
  <2>. QED BY <1>1, <1>4, <2>1, <2>2, <2>3
<1>. HIDE DEF r, p
<1>6. /\ p \in 1..Len(r)
      /\ r[p].id = t /\ r[p].arg = task.arg
  <2>1. Redated(task, r[p])
    BY <1>2 DEF InsertedAt
  <2>. QED BY <1>2, <1>4, <2>1 DEF Redated, Entry
<1>7. ASSUME NEW i \in 1..Len(q)
      PROVE  /\ at(i) \in 1..Len(r) /\ at(i) # p
             /\ r[at(i)].id = q[i].id /\ r[at(i)].arg = q[i].arg
             /\ DueTimes(r)[at(i)] = DueTimes(q)[i]
             /\ at(i) < p => DueTimes(q)[i] <= task.delta
             /\ at(i) > p => DueTimes(q)[i] > task.delta
             /\ at(i) < p \/ at(i) > p
  <2>1. CASE i < p
    <3>1. i \in 1..p-1 /\ at(i) = i /\ i \in 1..Len(r) /\ i # p
      BY <1>1, <1>2, <1>4, <2>1
    <3>2. r[i] = q[i] /\ DueTimes(r)[i] = DueTimes(q)[i]
          /\ DueTimes(q)[i] <= task.delta
      BY <1>2, <1>3, <1>4, <3>1 DEF InsertedAt
    <3>3. ~(i > p)
      BY <1>1, <1>4, <2>1
    <3>. HIDE DEF at
    <3>. QED BY <2>1, <3>1, <3>2, <3>3
  <2>2. CASE ~(i < p)
    <3>1. /\ i + 1 \in p+1..Len(q)+1 /\ (i + 1) - 1 = i /\ i \in p..Len(q)
          /\ at(i) = i + 1 /\ i + 1 \in 1..Len(r) /\ i + 1 # p
          /\ ~(i + 1 < p) /\ i + 1 > p
      BY <1>1, <1>2, <1>4, <2>2
    <3>2. DueTimes(r)[i+1] = DueTimes(q)[i] /\ DueTimes(q)[i] > task.delta
      BY <1>3, <1>5, <3>1
    <3>3. Redated(q[i], r[i+1]) /\ q[i] \in Entry
      BY <1>1, <1>2, <3>1 DEF InsertedAt
    <3>4. r[i+1].id = q[i].id /\ r[i+1].arg = q[i].arg
      BY <3>3 DEF Redated, Entry
    <3>. HIDE DEF at
    <3>. QED BY <3>1, <3>2, <3>4
  <2>. QED BY <2>1, <2>2
<1>8. ASSUME NEW k \in 1..Len(r), k # p
      PROVE  \E i \in 1..Len(q) : at(i) = k
  <2>1. k < p => k \in 1..Len(q) /\ at(k) = k
    BY <1>1, <1>2, <1>4
  <2>2. k > p => k - 1 \in 1..Len(q) /\ at(k - 1) = k
    BY <1>1, <1>2, <1>4
  <2>3. k < p \/ k > p
    BY <1>1, <1>2, <1>4, <1>8
  <2>. HIDE DEF at
  <2>. QED BY <2>1, <2>2, <2>3, Zenon
<1>9. \A i, j \in 1..Len(q) : i < j <=> at(i) < at(j)
  BY <1>1, <1>4
<1>. HIDE DEF at
<1>10. Once(r)
  <2>1. \A i, j \in 1..Len(q) : q[i].id = q[j].id => i = j
    BY DEF Once
  <2>2. \A i \in 1..Len(q) : q[i].id # t
    BY DEF Ids
  <2>3. \A i, j \in 1..Len(q)+1 : r[i].id = r[j].id => i = j
    BY <2>1, <2>2, InsertKeepsOnce DEF r
  <2>. QED BY <1>2, <2>3 DEF Once
<1>11. Ids(r) = Ids(q) \cup {t}
  <2>1. ASSUME NEW k \in 1..Len(r) PROVE r[k].id \in Ids(q) \cup {t}
    <3>1. CASE k = p
      BY <1>6, <3>1
    <3>2. CASE k # p
      <4>1. PICK i \in 1..Len(q) : at(i) = k
        BY <1>8, <3>2
      <4>. QED BY <1>7, <4>1 DEF Ids
    <3>. QED BY <3>1, <3>2
  <2>2. ASSUME NEW i \in 1..Len(q) PROVE q[i].id \in Ids(r)
    BY <1>7 DEF Ids
  <2>3. t \in Ids(r)
    BY <1>6 DEF Ids
  <2>. QED BY <2>1, <2>2, <2>3 DEF Ids
<1>12. /\ DOMAIN T = Ids(q)
       /\ \A i \in 1..Len(q) :
            T[q[i].id] = [arg |-> q[i].arg, left |-> DueTimes(q)[i]]
  BY TimerFacts
<1>. HIDE DEF T
<1>13. \A i \in 1..Len(q) : /\ q[i].id \in DOMAIN T /\ q[i].id # t
                            /\ T[q[i].id].left = DueTimes(q)[i]
  <2>1. \A i \in 1..Len(q) : q[i].id \in Ids(q) /\ q[i].id # t
    BY DEF Ids
  <2>2. ASSUME NEW i \in 1..Len(q) PROVE T[q[i].id].left = DueTimes(q)[i]
    <3>1. T[q[i].id] = [arg |-> q[i].arg, left |-> DueTimes(q)[i]]
      BY <1>12
    <3>. QED BY <3>1
  <2>. QED BY <1>12, <2>1, <2>2
<1>14. TimerOf(r) = WithTimer(T, task)
  <2>. DEFINE F == WithTimer(T, task)
  <2>1. F = [s \in Ids(r) |-> F[s]]
    BY <1>11, <1>12 DEF WithTimer
  <2>2. ASSUME NEW k \in 1..Len(r)
        PROVE  F[r[k].id] = [arg |-> r[k].arg, left |-> DueTimes(r)[k]]
    <3>1. CASE k = p
      BY <1>3, <1>6, <3>1 DEF WithTimer
    <3>2. CASE k # p
      <4>1. PICK i \in 1..Len(q) : at(i) = k
        BY <1>8, <3>2
      <4>2. F[q[i].id] = T[q[i].id]
        BY <1>13 DEF WithTimer
      <4>. HIDE DEF F
      <4>. QED BY <1>7, <1>12, <4>1, <4>2
    <3>. QED BY <3>1, <3>2
  <2>. HIDE DEF F
  <2>3. TimerOf(r) = F
    BY <1>2, <1>10, <2>1, <2>2, TimerUnique
  <2>. QED BY <2>3 DEF F
<1>15. OrderOf(r) = WithPlace(OrderOf(q), T, task)
  <2>. DEFINE O == WithPlace(OrderOf(q), T, task)
  <2>1. /\ \A o \in OrderOf(q) : o \in O
        /\ \A s \in DOMAIN T : T[s].left <= task.delta => <<s, t>> \in O
        /\ \A s \in DOMAIN T : T[s].left > task.delta => <<t, s>> \in O
        /\ \A o \in O : \/ o \in OrderOf(q)
                        \/ \E s \in DOMAIN T :
                             T[s].left <= task.delta /\ o = <<s, t>>
                        \/ \E s \in DOMAIN T :
                             T[s].left > task.delta /\ o = <<t, s>>
    BY DEF WithPlace
  <2>. HIDE DEF O
  <2>2. ASSUME NEW o \in OrderOf(r) PROVE o \in O
    <3>1. PICK k \in 1..Len(r), l \in 1..Len(r) :
            k < l /\ o = <<r[k].id, r[l].id>>
      BY <1>2, OrderFacts
    <3>2. CASE k = p
      <4>1. l # p /\ ~(l < p)
        BY <1>2, <1>4, <3>1, <3>2
      <4>2. PICK i \in 1..Len(q) : at(i) = l
        BY <1>8, <4>1
      <4>3. DueTimes(q)[i] > task.delta /\ r[l].id = q[i].id
        BY <1>7, <4>1, <4>2
      <4>4. q[i].id \in DOMAIN T /\ T[q[i].id].left > task.delta
        BY <1>13, <4>3
      <4>. QED BY <1>6, <2>1, <3>1, <3>2, <4>3, <4>4
    <3>3. CASE l = p
      <4>1. k # p /\ ~(k > p)
        BY <1>2, <1>4, <3>1, <3>3
      <4>2. PICK i \in 1..Len(q) : at(i) = k
        BY <1>8, <4>1
      <4>3. DueTimes(q)[i] <= task.delta /\ r[k].id = q[i].id
        BY <1>7, <4>1, <4>2
      <4>4. q[i].id \in DOMAIN T /\ T[q[i].id].left <= task.delta
        BY <1>13, <4>3
      <4>. QED BY <1>6, <2>1, <3>1, <3>3, <4>3, <4>4
    <3>4. CASE k # p /\ l # p
      <4>1. PICK i \in 1..Len(q) : at(i) = k
        BY <1>8, <3>4
      <4>2. PICK j \in 1..Len(q) : at(j) = l
        BY <1>8, <3>4
      <4>3. i < j /\ o = <<q[i].id, q[j].id>>
        BY <1>7, <1>9, <3>1, <4>1, <4>2
      <4>. QED BY <2>1, <4>3, OrderFacts
    <3>. QED BY <3>2, <3>3, <3>4
  <2>3. ASSUME NEW o \in O PROVE o \in OrderOf(r)
    <3>1. CASE o \in OrderOf(q)
      <4>1. PICK i \in 1..Len(q), j \in 1..Len(q) :
              i < j /\ o = <<q[i].id, q[j].id>>
        BY <3>1, OrderFacts
      <4>2. /\ at(i) \in 1..Len(r) /\ at(j) \in 1..Len(r) /\ at(i) < at(j)
            /\ o = <<r[at(i)].id, r[at(j)].id>>
        BY <1>7, <1>9, <4>1
      <4>. QED BY <1>2, <4>2, OrderFacts
    <3>2. ASSUME NEW s \in DOMAIN T, T[s].left <= task.delta, o = <<s, t>>
          PROVE  o \in OrderOf(r)
      <4>1. PICK i \in 1..Len(q) : s = q[i].id
        BY <1>12 DEF Ids
      <4>2. DueTimes(q)[i] <= task.delta /\ DueTimes(q)[i] \in Nat
        BY <1>1, <1>13, <3>2, <4>1
      <4>3. /\ at(i) \in 1..Len(r) /\ r[at(i)].id = s
            /\ at(i) > p => DueTimes(q)[i] > task.delta
            /\ at(i) < p \/ at(i) > p
        BY <1>7, <4>1
      <4>4. at(i) < p
        BY <1>1, <4>2, <4>3
      <4>. QED BY <1>2, <1>6, <3>2, <4>3, <4>4, OrderFacts
    <3>3. ASSUME NEW s \in DOMAIN T, T[s].left > task.delta, o = <<t, s>>
          PROVE  o \in OrderOf(r)
      <4>1. PICK i \in 1..Len(q) : s = q[i].id
        BY <1>12 DEF Ids
      <4>2. DueTimes(q)[i] > task.delta /\ DueTimes(q)[i] \in Nat
        BY <1>1, <1>13, <3>3, <4>1
      <4>3. /\ at(i) \in 1..Len(r) /\ r[at(i)].id = s
            /\ at(i) < p => DueTimes(q)[i] <= task.delta
            /\ at(i) < p \/ at(i) > p
        BY <1>7, <4>1
      <4>4. p < at(i)
        BY <1>1, <1>2, <1>4, <4>2, <4>3
      <4>. QED BY <1>2, <1>6, <3>3, <4>3, <4>4, OrderFacts
    <3>. QED BY <2>1, <3>1, <3>2, <3>3
  <2>. QED BY <2>2, <2>3 DEF O
<1>. QED BY <1>2, <1>10, <1>14, <1>15 DEF r, T

---------------------------------------------------------------------------
(* Thinning out a list leaves the timers of the entries that stay.         *)
LEMMA ThinnedTimers ==
  ASSUME NEW q \in Seq(Entry), Once(q), NEW K \in SUBSET (1..Len(q)),
         NEW r \in Seq(Entry), Thinned(q, r, K)
  PROVE  LET S == {q[i].id : i \in K}
         IN  /\ Once(r) /\ Ids(r) = S /\ S \subseteq Ids(q)
             /\ TimerOf(r) = [s \in S |-> TimerOf(q)[s]]
             /\ OrderOf(r) = {p \in OrderOf(q) : p[1] \in S /\ p[2] \in S}
<1>. DEFINE S == {q[i].id : i \in K}
            F == [s \in S |-> TimerOf(q)[s]]
            O == {p \in OrderOf(q) : p[1] \in S /\ p[2] \in S}
<1>1. PICK from \in [1..Len(r) -> 1..Len(q)] :
        /\ {from[k] : k \in 1..Len(r)} = K
        /\ \A k, l \in 1..Len(r) : k < l => from[k] < from[l]
        /\ \A k \in 1..Len(r) : /\ Redated(q[from[k]], r[k])
                                /\ DueTimes(r)[k] = DueTimes(q)[from[k]]
  BY DEF Thinned
<1>2. /\ Len(q) \in Nat /\ Len(r) \in Nat
      /\ \A i \in 1..Len(q) : q[i] \in Entry
  BY EntryFacts
<1>3. \A k \in 1..Len(r) : /\ from[k] \in K /\ from[k] \in 1..Len(q)
                           /\ r[k].id = q[from[k]].id
                           /\ r[k].arg = q[from[k]].arg
                           /\ DueTimes(r)[k] = DueTimes(q)[from[k]]
  <2>. SUFFICES ASSUME NEW k \in 1..Len(r)
                PROVE  /\ from[k] \in K /\ from[k] \in 1..Len(q)
                       /\ r[k].id = q[from[k]].id
                       /\ r[k].arg = q[from[k]].arg
                       /\ DueTimes(r)[k] = DueTimes(q)[from[k]]
    OBVIOUS
  <2>1. from[k] \in K /\ from[k] \in 1..Len(q)
    BY <1>1
  <2>2. Redated(q[from[k]], r[k]) /\ q[from[k]] \in Entry
        /\ DueTimes(r)[k] = DueTimes(q)[from[k]]
    BY <1>1, <1>2, <2>1
  <2>. QED BY <2>1, <2>2 DEF Redated, Entry
<1>4. \A i \in K : \E k \in 1..Len(r) : from[k] = i
  BY <1>1
<1>5. \A k, l \in 1..Len(r) : /\ k < l <=> from[k] < from[l]
                              /\ from[k] = from[l] => k = l
  <2>1. ASSUME NEW k \in 1..Len(r), NEW l \in 1..Len(r)
        PROVE  /\ k < l <=> from[k] < from[l]
               /\ from[k] = from[l] => k = l
    <3>1. /\ k < l => from[k] < from[l]
          /\ l < k => from[l] < from[k]
          /\ from[k] \in Int /\ from[l] \in Int
      BY <1>1, <1>2, <1>3
    <3>2. k < l \/ k = l \/ l < k
      BY <1>2
    <3>. QED BY <3>1, <3>2
  <2>. QED BY <2>1
<1>6. Once(r)
  BY <1>3, <1>5 DEF Once
<1>7. Ids(r) = S /\ S \subseteq Ids(q)
  <2>1. \A k \in 1..Len(r) : r[k].id \in S
    BY <1>3
  <2>2. ASSUME NEW i \in K PROVE q[i].id \in Ids(r)
    <3>1. PICK k \in 1..Len(r) : from[k] = i
      BY <1>4
    <3>2. r[k].id = q[i].id
      BY <1>3, <3>1
    <3>. QED BY <3>2 DEF Ids
  <2>3. \A i \in K : q[i].id \in Ids(q)
    BY DEF Ids
  <2>. QED BY <2>1, <2>2, <2>3 DEF Ids
<1>8. TimerOf(r) = F
  <2>1. F = [s \in Ids(r) |-> F[s]]
    BY <1>7
  <2>2. ASSUME NEW k \in 1..Len(r)
        PROVE  F[r[k].id] = [arg |-> r[k].arg, left |-> DueTimes(r)[k]]
    <3>1. r[k].id \in S
      BY <1>7 DEF Ids
    <3>2. F[r[k].id] = TimerOf(q)[q[from[k]].id]
      BY <1>3, <3>1
    <3>3. TimerOf(q)[q[from[k]].id]
            = [arg |-> q[from[k]].arg, left |-> DueTimes(q)[from[k]]]
      BY <1>3, TimerFacts
    <3>. HIDE DEF F, S
    <3>. QED BY <1>3, <3>2, <3>3
  <2>. HIDE DEF F
  <2>. QED BY <1>6, <2>1, <2>2, TimerUnique
<1>9. OrderOf(r) = O
  <2>1. ASSUME NEW p \in OrderOf(r) PROVE p \in O
    <3>1. PICK k \in 1..Len(r), l \in 1..Len(r) :
            k < l /\ p = <<r[k].id, r[l].id>>
      BY OrderFacts
    <3>2. /\ p = <<q[from[k]].id, q[from[l]].id>> /\ from[k] < from[l]
          /\ from[k] \in 1..Len(q) /\ from[l] \in 1..Len(q)
          /\ from[k] \in K /\ from[l] \in K
      BY <1>3, <1>5, <3>1
    <3>3. p \in OrderOf(q) /\ p[1] \in S /\ p[2] \in S
      BY <3>2, OrderFacts
    <3>. QED BY <3>3
  <2>2. ASSUME NEW p \in O PROVE p \in OrderOf(r)
    <3>1. PICK i \in 1..Len(q), j \in 1..Len(q) :
            i < j /\ p = <<q[i].id, q[j].id>>
      BY OrderFacts
    <3>2. i \in K /\ j \in K
      <4>1. q[i].id \in S /\ q[j].id \in S
        BY <3>1
      <4>2. ASSUME NEW m \in 1..Len(q), q[m].id \in S PROVE m \in K
        <5>1. PICK n \in K : q[m].id = q[n].id
          BY <4>2
        <5>2. n \in 1..Len(q)
          OBVIOUS
        <5>3. m = n
          BY <5>1, <5>2, Zenon DEF Once
        <5>. QED BY <5>3
      <4>. QED BY <4>1, <4>2
    <3>3. PICK k \in 1..Len(r) : from[k] = i
      BY <1>4, <3>2
    <3>4. PICK l \in 1..Len(r) : from[l] = j
      BY <1>4, <3>2
    <3>5. k < l /\ p = <<r[k].id, r[l].id>>
      BY <1>3, <1>5, <3>1, <3>3, <3>4
    <3>. QED BY <3>5, OrderFacts
  <2>. HIDE DEF O
  <2>. QED BY <2>1, <2>2
<1>. QED BY <1>6, <1>7, <1>8, <1>9

(* Deleting one more entry from a list that was thinned out.               *)
LEMMA ThinnedFurther ==
  ASSUME NEW q \in Seq(Entry), Once(q), NEW K \in SUBSET (1..Len(q)),
         NEW r \in Seq(Entry), Thinned(q, r, K),
         NEW c \in 1..Len(r), NEW i \in 1..Len(q), r[c].id = q[i].id
  PROVE  Thinned(q, Delete(r, c), K \ {i})
<1>. DEFINE d == Delete(r, c)
<1>1. PICK f \in [1..Len(r) -> 1..Len(q)] :
        /\ {f[k] : k \in 1..Len(r)} = K
        /\ \A k, l \in 1..Len(r) : k < l => f[k] < f[l]
        /\ \A k \in 1..Len(r) : /\ Redated(q[f[k]], r[k])
                                /\ DueTimes(r)[k] = DueTimes(q)[f[k]]
  BY DEF Thinned
<1>2. PICK g \in [1..Len(d) -> 1..Len(r)] :
        /\ {g[k] : k \in 1..Len(d)} = (1..Len(r)) \ {c}
        /\ \A k, l \in 1..Len(d) : k < l => g[k] < g[l]
        /\ \A k \in 1..Len(d) : /\ Redated(r[g[k]], d[k])
                                /\ DueTimes(d)[k] = DueTimes(r)[g[k]]
  <2>1. Thinned(r, d, (1..Len(r)) \ {c})
    BY EntriesAreEntries, DeleteThins
  <2>. HIDE DEF d
  <2>. QED BY <2>1 DEF Thinned
<1>. HIDE DEF d
<1>3. \A k \in 1..Len(q) : q[k] \in Entry
  BY EntryFacts
<1>4. Len(r) \in Nat /\ Len(q) \in Nat
  BY EntryFacts
<1>5. f[c] = i
  <2>1. f[c] \in 1..Len(q) /\ Redated(q[f[c]], r[c])
    BY <1>1
  <2>2. r[c].id = q[f[c]].id
    BY <1>3, <2>1 DEF Redated, Entry
  <2>. QED BY <2>1, <2>2 DEF Once
<1>. DEFINE h == [k \in 1..Len(d) |-> f[g[k]]]
<1>6. \A k \in 1..Len(d) : g[k] \in 1..Len(r) /\ g[k] # c /\ f[g[k]] \in 1..Len(q)
  BY <1>1, <1>2
<1>7. h \in [1..Len(d) -> 1..Len(q)]
  BY <1>6
<1>8. \A k, l \in 1..Len(d) : k < l => h[k] < h[l]
  BY <1>1, <1>2, <1>6
<1>9. ASSUME NEW k \in 1..Len(d)
      PROVE  Redated(q[h[k]], d[k]) /\ DueTimes(d)[k] = DueTimes(q)[h[k]]
  <2>1. /\ g[k] \in 1..Len(r) /\ h[k] = f[g[k]] /\ h[k] \in 1..Len(q)
        /\ q[h[k]] \in Entry
    BY <1>3, <1>6
  <2>. HIDE DEF h
  <2>2. /\ Redated(q[h[k]], r[g[k]]) /\ DueTimes(r)[g[k]] = DueTimes(q)[h[k]]
        /\ Redated(r[g[k]], d[k]) /\ DueTimes(d)[k] = DueTimes(r)[g[k]]
    BY <1>1, <1>2, <2>1
  <2>3. Redated(q[h[k]], d[k])
    BY <2>1, <2>2 DEF Redated, Entry
  <2>. QED BY <2>2, <2>3
<1>10. {h[k] : k \in 1..Len(d)} = K \ {i}
  <2>1. ASSUME NEW k \in 1..Len(d) PROVE h[k] \in K \ {i}
    <3>1. g[k] \in 1..Len(r) /\ g[k] # c /\ f[g[k]] \in K
      BY <1>1, <1>6
    <3>2. f[g[k]] # f[c]
      <4>1. g[k] < c \/ c < g[k]
        BY <1>4, <3>1
      <4>2. f[g[k]] \in Int /\ f[c] \in Int
        BY <1>4, <1>5, <1>6
      <4>3. f[g[k]] < f[c] \/ f[c] < f[g[k]]
        BY <1>1, <3>1, <4>1
      <4>. QED BY <4>2, <4>3
    <3>. QED BY <1>5, <3>1, <3>2
  <2>2. ASSUME NEW j \in K \ {i} PROVE \E k \in 1..Len(d) : h[k] = j
    <3>1. PICK m \in 1..Len(r) : f[m] = j
      BY <1>1
    <3>2. m # c
      BY <1>5, <3>1
    <3>3. PICK k \in 1..Len(d) : g[k] = m
      <4>1. m \in {g[k] : k \in 1..Len(d)}
        <5>1. {g[k] : k \in 1..Len(d)} = (1..Len(r)) \ {c}
          BY <1>2
        <5>. QED BY <3>2, <5>1
      <4>. QED BY <4>1
    <3>4. h[k] = j
      BY <3>1, <3>3
    <3>. QED BY <3>4
  <2>. HIDE DEF h
  <2>3. {h[k] : k \in 1..Len(d)} \subseteq K \ {i}
    BY <2>1
  <2>4. K \ {i} \subseteq {h[k] : k \in 1..Len(d)}
    BY <2>2
  <2>. QED BY <2>3, <2>4
<1>. HIDE DEF h
<1>11. Thinned(q, d, K \ {i})
  BY <1>7, <1>8, <1>9, <1>10 DEF Thinned
<1>. QED BY <1>11 DEF d

(* destroy_sess_task thins out the list to the other sessions' entries.    *)
LEMMA DeleteArgThins ==
  ASSUME NEW q \in Seq(Entry), Once(q), NEW a
  PROVE  Thinned(q, DeleteArg(q, a), {j \in 1..Len(q) : q[j].arg # a})
<1>. DEFINE K(i) == {j \in 1..Len(q) : j > i \/ q[j].arg # a}
<1>1. PICK rest \in [0..Len(q) -> Seq(Entry)] :
        Walk(q, a, rest) /\ DeleteArg(q, a) = rest[Len(q)]
  BY EntriesAreEntries, DeleteArgWalk
<1>2. Len(q) \in Nat
  BY LenProperties
<1>. DEFINE T == {i \in 0..Len(q) : /\ WalkedTo(q, a, rest[i], i)
                                    /\ Thinned(q, rest[i], K(i))}
<1>3. 0 \in T /\ T \in SUBSET (0..Len(q))
  <2>1. rest[0] = q
    BY <1>1 DEF Walk
  <2>2. WalkedTo(q, a, q, 0)
    BY <1>2 DEF WalkedTo, Once
  <2>3. Thinned(q, q, 1..Len(q))
    <3>. DEFINE from == [k \in 1..Len(q) |-> k]
    <3>1. /\ from \in [1..Len(q) -> 1..Len(q)]
          /\ \A k \in 1..Len(q) : from[k] = k
          /\ {from[k] : k \in 1..Len(q)} = 1..Len(q)
      OBVIOUS
    <3>2. \A k \in 1..Len(q) : Redated(q[k], q[k])
      <4>1. \A k \in 1..Len(q) :
              q[k].delta \in Nat /\ q[k] = [q[k] EXCEPT !.delta = q[k].delta]
        BY EntryFacts, EntriesAreEntries DEF IsEntrySet
      <4>. QED BY <4>1, Zenon DEF Redated
    <3>. HIDE DEF from
    <3>. QED BY <1>2, <3>1, <3>2 DEF Thinned
  <2>4. K(0) = 1..Len(q)
    BY <1>2
  <2>. HIDE DEF K
  <2>. QED BY <1>2, <2>1, <2>2, <2>3, <2>4
<1>4. ASSUME NEW i \in 1..Len(q), i - 1 \in T PROVE i \in T
  <2>. DEFINE r == rest[i-1]
              c == i - (Len(q) - Len(r))
  <2>1. i - 1 \in 0..Len(q) /\ r \in Seq(Entry)
    BY <1>2
  <2>2. WalkedTo(q, a, r, i-1) /\ Thinned(q, r, K(i-1))
    BY <1>4
  <2>3. rest[i] = IF q[i].arg = a THEN Delete(r, c) ELSE r
    BY <1>1 DEF Walk
  <2>. HIDE DEF r
  <2>4. WalkedTo(q, a, rest[i], i)
    BY <2>1, <2>2, <2>3, WalkStep
  <2>5. c \in 1..Len(r) /\ r[c].id = q[i].id
    <3>1. Len(r) \in Nat /\ Len(r) \in Len(q)-(i-1)..Len(q)
      BY <2>1, <2>2, LenProperties DEF WalkedTo
    <3>2. i \in (i-1)+1..Len(q)
      BY <1>2
    <3>3. \A j \in (i-1)+1..Len(q) : r[j - (Len(q) - Len(r))].id = q[j].id
      BY <2>2 DEF WalkedTo
    <3>. QED BY <1>2, <3>1, <3>2, <3>3
  <2>. HIDE DEF c
  <2>6. Thinned(q, rest[i], K(i))
    <3>1. CASE q[i].arg = a
      <4>1. K(i) = K(i-1) \ {i} /\ K(i-1) \in SUBSET (1..Len(q))
        BY <1>2, <3>1
      <4>. HIDE DEF K
      <4>. QED BY <2>1, <2>2, <2>3, <2>5, <3>1, <4>1, ThinnedFurther, SMTT(60)
    <3>2. CASE q[i].arg # a
      <4>1. K(i) = K(i-1)
        BY <1>2, <3>2
      <4>. HIDE DEF K
      <4>. QED BY <2>2, <2>3, <3>2, <4>1
    <3>. QED BY <3>1, <3>2
  <2>. HIDE DEF K
  <2>. QED BY <1>2, <2>4, <2>6
<1>5. T = 0..Len(q)
  <2>. HIDE DEF T
  <2>. QED BY <1>2, <1>3, <1>4, UptoInduction
<1>6. Thinned(q, rest[Len(q)], K(Len(q)))
  <2>1. Len(q) \in T
    <3>. HIDE DEF T
    <3>. QED BY <1>2, <1>5
  <2>. QED BY <2>1
<1>7. K(Len(q)) = {j \in 1..Len(q) : q[j].arg # a}
  BY <1>2
<1>. QED BY <1>1, <1>6, <1>7

---------------------------------------------------------------------------
(* The refinement mapping, as what the list stands for.                    *)
LEMMA MappingIs == timer = TimerOf(queue) /\ before = OrderOf(queue)
BY DEF timer, before, TimerOf, OrderOf, Queued, Ids

(* And after a step.                                                       *)
LEMMA MappingIsNext == timer' = TimerOf(queue') /\ before' = OrderOf(queue')
BY DEF timer, before, TimerOf, OrderOf, Queued, Ids

(* The abstract clock accounts for the time that sync_delay_time counts.   *)
LEMMA PassedIsElapsed ==
  ASSUME TaskInv
  PROVE  Timers!Passed = Elapsed(skew, IntMax) /\ Elapsed(skew, IntMax) \in Nat
BY ClockAssumption DEF TaskInv, TypeOK, Timers!Passed, Elapsed

(* What the invariant says of the list.                                    *)
LEMMA InvFacts ==
  ASSUME TaskInv
  PROVE  /\ queue \in Seq(Entry) /\ Once(queue) /\ Queued = Ids(queue)
         /\ DOMAIN timer = Queued /\ \A t \in Queued : t \in Task
         /\ \A t \in Queued : timer[t].left \in Nat
<1>1. queue \in Seq(Entry) /\ Once(queue) /\ Queued = Ids(queue)
  BY DEF TaskInv, TypeOK, QueuedOnce, Once, Queued, Ids
<1>2. DOMAIN timer = Queued
  BY <1>1, TimerFacts, MappingIs
<1>3. ASSUME NEW t \in Queued PROVE t \in Task /\ timer[t].left \in Nat
  <2>1. PICK i \in 1..Len(queue) : t = queue[i].id
    BY DEF Queued
  <2>2. timer[t] = [arg |-> queue[i].arg, left |-> DueTimes(queue)[i]]
    BY <1>1, <2>1, TimerFacts, MappingIs
  <2>. QED BY <1>1, <2>1, <2>2, EntryFacts
<1>. QED BY <1>1, <1>2, <1>3

(* The timers accounted for are those of the list brought up to date.      *)
LEMMA SyncedIsAged ==
  ASSUME TaskInv
  PROVE  /\ Synced \in Seq(Entry) /\ Once(Synced) /\ Ids(Synced) = Queued
         /\ TimerOf(Synced) = Timers!Aged /\ OrderOf(Synced) = before
         /\ Timers!Aged = AgedBy(timer, Elapsed(skew, IntMax))
<1>1. Timers!Aged = AgedBy(timer, Elapsed(skew, IntMax))
  <2>1. \A t \in DOMAIN timer :
          Timers!Left(t) = Floor(timer[t].left - Elapsed(skew, IntMax))
    BY InvFacts, PassedIsElapsed DEF Timers!Left, Floor
  <2>. QED BY <2>1 DEF Timers!Aged, AgedBy
<1>2. /\ Synced \in Seq(Entry) /\ Once(Synced) /\ Ids(Synced) = Ids(queue)
      /\ TimerOf(Synced) = AgedBy(TimerOf(queue), Elapsed(skew, IntMax))
      /\ OrderOf(Synced) = OrderOf(queue)
  BY InvFacts, PassedIsElapsed, ElapsedTimers DEF Synced
<1>. QED BY <1>1, <1>2, InvFacts, MappingIs

(* The time left of each of them.                                          *)
LEMMA LeftIsAged ==
  ASSUME TaskInv, NEW t \in Queued
  PROVE  Timers!Aged[t].left = Timers!Left(t)
<1>1. t \in DOMAIN timer
  BY InvFacts
<1>2. Timers!Aged[t] = [timer[t] EXCEPT !.left = Timers!Left(t)]
  BY <1>1 DEF Timers!Aged
<1>3. timer[t] = [arg |-> timer[t].arg, left |-> timer[t].left]
  <2>1. PICK i \in 1..Len(queue) : t = queue[i].id
    BY DEF Queued
  <2>2. timer[t] = [arg |-> queue[i].arg, left |-> DueTimes(queue)[i]]
    BY <2>1, InvFacts, TimerFacts, MappingIs
  <2>. QED BY <2>2
<1>. QED BY <1>2, <1>3

---------------------------------------------------------------------------
(* Both tasks of a pair in the order have timers.                          *)
LEMMA OrderIsOfTimers ==
  ASSUME TaskInv
  PROVE  \A p \in before : p[1] \in Queued /\ p[2] \in Queued
<1>. SUFFICES ASSUME NEW p \in before PROVE p[1] \in Queued /\ p[2] \in Queued
  OBVIOUS
<1>1. PICK i \in 1..Len(queue), j \in 1..Len(queue) :
        i < j /\ p = <<queue[i].id, queue[j].id>>
  BY InvFacts, MappingIs, OrderFacts
<1>. QED BY <1>1 DEF Queued

(* The head goes before all others, and is due when its delta is 0.        *)
LEMMA HeadIsFirst ==
  ASSUME TaskInv, queue # <<>>
  PROVE  /\ queue[1].id \in Queued
         /\ \A p \in before : p[2] # queue[1].id
         /\ timer[queue[1].id].left = queue[1].delta
         /\ Timers!Left(queue[1].id) = Synced[1].delta
<1>1. /\ queue \in Seq(Entry) /\ Once(queue)
      /\ Len(queue) \in Nat /\ 1 \in 1..Len(queue)
  BY InvFacts, LenProperties, EmptySeq
<1>2. queue[1].id \in Queued
  BY <1>1 DEF Queued
<1>3. ASSUME NEW p \in before PROVE p[2] # queue[1].id
  <2>1. PICK i \in 1..Len(queue), j \in 1..Len(queue) :
          i < j /\ p = <<queue[i].id, queue[j].id>>
    BY <1>1, MappingIs, OrderFacts
  <2>2. j # 1
    BY <1>1, <2>1
  <2>. QED BY <1>1, <2>1, <2>2 DEF Once
<1>4. \A q \in Seq(Entry) : 1 \in 1..Len(q) => DueTimes(q)[1] = q[1].delta
  <2>. SUFFICES ASSUME NEW q \in Seq(Entry), 1 \in 1..Len(q)
                PROVE  DueTimes(q)[1] = q[1].delta
    OBVIOUS
  <2>1. DueTimes(q)[0] = 0 /\ DueTimes(q)[1] = DueTimes(q)[1-1] + q[1].delta
    BY EntriesAreEntries, DueTimesEquation
  <2>2. q[1].delta \in Nat
    BY EntryFacts
  <2>. QED BY <2>1, <2>2
<1>5. timer[queue[1].id].left = queue[1].delta
  <2>1. timer[queue[1].id] = [arg |-> queue[1].arg, left |-> DueTimes(queue)[1]]
    BY <1>1, TimerFacts, MappingIs
  <2>. QED BY <1>1, <1>4, <2>1
<1>6. Timers!Left(queue[1].id) = Synced[1].delta
  <2>1. /\ Synced \in Seq(Entry) /\ Once(Synced) /\ Len(Synced) = Len(queue)
        /\ Synced[1].id = queue[1].id
    BY <1>1, SyncedIsAged, SyncedKeeps
  <2>2. TimerOf(Synced)[queue[1].id]
          = [arg |-> Synced[1].arg, left |-> DueTimes(Synced)[1]]
    BY <1>1, <2>1, TimerFacts
  <2>3. Timers!Aged[queue[1].id].left = Synced[1].delta
    BY <1>1, <1>4, <2>1, <2>2, SyncedIsAged
  <2>. QED BY <1>2, <2>3, LeftIsAged
<1>. QED BY <1>2, <1>3, <1>5, <1>6

(* Entries that go take their timers along and leave the others alone.     *)
LEMMA ThinnedIsRemove ==
  ASSUME TaskInv, NEW K \in SUBSET (1..Len(queue)), Thinned(queue, queue', K),
         queue' \in Seq(Entry), NEW R,
         {queue[i].id : i \in K} = Queued \ R, skew' = skew
  PROVE  Timers!Remove(R)
<1>. DEFINE S == Queued \ R
<1>1. /\ TimerOf(queue') = [s \in S |-> TimerOf(queue)[s]]
      /\ OrderOf(queue') = {p \in OrderOf(queue) : p[1] \in S /\ p[2] \in S}
  BY InvFacts, ThinnedTimers, ZenonT(90)
<1>2. timer' = [t \in DOMAIN timer \ R |-> timer[t]]
  BY <1>1, InvFacts, MappingIs, MappingIsNext
<1>3. before' = {p \in before : p[1] \notin R /\ p[2] \notin R}
  BY <1>1, OrderIsOfTimers, MappingIs, MappingIsNext
<1>. QED BY <1>2, <1>3 DEF Timers!Remove

---------------------------------------------------------------------------
(* get_min_delay_time, and do_delay_task when nothing is due yet.          *)
LEMMA SyncIsAccount ==
  ASSUME TaskInv, queue' = Synced, skew' = 0, running' = running
  PROVE  Timers!Account
BY SyncedIsAged, MappingIsNext DEF Timers!Account

(* do_delay_task starts what is first and due.                             *)
LEMMA StartTaskIsStart ==
  ASSUME TaskInv, StartTask
  PROVE  Timers!Account \/ \E t \in DOMAIN timer : Timers!Start(t)
<1>. DEFINE t == queue[1].id
<1>1. /\ queue # <<>> /\ running = NoTask
      /\ t \in DOMAIN timer /\ \A p \in before : p[2] # t
      /\ timer[t].left = queue[1].delta /\ Timers!Left(t) = Synced[1].delta
  BY HeadIsFirst, InvFacts DEF StartTask
<1>2. CASE queue[1].delta = TIME_UP
  <2>1. queue' = queue /\ skew' = skew /\ running' = t
    BY <1>2 DEF StartTask
  <2>2. timer' = timer /\ before' = before
    BY <2>1, MappingIs, MappingIsNext
  <2>3. Timers!Start(t)
    BY <1>1, <1>2, <2>1, <2>2 DEF Timers!Start, TIME_UP
  <2>. QED BY <1>1, <2>3
<1>3. CASE queue[1].delta # TIME_UP
  <2>1. queue' = Synced /\ skew' = 0
    BY <1>3 DEF StartTask
  <2>2. timer' = Timers!Aged /\ before' = before
    BY <2>1, SyncedIsAged, MappingIsNext
  <2>3. CASE Synced[1].delta = TIME_UP
    <3>1. running' = t
      BY <2>1, <2>3 DEF StartTask
    <3>2. Timers!Start(t)
      BY <1>1, <2>1, <2>2, <2>3, <3>1 DEF Timers!Start, TIME_UP
    <3>. QED BY <1>1, <3>2
  <2>4. CASE Synced[1].delta # TIME_UP
    <3>1. running' = running
      BY <1>1, <2>1, <2>4 DEF StartTask
    <3>. QED BY <2>1, <3>1, SyncIsAccount
  <2>. QED BY <2>3, <2>4
<1>. QED BY <1>2, <1>3

(* create_delay_task.                                                      *)
LEMMA CreateIsAdd ==
  ASSUME TaskInv, NEW t \in Task, NEW a \in Arg, NEW d \in Delays,
         CreateDelayTask(t, a, d)
  PROVE  Timers!Add(t, a, d)
<1>. DEFINE e == [id |-> t, arg |-> a, delta |-> d]
            A == Timers!Aged
<1>1. e \in Entry /\ e.id = t /\ e.arg = a /\ e.delta = d
  BY DelaysAssumption DEF Entry
<1>2. /\ queue' = Insert(Synced, e) /\ skew' = 0 /\ running' = running
      /\ t \notin Queued
  BY DEF CreateDelayTask
<1>. HIDE DEF e
<1>3. /\ TimerOf(queue') = WithTimer(TimerOf(Synced), e)
      /\ OrderOf(queue') = WithPlace(OrderOf(Synced), TimerOf(Synced), e)
  BY <1>1, <1>2, SyncedIsAged, InsertedTimers
<1>4. /\ timer' = WithTimer(A, e)
      /\ before' = WithPlace(before, A, e)
  BY <1>3, SyncedIsAged, MappingIsNext
<1>5. /\ DOMAIN A = Queued /\ DOMAIN timer = Queued
      /\ \A s \in Queued : A[s].left = Timers!Left(s)
  BY InvFacts, LeftIsAged DEF Timers!Aged
<1>6. timer' = Timers!Joined(DOMAIN timer, t, a, d)
  BY <1>1, <1>4, <1>5 DEF WithTimer, Timers!Joined
<1>7. before' = Timers!JoinedOrder(DOMAIN timer, t, d)
  <2>. HIDE DEF A
  <2>1. {p \in before : p[1] \in Queued /\ p[2] \in Queued} = before
    BY OrderIsOfTimers
  <2>2. /\ {s \in Queued : A[s].left <= d} = {s \in Queued : Timers!Left(s) <= d}
        /\ {s \in Queued : A[s].left > d} = {s \in Queued : Timers!Left(s) > d}
    BY <1>5
  <2>. QED BY <1>1, <1>4, <1>5, <2>1, <2>2 DEF WithPlace, Timers!JoinedOrder
<1>. QED BY <1>2, <1>5, <1>6, <1>7 DEF Timers!Add

(* destroy_sess_task.                                                      *)
LEMMA DestroySessTaskIsRemoveAll ==
  ASSUME TaskInv, NEW a \in Arg, DestroySessTask(a)
  PROVE  Timers!RemoveAll(a)
<1>. DEFINE K == {j \in 1..Len(queue) : queue[j].arg # a}
            R == {t \in DOMAIN timer : timer[t].arg = a}
<1>1. /\ queue' = DeleteArg(queue, a) /\ skew' = skew /\ running' = running
  BY DEF DestroySessTask
<1>2. queue' \in Seq(Entry) /\ Thinned(queue, queue', K)
  <2>1. \A k, l \in 1..Len(queue) : queue[k].id = queue[l].id => k = l
    BY InvFacts DEF Once
  <2>. QED BY <1>1, <2>1, InvFacts, DeleteArgKeeps, DeleteArgThins
<1>3. \A i \in 1..Len(queue) : /\ timer[queue[i].id].arg = queue[i].arg
                               /\ queue[i].id \in Queued
  <2>. SUFFICES ASSUME NEW i \in 1..Len(queue)
                PROVE  timer[queue[i].id].arg = queue[i].arg
    BY DEF Queued
  <2>1. timer[queue[i].id] = [arg |-> queue[i].arg, left |-> DueTimes(queue)[i]]
    BY InvFacts, TimerFacts, MappingIs
  <2>. QED BY <2>1
<1>4. {queue[i].id : i \in K} = Queued \ R
  <2>1. ASSUME NEW i \in K PROVE queue[i].id \in Queued \ R
    BY <1>3
  <2>2. ASSUME NEW t \in Queued \ R PROVE \E i \in K : queue[i].id = t
    <3>1. PICK i \in 1..Len(queue) : queue[i].id = t
      BY DEF Queued
    <3>2. timer[t].arg # a
      BY InvFacts
    <3>3. i \in K
      BY <1>3, <3>1, <3>2
    <3>. QED BY <3>1, <3>3
  <2>. HIDE DEF K, R
  <2>. QED BY <2>1, <2>2
<1>5. Timers!Remove(R)
  <2>1. K \in SUBSET (1..Len(queue))
    OBVIOUS
  <2>. HIDE DEF K, R
  <2>. QED BY <1>1, <1>2, <1>4, <2>1, ThinnedIsRemove
<1>. QED BY <1>1, <1>5 DEF Timers!RemoveAll

(* The entry of one task goes.                                             *)
LEMMA DeleteThinsOne ==
  ASSUME TaskInv, NEW i \in 1..Len(queue)
  PROVE  LET K == (1..Len(queue)) \ {i}
         IN  /\ Delete(queue, i) \in Seq(Entry)
             /\ Thinned(queue, Delete(queue, i), K)
             /\ {queue[k].id : k \in K} = Queued \ {queue[i].id}
<1>. DEFINE K == (1..Len(queue)) \ {i}
<1>1. /\ Delete(queue, i) \in Seq(Entry)
      /\ Thinned(queue, Delete(queue, i), K)
  BY InvFacts, EntriesAreEntries, DeleteKeeps, DeleteThins
<1>2. {queue[k].id : k \in K} = Queued \ {queue[i].id}
  <2>1. \A k, l \in 1..Len(queue) : queue[k].id = queue[l].id => k = l
    BY InvFacts DEF Once
  <2>. QED BY <2>1 DEF Queued
<1>. QED BY <1>1, <1>2

(* destroy_delay_task.                                                     *)
LEMMA FinishDoneIsDone ==
  ASSUME TaskInv, FinishDone
  PROVE  Timers!Done
<1>1. running # NoTask /\ running' = NoTask /\ skew' = skew
  BY DEF FinishDone
<1>2. Timers!Remove({running})
  <2>1. CASE running \notin Queued /\ queue' = queue
    <3>1. timer' = timer /\ before' = before
      BY <2>1, MappingIs, MappingIsNext
    <3>2. timer = [t \in DOMAIN timer |-> timer[t]]
      BY DEF timer
    <3>3. DOMAIN timer \ {running} = DOMAIN timer
      BY <2>1, InvFacts
    <3>4. {p \in before : p[1] \notin {running} /\ p[2] \notin {running}} = before
      BY <2>1, OrderIsOfTimers
    <3>. QED BY <1>1, <3>1, <3>2, <3>3, <3>4 DEF Timers!Remove
  <2>2. ASSUME NEW i \in 1..Len(queue), queue[i].id = running,
               queue' = Delete(queue, i)
        PROVE  Timers!Remove({running})
    <3>. DEFINE K == (1..Len(queue)) \ {i}
    <3>1. /\ K \in SUBSET (1..Len(queue)) /\ queue' \in Seq(Entry)
          /\ Thinned(queue, queue', K)
          /\ {queue[k].id : k \in K} = Queued \ {running}
      BY <2>2, DeleteThinsOne
    <3>. HIDE DEF K
    <3>. QED BY <1>1, <3>1, ThinnedIsRemove
  <2>. QED BY <2>1, <2>2 DEF FinishDone
<1>. QED BY <1>1, <1>2 DEF Timers!Done

(* update_delay_time.                                                      *)
LEMMA FinishDelayedIsAgain ==
  ASSUME TaskInv, NEW d \in Delays, FinishDelayed(d)
  PROVE  Timers!Again(d)
<1>. DEFINE S  == Queued \ {running}
            el == Elapsed(skew, IntMax)
<1>1. PICK i \in 1..Len(queue) :
        /\ queue[i].id = running
        /\ queue' = Insert(Elapse(Delete(queue, i), Elapsed(skew, IntMax)),
                           [queue[i] EXCEPT !.delta = d])
        /\ skew' = 0 /\ running' = NoTask /\ running \in Queued
  BY DEF FinishDelayed
<1>. DEFINE del == Delete(queue, i)
            syn == Elapse(del, el)
            e   == [queue[i] EXCEPT !.delta = d]
<1>2. /\ del \in Seq(Entry) /\ Once(del) /\ Ids(del) = S
      /\ TimerOf(del) = [s \in S |-> timer[s]]
      /\ OrderOf(del) = {p \in before : p[1] \in S /\ p[2] \in S}
  <2>. DEFINE K == (1..Len(queue)) \ {i}
  <2>1. /\ K \in SUBSET (1..Len(queue)) /\ del \in Seq(Entry)
        /\ Thinned(queue, del, K)
        /\ {queue[k].id : k \in K} = S
    BY <1>1, DeleteThinsOne
  <2>. HIDE DEF K, del, S
  <2>2. /\ Once(del) /\ Ids(del) = S
        /\ TimerOf(del) = [s \in S |-> TimerOf(queue)[s]]
        /\ OrderOf(del) = {p \in OrderOf(queue) : p[1] \in S /\ p[2] \in S}
    <3>1. queue \in Seq(Entry) /\ Once(queue)
      BY InvFacts
    <3>. QED BY <2>1, <3>1, ThinnedTimers, ZenonT(90)
  <2>. QED BY <2>1, <2>2, MappingIs
<1>3. queue[i] \in Entry /\ e \in Entry /\ e.id = running
      /\ e.arg = queue[i].arg /\ e.delta = d
  <2>1. queue[i] \in Entry
    BY InvFacts, EntryFacts
  <2>. QED BY <1>1, <2>1, DelaysAssumption DEF Entry
<1>. HIDE DEF del, e
<1>4. /\ syn \in Seq(Entry) /\ Once(syn) /\ Ids(syn) = S
      /\ TimerOf(syn) = AgedBy([s \in S |-> timer[s]], el)
      /\ OrderOf(syn) = {p \in before : p[1] \in S /\ p[2] \in S}
  BY <1>2, PassedIsElapsed, ElapsedTimers
<1>5. queue' = Insert(syn, e)
  BY <1>1 DEF del, e
<1>. HIDE DEF syn
<1>6. S \subseteq DOMAIN timer /\ Timers!Aged = AgedBy(timer, el)
  BY InvFacts, SyncedIsAged
<1>7. TimerOf(syn) = [s \in S |-> Timers!Aged[s]]
  BY <1>4, <1>6 DEF AgedBy
<1>8. /\ timer' = WithTimer(TimerOf(syn), e)
      /\ before' = WithPlace(OrderOf(syn), TimerOf(syn), e)
  BY <1>3, <1>4, <1>5, InsertedTimers, MappingIsNext
<1>9. timer[running].arg = queue[i].arg
  <2>1. timer[running] = [arg |-> queue[i].arg, left |-> DueTimes(queue)[i]]
    BY <1>1, InvFacts, TimerFacts, MappingIs
  <2>. QED BY <2>1
<1>10. DOMAIN timer \ {running} = S /\ running \in DOMAIN timer
  BY <1>1, InvFacts
<1>11. timer' = Timers!Joined(S, running, timer[running].arg, d)
  BY <1>3, <1>7, <1>8, <1>9 DEF WithTimer, Timers!Joined
<1>12. before' = Timers!JoinedOrder(S, running, d)
  <2>1. \A s \in S : TimerOf(syn)[s].left = Timers!Left(s)
    BY <1>7, LeftIsAged
  <2>2. DOMAIN TimerOf(syn) = S
    BY <1>7
  <2>. HIDE DEF S
  <2>3. /\ {s \in S : TimerOf(syn)[s].left <= d} = {s \in S : Timers!Left(s) <= d}
        /\ {s \in S : TimerOf(syn)[s].left > d} = {s \in S : Timers!Left(s) > d}
    BY <2>1
  <2>. QED BY <1>3, <1>4, <1>8, <2>2, <2>3 DEF WithPlace, Timers!JoinedOrder
<1>. HIDE DEF S
<1>. QED BY <1>1, <1>10, <1>11, <1>12 DEF Timers!Again

---------------------------------------------------------------------------
(* An empty list has no timers.                                            *)
LEMMA InitImplements == Init => Timers!Init
<1>. SUFFICES ASSUME Init PROVE Timers!Init
  OBVIOUS
<1>1. queue = <<>> /\ Len(queue) = 0 /\ 1..Len(queue) = {}
  BY EmptySeq DEF Init
<1>2. timer = [t \in {} |-> 0]
  BY <1>1 DEF timer, Queued
<1>3. before = {}
  BY <1>1 DEF before
<1>. QED BY <1>2, <1>3 DEF Init, Timers!Init

(* Every step on the list is one on the timers.                            *)
LEMMA StepImplements == TaskInv /\ [Next]_vars => [Timers!Next]_(Timers!vars)
<1>. SUFFICES ASSUME TaskInv, [Next]_vars PROVE [Timers!Next]_(Timers!vars)
  OBVIOUS
<1>1. CASE UNCHANGED vars
  <2>1. timer' = timer /\ before' = before
    BY <1>1, MappingIs, MappingIsNext DEF vars
  <2>. QED BY <1>1, <2>1 DEF vars, Timers!vars
<1>2. CASE Tick \/ SetBack
  <2>1. queue' = queue /\ running' = running /\ skew' \in Int
    BY <1>2, ClockAssumption DEF Tick, SetBack, TaskInv, TypeOK
  <2>2. timer' = timer /\ before' = before
    BY <2>1, MappingIs, MappingIsNext
  <2>3. Timers!Clock
    BY <2>1, <2>2 DEF Timers!Clock
  <2>. QED BY <2>3 DEF Timers!Next
<1>3. CASE GetMinDelayTime
  <2>1. Timers!Account
    BY <1>3, SyncIsAccount DEF GetMinDelayTime
  <2>. QED BY <2>1 DEF Timers!Next
<1>4. ASSUME NEW t \in Task, NEW a \in Arg, NEW d \in Delays,
             CreateDelayTask(t, a, d)
      PROVE  Timers!Next
  <2>1. Timers!Add(t, a, d)
    BY <1>4, CreateIsAdd
  <2>. QED BY <2>1 DEF Timers!Next
<1>5. ASSUME NEW a \in Arg, DestroySessTask(a) PROVE Timers!Next
  <2>1. Timers!RemoveAll(a)
    BY <1>5, DestroySessTaskIsRemoveAll
  <2>. QED BY <2>1 DEF Timers!Next
<1>6. CASE StartTask
  <2>1. Timers!Account \/ \E t \in DOMAIN timer : Timers!Start(t)
    BY <1>6, StartTaskIsStart
  <2>. QED BY <2>1 DEF Timers!Next
<1>7. ASSUME NEW d \in Delays, FinishDelayed(d) PROVE Timers!Next
  <2>1. Timers!Again(d)
    BY <1>7, FinishDelayedIsAgain
  <2>. QED BY <2>1 DEF Timers!Next
<1>8. CASE FinishDone
  <2>1. Timers!Done
    BY <1>8, FinishDoneIsDone
  <2>. QED BY <2>1 DEF Timers!Next
<1>. QED BY <1>1, <1>2, <1>3, <1>4, <1>5, <1>6, <1>7, <1>8 DEF Next

(* The delta list implements independent timers: a task's own time left is *)
(* changed by the clock alone, whatever else is inserted, deleted or run,  *)
(* and tasks run in the order in which they are due.                       *)
THEOREM DelayListImplementsTimers == Spec => ImplementsTimers
<1>1. TaskInv /\ [Next]_vars => [Timers!Next]_(Timers!vars)
  BY StepImplements
<1>. QED BY <1>1, InitImplements, TaskInvariant, PTL
         DEF Spec, ImplementsTimers, Timers!Spec
=============================================================================
