-------------------------- MODULE DelayQueueProofs --------------------------
(***************************************************************************)
(* Lemmas about the operators of DelayQueue, for queues of any length: a   *)
(* queue is any sequence whose entries are of a set E of records with a    *)
(* natural `delta', closed under changing it.                              *)
(*                                                                         *)
(* DueTimes and DeleteArg are recursive functions.  That there are         *)
(* functions with their equations is shown by induction on a set of        *)
(* numbers, and what they return by the same induction.                    *)
(***************************************************************************)
EXTENDS DelayQueue, SequenceLemmas

(* Entries whose other fields are those of e, with any delta.              *)
IsEntrySet(E) ==
  \A e \in E : /\ e.delta \in Nat
               /\ \A d \in Nat : [e EXCEPT !.delta = d] \in E
               /\ \A d \in Nat : [e EXCEPT !.delta = d].delta = d
               /\ [e EXCEPT !.delta = e.delta] = e

(* f is e with another delta.                                              *)
Redated(e, f) == \E d \in Nat : f = [e EXCEPT !.delta = d]

(* r is q with the task put at p, deltas aside.                            *)
InsertedAt(q, task, p, r) ==
  /\ p \in 1..Len(q)+1
  /\ \A i \in 1..p-1 : r[i] = q[i]
  /\ Redated(task, r[p])
  /\ \A i \in p+1..Len(q)+1 : Redated(q[i-1], r[i])

(* rest[i] is what destroy_sess_task leaves of q after looking at i of its *)
(* entries.                                                                *)
Walk(q, a, rest) ==
  /\ rest[0] = q
  /\ \A i \in 1..Len(q) :
       rest[i] = IF q[i].arg = a
                 THEN Delete(rest[i-1], i - (Len(q) - Len(rest[i-1])))
                 ELSE rest[i-1]

(* r is what is left of q when only the entries at K stay: in order, and   *)
(* each due when it was.                                                   *)
Thinned(q, r, K) ==
  \E from \in [1..Len(r) -> 1..Len(q)] :
    /\ {from[k] : k \in 1..Len(r)} = K
    /\ \A k, l \in 1..Len(r) : k < l => from[k] < from[l]
    /\ \A k \in 1..Len(r) :
         /\ Redated(q[from[k]], r[k])
         /\ DueTimes(r)[k] = DueTimes(q)[from[k]]

---------------------------------------------------------------------------
(* The due times are those of the recursive equation.                      *)
LEMMA DueTimesEquation ==
  ASSUME NEW E, IsEntrySet(E), NEW q \in Seq(E)
  PROVE  /\ DueTimes(q) \in [0..Len(q) -> Nat]
         /\ DueTimes(q)[0] = 0
         /\ \A i \in 1..Len(q) :
              DueTimes(q)[i] = DueTimes(q)[i-1] + q[i].delta
<1>. DEFINE Eq(f) == f = [i \in 0..Len(q) |->
                            IF i = 0 THEN 0 ELSE f[i-1] + q[i].delta]
            step == [i \in 1..Len(q) |-> [x \in Int |-> x + q[i].delta]]
<1>1. Len(q) \in Nat /\ \A i \in 1..Len(q) : q[i].delta \in Nat
  BY ElementOfSeq, LenProperties DEF IsEntrySet
<1>2. step \in [1..Len(q) -> [Int -> Int]]
  BY <1>1
<1>3. PICK f \in [0..Len(q) -> Int] : Recurs(f, Len(q), 0, step)
  <2>1. 0 \in Int /\ Len(q) \in Nat
    BY <1>1
  <2>. HIDE DEF step
  <2>. QED BY <1>2, <2>1, RecursionExists
<1>4. Eq(f)
  <2>1. \A i \in 1..Len(q) : f[i-1] \in Int
    BY <1>1
  <2>2. \A i \in 1..Len(q) : step[i][f[i-1]] = f[i-1] + q[i].delta
    BY <2>1
  <2>3. \A i \in 0..Len(q) : f[i] = IF i = 0 THEN 0 ELSE f[i-1] + q[i].delta
    <3>. HIDE DEF step
    <3>. QED BY <1>1, <1>3, <2>2 DEF Recurs
  <2>. HIDE DEF step
  <2>. QED BY <2>3, Zenon
<1>5. DueTimes(q) = CHOOSE g : Eq(g)
  BY DEF DueTimes
<1>6. Eq(DueTimes(q))
  BY <1>4, <1>5
<1>. DEFINE due == DueTimes(q)
            T   == {i \in 0..Len(q) : due[i] \in Nat}
<1>7. /\ due[0] = 0
      /\ \A i \in 1..Len(q) : due[i] = due[i-1] + q[i].delta
      /\ due = [i \in 0..Len(q) |-> due[i]]
  <2>. HIDE DEF due
  <2>1. Eq(due)
    BY <1>6 DEF due
  <2>. QED BY <1>1, <2>1
<1>8. T = 0..Len(q)
  <2>. HIDE DEF due
  <2>1. 0 \in T /\ T \in SUBSET (0..Len(q))
    BY <1>1, <1>7
  <2>2. ASSUME NEW i \in 1..Len(q), i - 1 \in T PROVE i \in T
    <3>1. due[i-1] \in Nat /\ q[i].delta \in Nat /\ i \in 0..Len(q)
      BY <1>1, <2>2
    <3>2. due[i] = due[i-1] + q[i].delta
      BY <1>7
    <3>. QED BY <3>1, <3>2
  <2>. HIDE DEF T
  <2>. QED BY <1>1, <2>1, <2>2, UptoInduction
<1>. QED BY <1>7, <1>8
---------------------------------------------------------------------------
(* add_delay_task finds a place: the first entry that is due later, or the *)
(* end.                                                                    *)
LEMMA InsertPosIsFirstLater ==
  ASSUME NEW E, IsEntrySet(E), NEW q \in Seq(E), NEW delay \in Nat
  PROVE  /\ InsertPos(q, delay) \in 1..Len(q)+1
         /\ InsertPos(q, delay) <= Len(q)
              => DueTimes(q)[InsertPos(q, delay)] > delay
         /\ \A i \in 1..InsertPos(q, delay)-1 : DueTimes(q)[i] <= delay
<1>. DEFINE due == DueTimes(q)
            T   == {p \in 1..Len(q)+1 : p <= Len(q) => due[p] > delay}
            IsPos(p) == /\ p <= Len(q) => due[p] > delay
                        /\ \A i \in 1..p-1 : due[i] <= delay
<1>1. Len(q) \in Nat /\ due \in [0..Len(q) -> Nat]
  BY DueTimesEquation, LenProperties
<1>. HIDE DEF due
<1>2. T \in SUBSET Nat /\ Len(q) + 1 \in T
  BY <1>1
<1>3. PICK m \in T : \A k \in T : m <= k
  <2>. HIDE DEF T
  <2>. QED BY <1>2, LeastNat
<1>4. m \in 1..Len(q)+1 /\ IsPos(m)
  BY <1>1, <1>3, SMTT(60)
<1>5. InsertPos(q, delay) = CHOOSE p \in 1..Len(q)+1 : IsPos(p)
  BY DEF InsertPos, due
<1>6. InsertPos(q, delay) \in 1..Len(q)+1 /\ IsPos(InsertPos(q, delay))
  <2>. HIDE DEF IsPos
  <2>. QED BY <1>4, <1>5
<1>. QED BY <1>6 DEF due

(* Each operation returns a queue: no delta becomes negative.              *)
LEMMA ElapseType ==
  ASSUME NEW E, IsEntrySet(E), NEW q \in Seq(E), NEW e \in Int
  PROVE  /\ Elapse(q, e) \in Seq(E) /\ Len(Elapse(q, e)) = Len(q)
         /\ \A i \in 1..Len(q) :
              /\ Redated(q[i], Elapse(q, e)[i])
              /\ q[i].delta = 0 => Elapse(q, e)[i].delta = 0
<1>. DEFINE left(i) == Floor(q[i].delta - Floor(e - DueTimes(q)[i-1]))
<1>1. Len(q) \in Nat /\ \A i \in 1..Len(q) : q[i] \in E /\ q[i].delta \in Nat
  BY ElementOfSeq, LenProperties DEF IsEntrySet
<1>2. Elapse(q, e) = [i \in 1..Len(q) |-> [q[i] EXCEPT !.delta = left(i)]]
  BY DEF Elapse
<1>3. \A i \in 1..Len(q) : /\ left(i) \in Nat
                           /\ q[i].delta = 0 => left(i) = 0
  <2>1. DueTimes(q) \in [0..Len(q) -> Nat]
    BY DueTimesEquation
  <2>2. \A i \in 1..Len(q) : DueTimes(q)[i-1] \in Nat
    BY <1>1, <2>1, SMTT(60)
  <2>. QED BY <1>1, <2>2, SMTT(60) DEF Floor
<1>. HIDE DEF left
<1>4. \A i \in 1..Len(q) : /\ [q[i] EXCEPT !.delta = left(i)] \in E
                           /\ [q[i] EXCEPT !.delta = left(i)].delta = left(i)
  BY <1>1, <1>3 DEF IsEntrySet
<1>5. Elapse(q, e) \in Seq(E) /\ Len(Elapse(q, e)) = Len(q)
  <2>1. Elapse(q, e) \in [1..Len(q) -> E]
    BY <1>2, <1>4
  <2>. QED BY <1>1, <2>1
<1>6. \A i \in 1..Len(q) : Elapse(q, e)[i] = [q[i] EXCEPT !.delta = left(i)]
  BY <1>2
<1>. QED BY <1>3, <1>4, <1>5, <1>6 DEF Redated

(* del_delay_task leaves a list of entries, one shorter.                   *)
LEMMA DeleteType ==
  ASSUME NEW E, IsEntrySet(E), NEW q \in Seq(E), NEW i \in Int
  PROVE  /\ Delete(q, i) \in Seq(E)
         /\ Len(q) > 0 => Len(Delete(q, i)) = Len(q) - 1
<1>1. Len(q) \in Nat /\ \A k \in 1..Len(q) : q[k] \in E /\ q[k].delta \in Nat
  BY ElementOfSeq, LenProperties DEF IsEntrySet
<1>2. ASSUME NEW k \in 1..Len(q)-1, k = i
      PROVE  [q[k+1] EXCEPT !.delta = @ + q[i].delta] \in E
  <2>1. q[k+1] \in E /\ q[k+1].delta + q[i].delta \in Nat
    BY <1>1, <1>2
  <2>. QED BY <2>1 DEF IsEntrySet
<1>. QED BY <1>1, <1>2 DEF Delete

(* add_delay_task leaves a list of entries, one longer.                    *)
LEMMA InsertType ==
  ASSUME NEW E, IsEntrySet(E), NEW q \in Seq(E), NEW task \in E
  PROVE  /\ Insert(q, task) \in Seq(E)
         /\ Len(Insert(q, task)) = Len(q) + 1
         /\ InsertedAt(q, task, InsertPos(q, task.delta), Insert(q, task))
<1>. DEFINE p    == InsertPos(q, task.delta)
            due  == DueTimes(q)
            rest == task.delta - due[p-1]
<1>1. /\ Len(q) \in Nat /\ \A k \in 1..Len(q) : q[k] \in E /\ q[k].delta \in Nat
      /\ task.delta \in Nat
  BY ElementOfSeq, LenProperties DEF IsEntrySet
<1>2. /\ p \in 1..Len(q)+1
      /\ p <= Len(q) => due[p] > task.delta
      /\ \A i \in 1..p-1 : due[i] <= task.delta
  BY <1>1, InsertPosIsFirstLater
<1>3. /\ due \in [0..Len(q) -> Nat] /\ due[0] = 0
      /\ \A i \in 1..Len(q) : due[i] = due[i-1] + q[i].delta
  BY DueTimesEquation
<1>. HIDE DEF p, due
<1>4. rest \in Nat
  <2>1. p - 1 \in 0..Len(q)
    BY <1>1, <1>2
  <2>2. due[p-1] \in Nat
    BY <1>3, <2>1
  <2>3. due[p-1] <= task.delta
    BY <1>1, <1>2, <1>3
  <2>. QED BY <1>1, <2>2, <2>3
<1>5. p <= Len(q) => q[p].delta - rest \in Nat
  BY <1>1, <1>2, <1>3, SMTT(60)
<1>6. Insert(q, task) =
        [i \in 1..Len(q)+1 |->
           IF i < p THEN q[i]
           ELSE IF i = p THEN [task EXCEPT !.delta = rest]
           ELSE IF i = p+1 THEN [q[p] EXCEPT !.delta = @ - rest]
           ELSE q[i-1]]
  BY DEF Insert, p, due
<1>. HIDE DEF rest
<1>7. /\ [task EXCEPT !.delta = rest] \in E
      /\ p <= Len(q) => [q[p] EXCEPT !.delta = @ - rest] \in E
  BY <1>1, <1>2, <1>4, <1>5 DEF IsEntrySet
<1>8. Insert(q, task) \in Seq(E) /\ Len(Insert(q, task)) = Len(q) + 1
  BY <1>1, <1>2, <1>6, <1>7
<1>9. /\ \A i \in 1..p-1 : Insert(q, task)[i] = q[i]
      /\ Insert(q, task)[p] = [task EXCEPT !.delta = rest]
      /\ p <= Len(q) => Insert(q, task)[p+1]
                          = [q[p] EXCEPT !.delta = q[p].delta - rest]
      /\ \A i \in p+2..Len(q)+1 : Insert(q, task)[i] = q[i-1]
  BY <1>1, <1>2, <1>6, SMTT(60)
<1>10. ASSUME NEW i \in p+1..Len(q)+1
       PROVE  \E d \in Nat : Insert(q, task)[i] = [q[i-1] EXCEPT !.delta = d]
  <2>1. CASE i = p+1
    <3>1. p <= Len(q) /\ i - 1 = p
      BY <1>1, <1>2, <2>1
    <3>. QED BY <1>5, <1>9, <2>1, <3>1
  <2>2. CASE i # p+1
    <3>1. i \in p+2..Len(q)+1 /\ i - 1 \in 1..Len(q)
      BY <1>1, <1>2, <2>2
    <3>2. q[i-1].delta \in Nat /\ [q[i-1] EXCEPT !.delta = q[i-1].delta] = q[i-1]
      BY <1>1, <3>1 DEF IsEntrySet
    <3>. QED BY <1>9, <3>1, <3>2
  <2>. QED BY <2>1, <2>2
<1>. QED BY <1>2, <1>4, <1>8, <1>9, <1>10 DEF p, InsertedAt, Redated

(* destroy_sess_task is such a walk, to the end of the list.               *)
LEMMA DeleteArgWalk ==
  ASSUME NEW E, IsEntrySet(E), NEW q \in Seq(E), NEW a
  PROVE  \E rest \in [0..Len(q) -> Seq(E)] :
           Walk(q, a, rest) /\ DeleteArg(q, a) = rest[Len(q)]
<1>. DEFINE After(i, r) == IF q[i].arg = a
                           THEN Delete(r, i - (Len(q) - Len(r)))
                           ELSE r
            Eq(f) == f = [i \in 0..Len(q) |->
                            IF i = 0 THEN q ELSE After(i, f[i-1])]
            step  == [i \in 1..Len(q) |-> [r \in Seq(E) |-> After(i, r)]]
            rest  == CHOOSE f : Eq(f)
            T     == {i \in 0..Len(q) : rest[i] \in Seq(E)}
<1>1. Len(q) \in Nat
  BY LenProperties
<1>2. \A i \in 1..Len(q) : \A r \in Seq(E) : After(i, r) \in Seq(E)
  <2>1. \A i \in 1..Len(q) : \A r \in Seq(E) :
          Delete(r, i - (Len(q) - Len(r))) \in Seq(E)
    <3>1. \A i \in 1..Len(q) : \A r \in Seq(E) :
            i - (Len(q) - Len(r)) \in Int
      BY <1>1, LenProperties
    <3>. QED BY <3>1, DeleteType
  <2>. QED BY <2>1
<1>. HIDE DEF After
<1>3. step \in [1..Len(q) -> [Seq(E) -> Seq(E)]]
  BY <1>2
<1>4. PICK f \in [0..Len(q) -> Seq(E)] : Recurs(f, Len(q), q, step)
  <2>. HIDE DEF step
  <2>. QED BY <1>1, <1>3, RecursionExists
<1>5. Eq(f)
  <2>1. \A i \in 1..Len(q) : i - 1 \in 0..Len(q) /\ f[i-1] \in Seq(E)
    BY <1>1
  <2>2. \A i \in 1..Len(q) : step[i][f[i-1]] = After(i, f[i-1])
    BY <2>1
  <2>3. \A i \in 0..Len(q) : f[i] = IF i = 0 THEN q ELSE After(i, f[i-1])
    <3>. HIDE DEF step
    <3>. QED BY <1>1, <1>4, <2>2 DEF Recurs
  <2>. HIDE DEF step
  <2>. QED BY <2>3, Zenon
<1>6. Eq(rest)
  <2>. HIDE DEF Eq
  <2>. QED BY <1>5
<1>7. DeleteArg(q, a) = rest[Len(q)]
  BY DEF DeleteArg, After
<1>. HIDE DEF rest
<1>8. /\ rest[0] = q
      /\ \A i \in 1..Len(q) : rest[i] = After(i, rest[i-1])
      /\ rest = [i \in 0..Len(q) |-> rest[i]]
  <2>1. \A i \in 0..Len(q) : rest[i] = IF i = 0 THEN q ELSE After(i, rest[i-1])
    BY <1>6, Zenon
  <2>2. rest = [i \in 0..Len(q) |-> rest[i]]
    BY <1>6, <2>1, Zenon
  <2>3. ASSUME NEW i \in 1..Len(q) PROVE rest[i] = After(i, rest[i-1])
    <3>1. i \in 0..Len(q) /\ i # 0
      BY <1>1
    <3>. QED BY <2>1, <3>1, Zenon
  <2>4. rest[0] = q
    <3>1. 0 \in 0..Len(q)
      BY <1>1
    <3>. QED BY <2>1, <3>1, Zenon
  <2>. QED BY <2>2, <2>3, <2>4
<1>9. T = 0..Len(q)
  <2>1. T \in SUBSET (0..Len(q)) /\ 0 \in T
    BY <1>1, <1>8
  <2>2. ASSUME NEW i \in 1..Len(q), i - 1 \in T PROVE i \in T
    <3>1. i \in 0..Len(q) /\ rest[i-1] \in Seq(E)
      BY <1>1, <2>2
    <3>2. rest[i] = After(i, rest[i-1])
      BY <1>8
    <3>3. After(i, rest[i-1]) \in Seq(E)
      BY <1>2, <3>1
    <3>. QED BY <3>1, <3>2, <3>3
  <2>. HIDE DEF T
  <2>. QED BY <1>1, <2>1, <2>2, UptoInduction
<1>10. rest \in [0..Len(q) -> Seq(E)]
  BY <1>8, <1>9
<1>11. \A i \in 1..Len(q) :
         rest[i] = IF q[i].arg = a
                   THEN Delete(rest[i-1], i - (Len(q) - Len(rest[i-1])))
                   ELSE rest[i-1]
  BY <1>8 DEF After
<1>. QED BY <1>7, <1>8, <1>10, <1>11 DEF Walk

---------------------------------------------------------------------------
(* What adds up the deltas is the due times.                               *)
LEMMA DueTimesUnique ==
  ASSUME NEW E, IsEntrySet(E), NEW q \in Seq(E),
         NEW f \in [0..Len(q) -> Int], f[0] = 0,
         \A i \in 1..Len(q) : f[i] = f[i-1] + q[i].delta
  PROVE  \A i \in 0..Len(q) : DueTimes(q)[i] = f[i]
<1>. DEFINE due == DueTimes(q)
            T   == {i \in 0..Len(q) : due[i] = f[i]}
<1>1. /\ Len(q) \in Nat /\ due[0] = 0
      /\ \A i \in 1..Len(q) : due[i] = due[i-1] + q[i].delta
  BY DueTimesEquation, LenProperties
<1>. HIDE DEF due
<1>2. T \in SUBSET (0..Len(q)) /\ 0 \in T
  BY <1>1
<1>3. ASSUME NEW i \in 1..Len(q), i - 1 \in T PROVE i \in T
  BY <1>1, <1>3
<1>4. T = 0..Len(q)
  <2>. HIDE DEF T
  <2>. QED BY <1>1, <1>2, <1>3, UptoInduction
<1>. QED BY <1>4 DEF due

(* Later entries are due no earlier.                                       *)
LEMMA DueTimesGrow ==
  ASSUME NEW E, IsEntrySet(E), NEW q \in Seq(E),
         NEW i \in 0..Len(q), NEW j \in i..Len(q)
  PROVE  DueTimes(q)[i] <= DueTimes(q)[j]
<1>. DEFINE due == DueTimes(q)
            n   == Len(q) - i
            T   == {k \in 0..n : due[i] <= due[i + k]}
<1>1. /\ Len(q) \in Nat /\ due \in [0..Len(q) -> Nat]
      /\ \A k \in 1..Len(q) : q[k].delta \in Nat /\ due[k] = due[k-1] + q[k].delta
  BY DueTimesEquation, LenProperties, ElementOfSeq DEF IsEntrySet
<1>. HIDE DEF due
<1>2. n \in Nat /\ 0 \in T /\ T \in SUBSET (0..n)
  BY <1>1, SMTT(60)
<1>3. ASSUME NEW k \in 1..n, k - 1 \in T PROVE k \in T
  <2>1. /\ i + k \in 1..Len(q) /\ (i + k) - 1 = i + (k - 1)
        /\ (i + k) - 1 \in 0..Len(q)
    BY <1>1
  <2>2. due[i] <= due[i + (k - 1)] /\ due[i + k] = due[i + (k - 1)] + q[i + k].delta
    BY <1>1, <1>3, <2>1
  <2>3. /\ due[i] \in Nat /\ due[i + (k-1)] \in Nat /\ q[i+k].delta \in Nat
    BY <1>1, <2>1
  <2>. QED BY <1>2, <2>2, <2>3, SMTT(60)
<1>4. T = 0..n
  <2>. HIDE DEF T, n
  <2>. QED BY <1>2, <1>3, UptoInduction
<1>5. j - i \in 0..n /\ i + (j - i) = j
  BY <1>1
<1>6. due[i] <= due[i + (j - i)]
  BY <1>4, <1>5
<1>. QED BY <1>5, <1>6 DEF due

(* The loop of sync_delay_time, one entry of it.                           *)
LEMMA FloorSum ==
  \A a, x, e \in Nat :
    Floor((a + x) - e) = Floor(a - e) + Floor(x - Floor(e - a))
BY DEF Floor

(* sync_delay_time takes the elapsed time from each due time, or as much   *)
(* of it as there is.                                                      *)
LEMMA ElapseDueTimes ==
  ASSUME NEW E, IsEntrySet(E), NEW q \in Seq(E), NEW e \in Nat
  PROVE  \A i \in 0..Len(q) :
           DueTimes(Elapse(q, e))[i] = Floor(DueTimes(q)[i] - e)
<1>. DEFINE due == DueTimes(q)
            r   == Elapse(q, e)
            f   == [i \in 0..Len(q) |-> Floor(due[i] - e)]
<1>1. /\ Len(q) \in Nat /\ due \in [0..Len(q) -> Nat] /\ due[0] = 0
      /\ \A i \in 1..Len(q) : q[i].delta \in Nat /\ due[i] = due[i-1] + q[i].delta
  BY DueTimesEquation, LenProperties, ElementOfSeq DEF IsEntrySet
<1>2. r \in Seq(E) /\ Len(r) = Len(q)
  BY ElapseType
<1>3. ASSUME NEW i \in 1..Len(q)
      PROVE  r[i].delta = Floor(q[i].delta - Floor(e - due[i-1]))
  <2>1. r[i] = [q[i] EXCEPT !.delta = Floor(q[i].delta - Floor(e - due[i-1]))]
    BY DEF Elapse
  <2>2. q[i] \in E /\ due[i-1] \in Nat
    BY <1>1, ElementOfSeq
  <2>3. Floor(q[i].delta - Floor(e - due[i-1])) \in Nat
    BY <1>1, <2>2 DEF Floor
  <2>. HIDE DEF r, due
  <2>. QED BY <2>1, <2>2, <2>3 DEF IsEntrySet
<1>. HIDE DEF due, r
<1>4. f \in [0..Len(r) -> Int] /\ f[0] = 0
  BY <1>1, <1>2 DEF Floor
<1>5. ASSUME NEW i \in 1..Len(r) PROVE f[i] = f[i-1] + r[i].delta
  <2>1. /\ i \in 1..Len(q) /\ i \in 0..Len(q) /\ i-1 \in 0..Len(q)
        /\ due[i-1] \in Nat /\ due[i] \in Nat /\ q[i].delta \in Nat
        /\ due[i] = due[i-1] + q[i].delta
    BY <1>1, <1>2, SMTT(60)
  <2>2. f[i] = Floor(due[i] - e) /\ f[i-1] = Floor(due[i-1] - e)
    BY <2>1
  <2>3. r[i].delta = Floor(q[i].delta - Floor(e - due[i-1]))
    BY <1>3, <2>1
  <2>4. Floor((due[i-1] + q[i].delta) - e)
          = Floor(due[i-1] - e) + Floor(q[i].delta - Floor(e - due[i-1]))
    BY <2>1, FloorSum, Zenon
  <2>5. f[i] = Floor((due[i-1] + q[i].delta) - e)
    BY <2>1, <2>2
  <2>. HIDE DEF f
  <2>. QED BY <2>2, <2>3, <2>4, <2>5, Zenon
<1>. HIDE DEF f
<1>6. \A i \in 0..Len(r) : DueTimes(r)[i] = f[i]
  BY <1>2, <1>4, <1>5, DueTimesUnique
<1>. QED BY <1>2, <1>6 DEF f, due, r

(* add_delay_task: the task is due when it asked to be, the others when    *)
(* they were.                                                              *)
LEMMA InsertDueTimes ==
  ASSUME NEW E, IsEntrySet(E), NEW q \in Seq(E), NEW task \in E
  PROVE  LET p   == InsertPos(q, task.delta)
             due == DueTimes(Insert(q, task))
         IN  /\ \A i \in 1..p-1 : due[i] = DueTimes(q)[i]
             /\ due[p] = task.delta
             /\ \A i \in p+1..Len(q)+1 : due[i] = DueTimes(q)[i-1]
<1>. DEFINE p    == InsertPos(q, task.delta)
            due  == DueTimes(q)
            r    == Insert(q, task)
            rest == task.delta - due[p-1]
            f    == [i \in 0..Len(q)+1 |-> IF i < p THEN due[i]
                                           ELSE IF i = p THEN task.delta
                                           ELSE due[i-1]]
<1>1. /\ Len(q) \in Nat /\ due \in [0..Len(q) -> Nat] /\ due[0] = 0
      /\ \A i \in 1..Len(q) : q[i].delta \in Nat /\ due[i] = due[i-1] + q[i].delta
      /\ task.delta \in Nat
  BY DueTimesEquation, LenProperties, ElementOfSeq DEF IsEntrySet
<1>2. /\ r \in Seq(E) /\ Len(r) = Len(q) + 1
      /\ p \in 1..Len(q)+1
      /\ p <= Len(q) => due[p] > task.delta
      /\ \A i \in 1..p-1 : due[i] <= task.delta
  BY <1>1, InsertType, InsertPosIsFirstLater
<1>3. r = [i \in 1..Len(q)+1 |->
             IF i < p THEN q[i]
             ELSE IF i = p THEN [task EXCEPT !.delta = rest]
             ELSE IF i = p+1 THEN [q[p] EXCEPT !.delta = q[p].delta - rest]
             ELSE q[i-1]]
  BY DEF Insert
<1>. HIDE DEF p, due, r
<1>4. rest \in Nat /\ (p <= Len(q) => q[p].delta - rest \in Nat)
  <2>1. p - 1 \in 0..Len(q) /\ due[p-1] \in Nat /\ due[p-1] <= task.delta
    <3>1. p - 1 \in 0..Len(q)
      BY <1>1, <1>2
    <3>2. due[p-1] \in Nat
      BY <1>1, <3>1
    <3>3. CASE p = 1
      BY <1>1, <3>3
    <3>4. CASE p # 1
      <4>1. p - 1 \in 1..p-1
        BY <1>1, <1>2, <3>4
      <4>2. \A i \in 1..p-1 : due[i] <= task.delta
        BY <1>2
      <4>. QED BY <3>1, <3>2, <4>1, <4>2, Zenon
    <3>. QED BY <3>1, <3>2, <3>3, <3>4
  <2>. QED BY <1>1, <1>2, <2>1
<1>. HIDE DEF rest
<1>5. /\ r[p].delta = rest
      /\ p <= Len(q) => r[p+1].delta = q[p].delta - rest
  <2>1. r[p] = [task EXCEPT !.delta = rest]
    BY <1>1, <1>2, <1>3
  <2>2. r[p].delta = rest
    BY <1>4, <2>1 DEF IsEntrySet
  <2>3. ASSUME p <= Len(q) PROVE r[p+1].delta = q[p].delta - rest
    <3>1. /\ p+1 \in 1..Len(q)+1 /\ ~(p+1 < p) /\ p+1 # p
          /\ p \in 1..Len(q)
      BY <1>1, <1>2, <2>3
    <3>2. r[p+1] = [q[p] EXCEPT !.delta = q[p].delta - rest]
      BY <1>3, <3>1
    <3>3. q[p] \in E /\ q[p].delta - rest \in Nat
      BY <1>4, <2>3, <3>1, ElementOfSeq
    <3>. QED BY <3>2, <3>3 DEF IsEntrySet
  <2>. QED BY <2>2, <2>3
<1>6. /\ \A i \in 1..p-1 : r[i].delta = q[i].delta
      /\ \A i \in p+2..Len(q)+1 : r[i].delta = q[i-1].delta
  <2>1. ASSUME NEW i \in 1..p-1 PROVE r[i].delta = q[i].delta
    <3>1. i \in 1..Len(q)+1 /\ i < p
      BY <1>1, <1>2
    <3>. QED BY <1>3, <3>1
  <2>2. ASSUME NEW i \in p+2..Len(q)+1 PROVE r[i].delta = q[i-1].delta
    <3>1. i \in 1..Len(q)+1 /\ ~(i < p) /\ i # p /\ i # p+1
      BY <1>1, <1>2
    <3>. QED BY <1>3, <3>1
  <2>. QED BY <2>1, <2>2
<1>7. f \in [0..Len(r) -> Int] /\ f[0] = 0
  <2>1. \A i \in 0..Len(q)+1 : i < p => due[i] \in Int
    BY <1>1, <1>2, SMTT(60)
  <2>2. ASSUME NEW i \in 0..Len(q)+1, i > p PROVE due[i-1] \in Int
    <3>1. i - 1 \in 0..Len(q)
      BY <1>1, <1>2, <2>2
    <3>. QED BY <1>1, <3>1
  <2>3. \A i \in 0..Len(q)+1 :
          (IF i < p THEN due[i] ELSE IF i = p THEN task.delta ELSE due[i-1])
            \in Int
    BY <1>1, <1>2, <2>1, <2>2
  <2>4. f[0] = 0
    BY <1>1, <1>2
  <2>. QED BY <1>2, <2>3, <2>4
<1>8. ASSUME NEW i \in 1..Len(r) PROVE f[i] = f[i-1] + r[i].delta
  <2>1. i \in 0..Len(q)+1 /\ i - 1 \in 0..Len(q)+1
    BY <1>1, <1>2
  <2>2. CASE i < p
    BY <1>1, <1>2, <1>6, <2>1, <2>2
  <2>3. CASE i = p
    <3>1. f[i] = task.delta /\ f[i-1] = due[p-1]
      BY <1>1, <1>2, <2>1, <2>3
    <3>2. p - 1 \in 0..Len(q)
      BY <1>1, <1>2
    <3>3. due[p-1] \in Nat
      BY <1>1, <3>2
    <3>. QED BY <1>1, <1>5, <2>3, <3>1, <3>3 DEF rest
  <2>4. CASE i = p + 1
    <3>1. f[i] = due[p] /\ f[i-1] = task.delta /\ p \in 1..Len(q)
      BY <1>1, <1>2, <2>1, <2>4
    <3>2. due[p] = due[p-1] + q[p].delta /\ due[p-1] \in Nat /\ q[p].delta \in Nat
      BY <1>1, <3>1, SMTT(60)
    <3>. QED BY <1>1, <1>5, <2>4, <3>1, <3>2, SMTT(60) DEF rest
  <2>5. CASE i > p + 1
    <3>1. f[i] = due[i-1] /\ f[i-1] = due[(i-1)-1] /\ i - 1 \in 1..Len(q)
          /\ i \in p+2..Len(q)+1
      BY <1>1, <1>2, <2>1, <2>5
    <3>. QED BY <1>1, <1>6, <3>1
  <2>. QED BY <1>1, <1>2, <2>2, <2>3, <2>4, <2>5
<1>. HIDE DEF f
<1>9. \A i \in 0..Len(r) : DueTimes(r)[i] = f[i]
  BY <1>2, <1>7, <1>8, DueTimesUnique
<1>10. /\ \A i \in 1..p-1 : DueTimes(r)[i] = due[i]
       /\ DueTimes(r)[p] = task.delta
       /\ \A i \in p+1..Len(q)+1 : DueTimes(r)[i] = due[i-1]
  BY <1>1, <1>2, <1>9 DEF f
<1>. QED BY <1>10 DEF p, due, r

(* del_delay_task: the others are due when they were.                      *)
LEMMA DeleteThins ==
  ASSUME NEW E, IsEntrySet(E), NEW q \in Seq(E), NEW c \in 1..Len(q)
  PROVE  Thinned(q, Delete(q, c), (1..Len(q)) \ {c})
<1>. DEFINE due  == DueTimes(q)
            r    == Delete(q, c)
            from == [k \in 1..Len(r) |-> IF k < c THEN k ELSE k + 1]
            f    == [k \in 0..Len(r) |-> IF k < c THEN due[k] ELSE due[k+1]]
<1>1. /\ Len(q) \in Nat /\ due \in [0..Len(q) -> Nat] /\ due[0] = 0
      /\ \A i \in 1..Len(q) : /\ q[i] \in E /\ q[i].delta \in Nat
                              /\ due[i] = due[i-1] + q[i].delta
  BY DueTimesEquation, LenProperties, ElementOfSeq DEF IsEntrySet
<1>2. r \in Seq(E) /\ Len(r) = Len(q) - 1
  <2>1. c \in Int /\ Len(q) > 0
    BY <1>1
  <2>. QED BY <2>1, DeleteType
<1>3. r = [k \in 1..Len(q)-1 |->
             IF k < c THEN q[k]
             ELSE IF k = c THEN [q[k+1] EXCEPT !.delta = q[k+1].delta + q[c].delta]
             ELSE q[k+1]]
  BY DEF Delete
<1>. HIDE DEF due, r
<1>4. ASSUME NEW k \in 1..Len(r)
      PROVE  /\ k < c => r[k] = q[k]
             /\ k = c => /\ r[k] = [q[k+1] EXCEPT !.delta = q[k+1].delta + q[c].delta]
                         /\ q[k+1].delta + q[c].delta \in Nat
                         /\ r[k].delta = q[k+1].delta + q[c].delta
             /\ k > c => r[k] = q[k+1]
  <2>1. k \in 1..Len(q)-1 /\ k + 1 \in 1..Len(q)
    BY <1>1, <1>2
  <2>2. q[k+1] \in E /\ q[k+1].delta + q[c].delta \in Nat
    BY <1>1, <2>1, SMTT(60)
  <2>3. /\ k < c => r[k] = q[k]
        /\ k = c => r[k] = [q[k+1] EXCEPT !.delta = q[k+1].delta + q[c].delta]
        /\ k > c => r[k] = q[k+1]
    BY <1>1, <1>3, <2>1
  <2>4. [q[k+1] EXCEPT !.delta = q[k+1].delta + q[c].delta].delta
          = q[k+1].delta + q[c].delta
    BY <2>2 DEF IsEntrySet
  <2>. QED BY <2>2, <2>3, <2>4
<1>5. f \in [0..Len(r) -> Int] /\ f[0] = 0
  <2>1. \A k \in 0..Len(r) : f[k] \in Int
    BY <1>1, <1>2
  <2>. QED BY <1>1, <1>2, <2>1, SMTT(60)
<1>6. ASSUME NEW k \in 1..Len(r) PROVE f[k] = f[k-1] + r[k].delta
  <2>1. /\ k \in 0..Len(r) /\ k - 1 \in 0..Len(r)
        /\ k \in 1..Len(q) /\ k + 1 \in 1..Len(q) /\ (k + 1) - 1 = k
    BY <1>1, <1>2
  <2>2. CASE k < c
    <3>1. f[k] = due[k] /\ f[k-1] = due[k-1]
      BY <1>1, <2>1, <2>2
    <3>. QED BY <1>1, <1>4, <2>1, <2>2, <3>1
  <2>3. CASE k = c
    <3>1. f[k] = due[k+1] /\ f[k-1] = due[k-1]
      BY <1>1, <2>1, <2>3
    <3>2. /\ due[k+1] = due[k] + q[k+1].delta /\ due[k] = due[k-1] + q[k].delta
      BY <1>1, <2>1
    <3>3. k - 1 \in 0..Len(q)
      BY <2>1
    <3>4. due[k-1] \in Nat /\ q[k].delta \in Nat /\ q[k+1].delta \in Nat
      BY <1>1, <2>1, <3>3
    <3>5. r[k].delta = q[k+1].delta + q[k].delta
      BY <1>4, <2>3
    <3>. QED BY <3>1, <3>2, <3>4, <3>5, SMTT(60)
  <2>4. CASE k > c
    <3>1. f[k] = due[k+1] /\ f[k-1] = due[k]
      BY <1>1, <2>1, <2>4
    <3>2. due[k+1] = due[k] + q[k+1].delta
      BY <1>1, <2>1
    <3>3. r[k].delta = q[k+1].delta
      BY <1>4, <2>4
    <3>. QED BY <3>1, <3>2, <3>3
  <2>. QED BY <1>1, <2>2, <2>3, <2>4
<1>. HIDE DEF f
<1>7. \A k \in 0..Len(r) : DueTimes(r)[k] = f[k]
  BY <1>2, <1>5, <1>6, DueTimesUnique
<1>8. /\ from \in [1..Len(r) -> 1..Len(q)]
      /\ \A k, l \in 1..Len(r) : k < l => from[k] < from[l]
      /\ \A k \in 1..Len(r) : from[k] # c
  BY <1>1, <1>2, SMTT(60)
<1>9. ASSUME NEW i \in (1..Len(q)) \ {c} PROVE \E k \in 1..Len(r) : from[k] = i
  <2>1. i < c => i \in 1..Len(r) /\ from[i] = i
    BY <1>1, <1>2
  <2>2. i > c => i - 1 \in 1..Len(r) /\ from[i-1] = i
    BY <1>1, <1>2
  <2>. HIDE DEF from
  <2>. QED BY <1>1, <2>1, <2>2
<1>10. {from[k] : k \in 1..Len(r)} = (1..Len(q)) \ {c}
  <2>. HIDE DEF from
  <2>. QED BY <1>8, <1>9
<1>11. ASSUME NEW k \in 1..Len(r)
       PROVE  Redated(q[from[k]], r[k]) /\ DueTimes(r)[k] = due[from[k]]
  <2>1. /\ from[k] = IF k < c THEN k ELSE k + 1
        /\ from[k] \in 1..Len(q) /\ k \in 0..Len(r)
    BY <1>1, <1>2
  <2>2. DueTimes(r)[k] = due[from[k]]
    BY <1>7, <2>1 DEF f
  <2>. HIDE DEF from
  <2>3. q[from[k]] \in E /\ q[from[k]].delta \in Nat
    BY <1>1, <2>1
  <2>4. [q[from[k]] EXCEPT !.delta = q[from[k]].delta] = q[from[k]]
    BY <2>3 DEF IsEntrySet
  <2>5. CASE k = c
    <3>1. from[k] = k + 1
      BY <2>1, <2>5
    <3>2. /\ r[k] = [q[k+1] EXCEPT !.delta = q[k+1].delta + q[c].delta]
          /\ q[k+1].delta + q[c].delta \in Nat
      BY <1>4, <2>5
    <3>3. Redated(q[k+1], r[k])
      BY <3>2, Zenon DEF Redated
    <3>. QED BY <2>2, <3>1, <3>3
  <2>6. CASE k # c
    <3>1. r[k] = q[from[k]]
      <4>1. k < c => from[k] = k
        BY <2>1
      <4>2. k > c => from[k] = k + 1
        BY <1>1, <1>2, <2>1
      <4>3. /\ k < c => r[k] = q[k]
            /\ k > c => r[k] = q[k+1]
        BY <1>4
      <4>4. k < c \/ k > c
        BY <1>1, <1>2, <2>6
      <4>. QED BY <4>1, <4>2, <4>3, <4>4, Zenon
    <3>. QED BY <2>2, <2>3, <2>4, <3>1 DEF Redated
  <2>. QED BY <2>5, <2>6
<1>. HIDE DEF from
<1>. QED BY <1>8, <1>10, <1>11 DEF Thinned, due, r
=============================================================================
