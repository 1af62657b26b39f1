-------------------------- MODULE RtspServerProofs --------------------------
(***************************************************************************)
(* Proofs about RtspServer, for any number of clients and descriptors,     *)
(* whatever the clients send and in any order, any frames, delays and      *)
(* bounds.  First what the operations on its lists do, for lists of any    *)
(* length: how many tasks of a kind a session has after a task is added or *)
(* deleted, which handlers are left after one is deregistered, and which   *)
(* sessions after one is destroyed.  Then what each step of the server     *)
(* does, and that the state keeps its types.                               *)
(*                                                                         *)
(* Then the safety properties: that no task and no handler is left for a   *)
(* session that was freed, that no request is answered twice and none that *)
(* is retried is forgotten, and that what plays has its stream and its     *)
(* task.  Each part adds to the invariant of the one before it: who owns   *)
(* what (OwnInv), what is still to be answered (AnswerInv), which request  *)
(* is the last (LastInv), and from there the sockets (SocketInv) and the   *)
(* streams (StreamInv).                                                    *)
(***************************************************************************)
EXTENDS RtspServer, DelayQueueProofs, FiniteSetTheorems

Entry == [proc : {"req", "prefetch", "destroy"}, arg : Client, delta : Nat]

(* f is the task e, with whatever delta.                                   *)
SameTask(e, f) == f.proc = e.proc /\ f.arg = e.arg

(* Where the tasks of a session and a kind are in q, and how many.         *)
Places(q, c, proc) == {i \in 1..Len(q) : q[i].arg = c /\ q[i].proc = proc}
Count(q, c, proc)  == Cardinality(Places(q, c, proc))

(* r holds the tasks that q has at the places S, each once.                *)
Moved(q, S, r, g) ==
  /\ g \in [1..Len(r) -> S]
  /\ \A k, l \in 1..Len(r) : g[k] = g[l] => k = l
  /\ \A i \in S : \E k \in 1..Len(r) : g[k] = i
  /\ \A k \in 1..Len(r) : SameTask(q[g[k]], r[k])

Keeps(q, S, r) == \E g : Moved(q, S, r, g)

(* r is what the walk of destroy_sess_task has left of q after looking at  *)
(* i tasks; those it has not looked at are at the end, in their order.     *)
LeftOf(q, a, i) == {k \in 1..Len(q) : k > i \/ q[k].arg # a}

WalkedTo(q, a, r, i, g) ==
  /\ Moved(q, LeftOf(q, a, i), r, g)
  /\ Len(r) \in Len(q)-i..Len(q)
  /\ \A k \in i+1..Len(q) : g[k - (Len(q) - Len(r))] = k

HandlerSet == [sd : Fd, proc : {"rtsp", "rtp"}, arg : Client]

(* No two handlers are registered for one descriptor.                      *)
DistinctSds(hs) ==
  \A i, j \in 1..Len(hs) : hs[i].sd = hs[j].sd => i = j

Distinct(s) == \A i, j \in 1..Len(s) : s[i] = s[j] => i = j

---------------------------------------------------------------------------
(* What DelayQueueProofs asks of a set of entries.                         *)
LEMMA EntriesAreEntries == IsEntrySet(Entry)
BY DEF IsEntrySet, Entry

(* The elements of a list of tasks.                                        *)
LEMMA QueueType ==
  ASSUME NEW q \in Seq(Entry)
  PROVE  /\ Len(q) \in Nat
         /\ \A i \in 1..Len(q) : /\ q[i] \in Entry /\ q[i].delta \in Nat
                                 /\ q[i].arg \in Client
                                 /\ q[i].proc \in {"req", "prefetch", "destroy"}
<1>1. Len(q) \in Nat /\ \A i \in 1..Len(q) : q[i] \in Entry
  BY ElementOfSeq, LenProperties
<1>. QED BY <1>1 DEF Entry

(* The tasks of a kind are finitely many.                                  *)
LEMMA PlacesFinite ==
  ASSUME NEW q \in Seq(Entry), NEW c, NEW proc
  PROVE  /\ IsFiniteSet(Places(q, c, proc))
         /\ Count(q, c, proc) \in Nat
         /\ Count(q, c, proc) = 0 <=> Places(q, c, proc) = {}
<1>1. Len(q) \in Int /\ 1 \in Int
  BY QueueType
<1>2. IsFiniteSet(1..Len(q))
  BY <1>1, FS_Interval, Zenon
<1>3. Places(q, c, proc) \in SUBSET (1..Len(q))
  BY DEF Places
<1>4. IsFiniteSet(Places(q, c, proc))
  BY <1>2, <1>3, FS_Subset, Zenon
<1>. QED BY <1>4, FS_EmptySet, FS_CardinalityType DEF Count

(* Moving tasks about keeps their number.                                  *)
LEMMA KeptCount ==
  ASSUME NEW q \in Seq(Entry), NEW r \in Seq(Entry),
         NEW S \in SUBSET (1..Len(q)), Keeps(q, S, r), NEW c, NEW proc
  PROVE  Count(r, c, proc) = Cardinality(Places(q, c, proc) \cap S)
<1>. DEFINE A == Places(r, c, proc)
            B == Places(q, c, proc) \cap S
<1>1. PICK g : Moved(q, S, r, g)
  BY DEF Keeps
<1>. DEFINE h == [k \in A |-> g[k]]
<1>2. \A k \in A : k \in 1..Len(r) /\ g[k] \in B
  BY <1>1 DEF Moved, SameTask, Places
<1>3. \A i \in B : \E k \in A : g[k] = i
  BY <1>1 DEF Moved, SameTask, Places
<1>4. \A k, l \in A : g[k] = g[l] => k = l
  BY <1>1, <1>2 DEF Moved
<1>. HIDE DEF A, B
<1>5. h \in Bijection(A, B)
  <2>1. h \in [A -> B]
    BY <1>2
  <2>2. \A k, l \in A : h[k] = h[l] => k = l
    BY <1>4
  <2>3. \A i \in B : \E k \in A : h[k] = i
    BY <1>3
  <2>. HIDE DEF h
  <2>. QED BY <2>1, <2>2, <2>3
        DEF Bijection, Injection, Surjection, IsInjective
<1>6. IsFiniteSet(A)
  BY PlacesFinite DEF A
<1>7. ExistsBijection(A, B)
  BY <1>5 DEF ExistsBijection
<1>8. Cardinality(B) = Cardinality(A)
  BY <1>6, <1>7, FS_Bijection, Zenon
<1>. QED BY <1>8 DEF A, B, Count

---------------------------------------------------------------------------
(* Bringing the list up to date changes deltas only, and none that is 0.   *)
LEMMA ElapseKeeps ==
  ASSUME NEW q \in Seq(Entry), NEW e \in Int
  PROVE  /\ Elapse(q, e) \in Seq(Entry) /\ Len(Elapse(q, e)) = Len(q)
         /\ \A i \in 1..Len(q) :
              /\ SameTask(q[i], Elapse(q, e)[i])
              /\ q[i].delta = 0 => Elapse(q, e)[i].delta = 0
         /\ \A c, proc : Places(Elapse(q, e), c, proc) = Places(q, c, proc)
<1>1. /\ Elapse(q, e) \in Seq(Entry) /\ Len(Elapse(q, e)) = Len(q)
      /\ \A i \in 1..Len(q) :
           /\ Redated(q[i], Elapse(q, e)[i])
           /\ q[i].delta = 0 => Elapse(q, e)[i].delta = 0
  BY EntriesAreEntries, ElapseType
<1>2. \A i \in 1..Len(q) : q[i] \in Entry
  BY QueueType
<1>3. \A i \in 1..Len(q) : SameTask(q[i], Elapse(q, e)[i])
  BY <1>1, <1>2 DEF Entry, Redated, SameTask
<1>4. \A c, proc : Places(Elapse(q, e), c, proc) = Places(q, c, proc)
  BY <1>1, <1>3 DEF Places, SameTask
<1>. QED BY <1>1, <1>3, <1>4

(* Deleting an entry moves those after it up by one.                       *)
LEMMA DeleteMoves ==
  ASSUME NEW q \in Seq(Entry), NEW i \in 1..Len(q)
  PROVE  /\ Delete(q, i) \in Seq(Entry)
         /\ Len(Delete(q, i)) = Len(q) - 1
         /\ \A k \in 1..i-1 : Delete(q, i)[k] = q[k]
         /\ \A k \in i..Len(q)-1 : SameTask(q[k+1], Delete(q, i)[k])
<1>1. Len(q) \in Nat /\ \A k \in 1..Len(q) : q[k] \in Entry
  BY QueueType
<1>2. Delete(q, i) \in Seq(Entry) /\ Len(Delete(q, i)) = Len(q) - 1
  <2>1. i \in Int /\ Len(q) > 0
    BY <1>1
  <2>. QED BY <2>1, EntriesAreEntries, DeleteType, Zenon
<1>3. \A k \in 1..i-1 : Delete(q, i)[k] = q[k]
  BY <1>1 DEF Delete
<1>4. ASSUME NEW k \in i..Len(q)-1
      PROVE  SameTask(q[k+1], Delete(q, i)[k])
  <2>1. k \in 1..Len(q)-1 /\ q[k+1] \in Entry
    BY <1>1
  <2>. QED BY <1>1, <2>1 DEF Delete, Entry, SameTask
<1>. QED BY <1>2, <1>3, <1>4

(* After a task is deleted the others are left.                            *)
LEMMA DeleteKeeps ==
  ASSUME NEW q \in Seq(Entry), NEW i \in 1..Len(q)
  PROVE  Moved(q, (1..Len(q)) \ {i}, Delete(q, i),
               [k \in 1..Len(q)-1 |-> IF k < i THEN k ELSE k+1])
<1>. DEFINE r == Delete(q, i)
            n == Len(q)
            g == [k \in 1..n-1 |-> IF k < i THEN k ELSE k+1]
<1>1. /\ n \in Nat /\ Len(r) = n - 1
      /\ \A k \in 1..i-1 : r[k] = q[k]
      /\ \A k \in i..n-1 : SameTask(q[k+1], r[k])
  BY QueueType, DeleteMoves
<1>. HIDE DEF r, n
<1>2. g \in [1..n-1 -> (1..n) \ {i}]
  BY <1>1
<1>3. \A k \in 1..n-1 : g[k] = IF k < i THEN k ELSE k+1
  OBVIOUS
<1>4. \A k, l \in 1..n-1 : g[k] = g[l] => k = l
  BY <1>1, <1>3
<1>5. ASSUME NEW j \in (1..n) \ {i} PROVE \E k \in 1..n-1 : g[k] = j
  <2>1. CASE j < i
    <3>1. j \in 1..n-1 /\ g[j] = j
      BY <1>1, <1>3, <2>1 DEF n
    <3>. QED BY <3>1
  <2>2. CASE i < j
    <3>1. j-1 \in 1..n-1 /\ g[j-1] = j
      BY <1>1, <1>3, <2>2 DEF n
    <3>. QED BY <3>1
  <2>. QED BY <1>1, <2>1, <2>2
<1>6. \A k \in 1..n-1 : SameTask(q[g[k]], r[k])
  <2>1. \A k \in 1..n-1 : k < i => k \in 1..i-1
    BY <1>1
  <2>2. \A k \in 1..n-1 : ~(k < i) => k \in i..n-1
    BY <1>1
  <2>. QED BY <1>1, <1>3, <2>1, <2>2 DEF SameTask
<1>. HIDE DEF g
<1>7. Moved(q, (1..n) \ {i}, r, g)
  BY <1>1, <1>2, <1>4, <1>5, <1>6 DEF Moved
<1>. QED BY <1>7 DEF r, n, g

(* destroy_delay_task: the others are still there.                         *)
LEMMA DeleteCount ==
  ASSUME NEW q \in Seq(Entry), NEW i \in 1..Len(q), NEW c, NEW proc
  PROVE  Count(Delete(q, i), c, proc) = Cardinality(Places(q, c, proc) \ {i})
<1>1. Delete(q, i) \in Seq(Entry)
  BY DeleteMoves
<1>2. Keeps(q, (1..Len(q)) \ {i}, Delete(q, i))
  BY DeleteKeeps DEF Keeps
<1>3. Places(q, c, proc) \cap ((1..Len(q)) \ {i}) = Places(q, c, proc) \ {i}
  BY DEF Places
<1>4. (1..Len(q)) \ {i} \in SUBSET (1..Len(q))
  OBVIOUS
<1>. QED BY <1>1, <1>2, <1>3, <1>4, KeptCount

(* Adding a task adds one, behind those due before it or with it.          *)
LEMMA InsertMoves ==
  ASSUME NEW q \in Seq(Entry), NEW task \in Entry
  PROVE  /\ Insert(q, task) \in Seq(Entry)
         /\ Len(Insert(q, task)) = Len(q) + 1
         /\ \E p \in 1..Len(q)+1 :
              /\ SameTask(task, Insert(q, task)[p])
              /\ \A i \in 1..p-1 : Insert(q, task)[i] = q[i]
              /\ \A i \in p+1..Len(q)+1 : SameTask(q[i-1], Insert(q, task)[i])
              /\ Len(q) > 0 /\ q[1].delta = 0 => p > 1
<1>. DEFINE p == InsertPos(q, task.delta)
<1>1. /\ Insert(q, task) \in Seq(Entry)
      /\ Len(Insert(q, task)) = Len(q) + 1
      /\ InsertedAt(q, task, p, Insert(q, task))
  BY EntriesAreEntries, InsertType
<1>2. /\ Len(q) \in Nat /\ task.delta \in Nat
      /\ \A i \in 1..Len(q) : q[i] \in Entry
  BY QueueType DEF Entry
<1>3. /\ p <= Len(q) => DueTimes(q)[p] > task.delta
      /\ DueTimes(q)[0] = 0
      /\ \A i \in 1..Len(q) : DueTimes(q)[i] = DueTimes(q)[i-1] + q[i].delta
  BY <1>2, EntriesAreEntries, InsertPosIsFirstLater, DueTimesEquation
<1>. HIDE DEF p
<1>4. Len(q) > 0 /\ q[1].delta = 0 => p > 1
  <2>. SUFFICES ASSUME Len(q) > 0, q[1].delta = 0, p = 1 PROVE FALSE
    BY <1>1, <1>2 DEF InsertedAt
  <2>1. DueTimes(q)[1] = 0
    BY <1>2, <1>3
  <2>. QED BY <1>2, <1>3, <2>1
<1>5. \A i \in p+1..Len(q)+1 : SameTask(q[i-1], Insert(q, task)[i])
  <2>1. \A i \in p+1..Len(q)+1 : q[i-1] \in Entry
    BY <1>1, <1>2 DEF InsertedAt
  <2>2. \A i \in p+1..Len(q)+1 : Redated(q[i-1], Insert(q, task)[i])
    BY <1>1 DEF InsertedAt
  <2>3. \A e \in Entry : \A f : Redated(e, f) => SameTask(e, f)
    BY DEF Redated, Entry, SameTask
  <2>. QED BY <2>1, <2>2, <2>3
<1>6. SameTask(task, Insert(q, task)[p])
  BY <1>1 DEF InsertedAt, Redated, Entry, SameTask
<1>. QED BY <1>1, <1>4, <1>5, <1>6 DEF InsertedAt

(* create_delay_task: there is one more of its kind.                       *)
LEMMA InsertCount ==
  ASSUME NEW q \in Seq(Entry), NEW task \in Entry, NEW c, NEW proc
  PROVE  Count(Insert(q, task), c, proc) =
           IF task.arg = c /\ task.proc = proc THEN Count(q, c, proc) + 1
           ELSE Count(q, c, proc)
<1>. DEFINE r == Insert(q, task)
            n == Len(q)
<1>1. PICK p \in 1..n+1 :
        /\ SameTask(task, r[p])
        /\ \A i \in 1..p-1 : r[i] = q[i]
        /\ \A i \in p+1..n+1 : SameTask(q[i-1], r[i])
  BY InsertMoves
<1>2. n \in Nat /\ r \in Seq(Entry) /\ Len(r) = n + 1
  BY QueueType, InsertMoves
<1>3. \A i \in 1..n : q[i] \in Entry
  BY QueueType
<1>. HIDE DEF r, n
<1>. DEFINE g == [k \in 1..n |-> IF k < p THEN k ELSE k+1]
            S == (1..n+1) \ {p}
<1>4. g \in [1..n -> S] /\ \A k \in 1..n : g[k] = IF k < p THEN k ELSE k+1
  BY <1>2
<1>5. \A k, l \in 1..n : g[k] = g[l] => k = l
  BY <1>2, <1>4
<1>6. ASSUME NEW j \in S PROVE \E k \in 1..n : g[k] = j
  <2>1. CASE j < p
    <3>1. j \in 1..n /\ g[j] = j
      BY <1>2, <1>4, <2>1
    <3>. QED BY <3>1
  <2>2. CASE p < j
    <3>1. j-1 \in 1..n /\ g[j-1] = j
      BY <1>2, <1>4, <2>2
    <3>. QED BY <3>1
  <2>. QED BY <1>2, <2>1, <2>2
<1>7. ASSUME NEW k \in 1..n PROVE SameTask(r[g[k]], q[k])
  <2>1. CASE k < p
    <3>1. k \in 1..p-1
      BY <1>2, <2>1
    <3>. QED BY <1>1, <1>4, <2>1, <3>1 DEF SameTask
  <2>2. CASE ~(k < p)
    <3>1. k+1 \in p+1..n+1 /\ (k+1)-1 = k
      BY <1>2, <2>2
    <3>2. SameTask(q[k], r[k+1])
      BY <1>1, <3>1
    <3>. QED BY <1>4, <2>2, <3>2 DEF SameTask
  <2>. QED BY <2>1, <2>2
<1>8. Keeps(r, S, q)
  <2>. HIDE DEF g, S
  <2>1. Moved(r, S, q, g)
    BY <1>4, <1>5, <1>6, <1>7 DEF Moved, n
  <2>. QED BY <2>1 DEF Keeps
<1>9. Count(q, c, proc) = Cardinality(Places(r, c, proc) \cap S)
  <2>1. S \in SUBSET (1..Len(r))
    BY <1>2
  <2>. HIDE DEF S
  <2>. QED BY <1>2, <1>8, <2>1, KeptCount
<1>10. Places(r, c, proc) \cap S = Places(r, c, proc) \ {p}
  BY <1>2 DEF Places
<1>11. p \in Places(r, c, proc) <=> task.arg = c /\ task.proc = proc
  BY <1>1, <1>2 DEF Places, SameTask
<1>12. /\ IsFiniteSet(Places(r, c, proc)) /\ Count(r, c, proc) \in Nat
       /\ Count(q, c, proc) \in Nat
  BY <1>2, PlacesFinite
<1>13. Cardinality(Places(r, c, proc) \ {p}) =
         IF p \in Places(r, c, proc) THEN Count(r, c, proc) - 1
         ELSE Count(r, c, proc)
  BY <1>12, FS_RemoveElement DEF Count
<1>. HIDE DEF g, S
<1>14. CASE task.arg = c /\ task.proc = proc
  <2>1. Count(q, c, proc) = Count(r, c, proc) - 1
    BY <1>9, <1>10, <1>11, <1>13, <1>14
  <2>2. Count(r, c, proc) = Count(q, c, proc) + 1
    BY <1>12, <2>1
  <2>. QED BY <1>14, <2>2 DEF r
<1>15. CASE ~(task.arg = c /\ task.proc = proc)
  <2>1. Count(q, c, proc) = Count(r, c, proc)
    BY <1>9, <1>10, <1>11, <1>13, <1>15
  <2>. QED BY <1>15, <2>1 DEF r
<1>. QED BY <1>14, <1>15

---------------------------------------------------------------------------
(* Looking at one more task keeps WalkedTo.                                *)
LEMMA WalkStep ==
  ASSUME NEW q \in Seq(Entry), NEW a, NEW i \in 1..Len(q),
         NEW r \in Seq(Entry), NEW g, WalkedTo(q, a, r, i-1, g)
  PROVE  \E h : WalkedTo(q, a, IF q[i].arg = a
                               THEN Delete(r, i - (Len(q) - Len(r)))
                               ELSE r, i, h)
<1>. DEFINE n   == Len(q)
            off == n - Len(r)
            pos == i - off
<1>1. /\ n \in Nat /\ Len(r) \in Nat /\ Len(r) \in n-(i-1)..n
      /\ pos \in 1..Len(r) /\ off \in Nat /\ pos = i - off
      /\ off = n - Len(r) /\ i \in 1..n
  BY QueueType DEF WalkedTo
<1>2. /\ Moved(q, LeftOf(q, a, i-1), r, g)
      /\ \A k \in (i-1)+1..n : g[k - off] = k
  BY DEF WalkedTo
<1>. HIDE DEF n, off, pos
<1>3. g[pos] = i
  BY <1>1, <1>2
<1>4. CASE q[i].arg # a
  <2>1. LeftOf(q, a, i) = LeftOf(q, a, i-1)
    BY <1>1, <1>4 DEF LeftOf, n
  <2>2. Len(r) \in n-i..n
    BY <1>1
  <2>3. \A k \in i+1..n : g[k - off] = k
    BY <1>1, <1>2
  <2>4. WalkedTo(q, a, r, i, g)
    BY <1>2, <2>1, <2>2, <2>3 DEF WalkedTo, n, off
  <2>. QED BY <1>4, <2>4
<1>5. CASE q[i].arg = a
  <2>. DEFINE d == Delete(r, pos)
              m == [k \in 1..Len(r)-1 |-> IF k < pos THEN k ELSE k+1]
              h == [k \in 1..Len(r)-1 |-> g[m[k]]]
  <2>1. Moved(r, (1..Len(r)) \ {pos}, d, m)
    BY <1>1, DeleteKeeps
  <2>2. Len(d) = Len(r) - 1
    BY <1>1, DeleteMoves
  <2>3. LeftOf(q, a, i) = LeftOf(q, a, i-1) \ {i}
    BY <1>1, <1>5 DEF LeftOf, n
  <2>4. \A k \in i+1..n : /\ (k - off) - 1 \in 1..Len(r)-1
                          /\ m[(k - off) - 1] = k - off
    BY <1>1
  <2>. HIDE DEF d, m
  <2>5. \A k \in 1..Len(r)-1 : /\ m[k] \in 1..Len(r) /\ m[k] # pos
                               /\ h[k] = g[m[k]]
    BY <2>1, <2>2 DEF Moved
  <2>6. \A k \in 1..Len(r)-1 : h[k] \in LeftOf(q, a, i)
    <3>1. \A l \in 1..Len(r) : /\ g[l] \in LeftOf(q, a, i-1)
                               /\ l # pos => g[l] # i
      BY <1>1, <1>2, <1>3 DEF Moved
    <3>2. ASSUME NEW k \in 1..Len(r)-1 PROVE h[k] \in LeftOf(q, a, i)
      <4>. HIDE DEF h
      <4>1. m[k] \in 1..Len(r) /\ m[k] # pos /\ h[k] = g[m[k]]
        BY <2>5
      <4>2. g[m[k]] \in LeftOf(q, a, i-1) /\ g[m[k]] # i
        BY <3>1, <4>1, Zenon
      <4>. QED BY <2>3, <4>1, <4>2
    <3>. QED BY <3>2
  <2>7. \A k, l \in 1..Len(r)-1 : h[k] = h[l] => k = l
    BY <1>2, <2>1, <2>2, <2>5, SMTT(60) DEF Moved
  <2>8. ASSUME NEW j \in LeftOf(q, a, i)
        PROVE  \E k \in 1..Len(r)-1 : h[k] = j
    <3>1. PICK l \in 1..Len(r) : g[l] = j
      BY <1>2, <2>3 DEF Moved
    <3>2. l # pos
      BY <1>3, <2>3, <3>1
    <3>3. PICK k \in 1..Len(r)-1 : m[k] = l
      BY <2>1, <2>2, <3>2 DEF Moved
    <3>. QED BY <2>5, <3>1, <3>3
  <2>9. \A k \in 1..Len(r)-1 : SameTask(q[h[k]], d[k])
    BY <1>2, <2>1, <2>2, <2>5 DEF Moved, SameTask
  <2>10. \A k \in i+1..n : h[k - (n - Len(d))] = k
    <3>1. \A k \in i+1..n : /\ k - (n - Len(d)) = (k - off) - 1
                            /\ k \in (i-1)+1..n
      BY <1>1, <2>2
    <3>. QED BY <1>2, <2>4, <2>5, <3>1
  <2>11. Len(d) \in n-i..n
    BY <1>1, <2>2
  <2>12. h = [k \in 1..Len(d) |-> h[k]]
    BY <2>2
  <2>. HIDE DEF h
  <2>13. h \in [1..Len(d) -> LeftOf(q, a, i)]
    BY <2>2, <2>6, <2>12
  <2>14. Moved(q, LeftOf(q, a, i), d, h)
    BY <2>2, <2>7, <2>8, <2>9, <2>13 DEF Moved
  <2>15. WalkedTo(q, a, d, i, h)
    BY <2>10, <2>11, <2>14 DEF WalkedTo, n
  <2>. QED BY <1>5, <2>15 DEF d, pos, off, n
<1>. QED BY <1>4, <1>5

(* destroy_sess_task takes all tasks of a session and no other.            *)
LEMMA DeleteArgKeeps ==
  ASSUME NEW q \in Seq(Entry), NEW a
  PROVE  /\ DeleteArg(q, a) \in Seq(Entry)
         /\ Keeps(q, {k \in 1..Len(q) : q[k].arg # a}, DeleteArg(q, a))
<1>1. PICK rest \in [0..Len(q) -> Seq(Entry)] :
        Walk(q, a, rest) /\ DeleteArg(q, a) = rest[Len(q)]
  BY EntriesAreEntries, DeleteArgWalk
<1>2. Len(q) \in Nat
  BY QueueType
<1>. DEFINE T == {i \in 0..Len(q) : \E g : WalkedTo(q, a, rest[i], i, g)}
<1>3. 0 \in T
  <2>. DEFINE id == [k \in 1..Len(q) |-> k]
  <2>1. LeftOf(q, a, 0) = 1..Len(q)
    BY <1>2 DEF LeftOf
  <2>2. Moved(q, 1..Len(q), q, id)
    BY DEF Moved, SameTask
  <2>3. /\ Len(q) \in Len(q)-0..Len(q)
        /\ \A k \in 0+1..Len(q) : id[k - (Len(q) - Len(q))] = k
    BY <1>2
  <2>. HIDE DEF id
  <2>4. WalkedTo(q, a, q, 0, id)
    BY <2>1, <2>2, <2>3 DEF WalkedTo
  <2>. QED BY <1>1, <1>2, <2>4 DEF Walk
<1>4. ASSUME NEW i \in 1..Len(q), i - 1 \in T PROVE i \in T
  <2>1. i - 1 \in 0..Len(q) /\ i \in 0..Len(q)
    BY <1>2
  <2>2. PICK g : WalkedTo(q, a, rest[i-1], i-1, g)
    BY <1>4
  <2>3. rest[i-1] \in Seq(Entry)
    BY <2>1
  <2>4. rest[i] = IF q[i].arg = a
                  THEN Delete(rest[i-1], i - (Len(q) - Len(rest[i-1])))
                  ELSE rest[i-1]
    BY <1>1 DEF Walk
  <2>5. \E h : WalkedTo(q, a, rest[i], i, h)
    BY <2>2, <2>3, <2>4, WalkStep
  <2>. QED BY <2>1, <2>5
<1>5. T = 0..Len(q)
  <2>1. T \in SUBSET (0..Len(q))
    OBVIOUS
  <2>. HIDE DEF T
  <2>. QED BY <1>2, <1>3, <1>4, <2>1, UptoInduction
<1>6. PICK g : WalkedTo(q, a, rest[Len(q)], Len(q), g)
  BY <1>2, <1>5
<1>7. LeftOf(q, a, Len(q)) = {k \in 1..Len(q) : q[k].arg # a}
  BY <1>2 DEF LeftOf
<1>. QED BY <1>1, <1>2, <1>6, <1>7 DEF WalkedTo, Keeps

(* destroy_sess_task: the session has none left, the others have theirs.   *)
LEMMA DeleteArgCount ==
  ASSUME NEW q \in Seq(Entry), NEW a, NEW c, NEW proc
  PROVE  Count(DeleteArg(q, a), c, proc) =
           IF c = a THEN 0 ELSE Count(q, c, proc)
<1>. DEFINE S == {k \in 1..Len(q) : q[k].arg # a}
<1>1. S \in SUBSET (1..Len(q))
  OBVIOUS
<1>2. /\ c = a => Places(q, c, proc) \cap S = {}
      /\ c # a => Places(q, c, proc) \cap S = Places(q, c, proc)
  BY DEF Places
<1>3. DeleteArg(q, a) \in Seq(Entry) /\ Keeps(q, S, DeleteArg(q, a))
  BY DeleteArgKeeps
<1>. HIDE DEF S
<1>4. Count(DeleteArg(q, a), c, proc) = Cardinality(Places(q, c, proc) \cap S)
  BY <1>1, <1>3, KeptCount
<1>. QED BY <1>2, <1>4, FS_EmptySet DEF Count

(* What is left are tasks that were there, and not the session's.          *)
LEMMA DeleteArgTasks ==
  ASSUME NEW q \in Seq(Entry), NEW a
  PROVE  \A k \in 1..Len(DeleteArg(q, a)) :
           \E i \in 1..Len(q) : /\ SameTask(q[i], DeleteArg(q, a)[k])
                                /\ DeleteArg(q, a)[k].arg # a
<1>1. PICK g : Moved(q, {k \in 1..Len(q) : q[k].arg # a}, DeleteArg(q, a), g)
  BY DeleteArgKeeps DEF Keeps
<1>. DEFINE r == DeleteArg(q, a)
            S == {k \in 1..Len(q) : q[k].arg # a}
<1>2. ASSUME NEW k \in 1..Len(r)
      PROVE  \E i \in 1..Len(q) : SameTask(q[i], r[k]) /\ r[k].arg # a
  <2>1. g[k] \in S /\ SameTask(q[g[k]], r[k])
    BY <1>1 DEF Moved
  <2>2. g[k] \in 1..Len(q) /\ q[g[k]].arg # a
    BY <2>1
  <2>. QED BY <2>1, <2>2 DEF SameTask
<1>. QED BY <1>2

---------------------------------------------------------------------------
(* The values of a sequence are its elements.                              *)
LEMMA SeqValues ==
  ASSUME NEW S, NEW s \in Seq(S)
  PROVE  /\ Len(s) \in Nat
         /\ \A i \in 1..Len(s) : s[i] \in Range(s)
         /\ \A x \in Range(s) : \E i \in 1..Len(s) : s[i] = x
<1>1. Len(s) \in Nat /\ DOMAIN s = 1..Len(s)
  BY LenProperties
<1>2. \A i \in DOMAIN s : s[i] \in Range(s)
  BY Zenon DEF Range
<1>3. \A x \in Range(s) : \E i \in DOMAIN s : s[i] = x
  BY Zenon DEF Range
<1>. QED BY <1>1, <1>2, <1>3, Zenon

(* Min returns an element.                                                 *)
LEMMA MinIsElement ==
  ASSUME NEW I \in SUBSET Nat, I # {}
  PROVE  Min(I) \in I
<1>1. \E m \in I : \A k \in I : m <= k
  BY LeastNat
<1>. QED BY <1>1 DEF Min

(* One element less, the others in their order.                            *)
LEMMA RemoveAtProperties ==
  ASSUME NEW S, NEW s \in Seq(S), NEW i \in 1..Len(s)
  PROVE  /\ RemoveAt(s, i) \in Seq(S)
         /\ Len(RemoveAt(s, i)) = Len(s) - 1
         /\ \A k \in 1..Len(s)-1 :
              RemoveAt(s, i)[k] = IF k < i THEN s[k] ELSE s[k+1]
<1>. DEFINE a == SubSeq(s, 1, i-1)
            b == SubSeq(s, i+1, Len(s))
<1>1. Len(s) \in Nat /\ i \in Nat /\ i >= 1 /\ i <= Len(s)
  BY LenProperties
<1>2. a \in Seq(S) /\ Len(a) = i-1 /\ \A k \in 1..i-1 : a[k] = s[k]
  BY <1>1
<1>3. /\ b \in Seq(S) /\ Len(b) = Len(s)-i
      /\ \A k \in 1..Len(s)-i : b[k] = s[k+i]
  BY <1>1
<1>. HIDE DEF a, b
<1>4. a \o b \in Seq(S) /\ Len(a \o b) = Len(s) - 1
  <2>1. a \o b \in Seq(S) /\ Len(a \o b) = Len(a) + Len(b)
    BY <1>2, <1>3, ConcatProperties
  <2>. QED BY <1>1, <1>2, <1>3, <2>1
<1>5. ASSUME NEW k \in 1..Len(s)-1
      PROVE  (a \o b)[k] = IF k < i THEN s[k] ELSE s[k+1]
  <2>1. CASE k < i
    BY <1>1, <1>2, <1>3, <2>1
  <2>2. CASE ~(k < i)
    <3>1. k > Len(a) /\ k <= Len(a) + Len(b) /\ k - Len(a) \in 1..Len(s)-i
          /\ (k - Len(a)) + i = k+1
      BY <1>1, <1>2, <1>3, <2>2
    <3>2. (a \o b)[k] = b[k - Len(a)]
      BY <1>1, <1>2, <1>3, <3>1, SMTT(60)
    <3>. QED BY <1>3, <2>2, <3>1, <3>2
  <2>. QED BY <2>1, <2>2
<1>. QED BY <1>4, <1>5 DEF RemoveAt, a, b

(* The handler of a descriptor is found if there is one.                   *)
LEMMA HandlerIndexFinds ==
  ASSUME NEW hs \in Seq(HandlerSet), NEW fd
  PROVE  /\ HandlerIndex(hs, fd) \in 0..Len(hs)
         /\ HandlerIndex(hs, fd) = 0 => \A i \in 1..Len(hs) : hs[i].sd # fd
         /\ HandlerIndex(hs, fd) # 0 => /\ HandlerIndex(hs, fd) \in 1..Len(hs)
                                        /\ hs[HandlerIndex(hs, fd)].sd = fd
<1>. DEFINE I == {i \in 1..Len(hs) : hs[i].sd = fd}
<1>1. HandlerIndex(hs, fd) = IF I # {} THEN Min(I) ELSE 0
  BY DEF HandlerIndex, SelectInSeq
<1>2. Len(hs) \in Nat
  BY LenProperties
<1>3. I # {} => Min(I) \in I
  <2>1. I \in SUBSET Nat
    BY <1>2
  <2>. HIDE DEF I
  <2>. QED BY <2>1, MinIsElement
<1>. QED BY <1>1, <1>2, <1>3

(* deregister_sd_handler leaves handlers.                                  *)
LEMMA DeregisterType ==
  ASSUME NEW hs \in Seq(HandlerSet), NEW fd
  PROVE  Deregister(hs, fd) \in Seq(HandlerSet)
BY HandlerIndexFinds, RemoveAtProperties DEF Deregister

(* With one handler for each descriptor it leaves all but this one's.      *)
LEMMA DeregisterRange ==
  ASSUME NEW hs \in Seq(HandlerSet), DistinctSds(hs), NEW fd
  PROVE  /\ DistinctSds(Deregister(hs, fd))
         /\ Range(Deregister(hs, fd)) = {h \in Range(hs) : h.sd # fd}
<1>. DEFINE i == HandlerIndex(hs, fd)
            r == Deregister(hs, fd)
<1>1. /\ i \in 0..Len(hs)
      /\ i = 0 => \A k \in 1..Len(hs) : hs[k].sd # fd
      /\ i # 0 => i \in 1..Len(hs) /\ hs[i].sd = fd
  BY HandlerIndexFinds
<1>2. r = IF i = 0 THEN hs ELSE RemoveAt(hs, i)
  BY DEF Deregister
<1>3. r \in Seq(HandlerSet)
  BY DeregisterType
<1>4. /\ Len(hs) \in Nat
      /\ \A k \in 1..Len(hs) : hs[k] \in Range(hs)
      /\ \A h \in Range(hs) : \E k \in 1..Len(hs) : hs[k] = h
      /\ \A k \in 1..Len(r) : r[k] \in Range(r)
      /\ \A h \in Range(r) : \E k \in 1..Len(r) : r[k] = h
  BY <1>3, SeqValues, Zenon
<1>. HIDE DEF i, r
<1>5. CASE i = 0
  <2>1. r = hs
    BY <1>2, <1>5
  <2>2. \A h \in Range(hs) : h.sd # fd
    BY <1>1, <1>4, <1>5
  <2>. QED BY <2>1, <2>2 DEF r
<1>6. CASE i # 0
  <2>1. /\ Len(r) = Len(hs) - 1 /\ i \in 1..Len(hs) /\ hs[i].sd = fd
        /\ \A k \in 1..Len(hs)-1 : r[k] = IF k < i THEN hs[k] ELSE hs[k+1]
    BY <1>1, <1>2, <1>6, RemoveAtProperties
  <2>2. \A k, l \in 1..Len(r) : r[k].sd = r[l].sd => k = l
    <3>. DEFINE m(k) == IF k < i THEN k ELSE k+1
    <3>1. \A k \in 1..Len(r) : m(k) \in 1..Len(hs) /\ r[k] = hs[m(k)]
      BY <1>4, <2>1
    <3>2. \A k, l \in 1..Len(r) : m(k) = m(l) => k = l
      BY <1>4, <2>1
    <3>. HIDE DEF m
    <3>. QED BY <3>1, <3>2 DEF DistinctSds
  <2>3. \A k \in 1..Len(r) : \E l \in 1..Len(hs) : l # i /\ r[k] = hs[l]
    BY <1>4, <2>1
  <2>4. ASSUME NEW l \in 1..Len(hs), l # i
        PROVE  \E k \in 1..Len(r) : r[k] = hs[l]
    <3>1. CASE l < i
      <4>1. l \in 1..Len(r) /\ r[l] = hs[l]
        BY <1>4, <2>1, <3>1
      <4>. QED BY <4>1
    <3>2. CASE l > i
      <4>1. l-1 \in 1..Len(r) /\ r[l-1] = hs[l]
        BY <1>4, <2>1, <3>2
      <4>. QED BY <4>1
    <3>. QED BY <1>4, <2>1, <2>4, <3>1, <3>2
  <2>5. \A l \in 1..Len(hs) : l # i => hs[l].sd # fd
    BY <2>1 DEF DistinctSds
  <2>6. Range(r) = {h \in Range(hs) : h.sd # fd}
    <3>1. ASSUME NEW h \in Range(r) PROVE h \in Range(hs) /\ h.sd # fd
      <4>1. PICK l \in 1..Len(hs) : l # i /\ h = hs[l]
        BY <1>4, <2>3, Zenon
      <4>. QED BY <1>4, <2>5, <4>1, Zenon
    <3>2. ASSUME NEW h \in Range(hs), h.sd # fd PROVE h \in Range(r)
      <4>1. PICK l \in 1..Len(hs) : hs[l] = h
        BY <1>4, Zenon
      <4>2. PICK k \in 1..Len(r) : r[k] = h
        BY <2>1, <2>4, <3>2, <4>1, Zenon
      <4>. QED BY <1>4, <4>2, Zenon
    <3>. QED BY <3>1, <3>2
  <2>. QED BY <2>2, <2>6 DEF DistinctSds, r
<1>. QED BY <1>5, <1>6

(* list_del takes the session off the list.                                *)
LEMMA RemoveFirstType ==
  ASSUME NEW S, NEW s \in Seq(S), NEW c
  PROVE  RemoveFirst(s, c) \in Seq(S)
<1>. DEFINE I == {i \in 1..Len(s) : s[i] = c}
<1>1. RemoveFirst(s, c) = IF I # {} THEN RemoveAt(s, Min(I)) ELSE s
  BY DEF RemoveFirst, SelectInSeq
<1>2. I # {} => Min(I) \in I
  <2>1. I \in SUBSET Nat
    BY LenProperties
  <2>. HIDE DEF I
  <2>. QED BY <2>1, MinIsElement
<1>. QED BY <1>1, <1>2, RemoveAtProperties

(* The list of sessions without the one that is destroyed.                 *)
LEMMA RemoveFirstRange ==
  ASSUME NEW S, NEW s \in Seq(S), Distinct(s), NEW c
  PROVE  /\ Distinct(RemoveFirst(s, c))
         /\ Range(RemoveFirst(s, c)) = Range(s) \ {c}
<1>. DEFINE I == {i \in 1..Len(s) : s[i] = c}
            r == RemoveFirst(s, c)
<1>1. r = IF I # {} THEN RemoveAt(s, Min(I)) ELSE s
  BY DEF RemoveFirst, SelectInSeq
<1>2. I # {} => Min(I) \in I
  <2>1. I \in SUBSET Nat
    BY LenProperties
  <2>. HIDE DEF I
  <2>. QED BY <2>1, MinIsElement
<1>3. r \in Seq(S)
  BY RemoveFirstType
<1>4. /\ Len(s) \in Nat
      /\ \A k \in 1..Len(s) : s[k] \in Range(s)
      /\ \A x \in Range(s) : \E k \in 1..Len(s) : s[k] = x
      /\ \A k \in 1..Len(r) : r[k] \in Range(r)
      /\ \A x \in Range(r) : \E k \in 1..Len(r) : r[k] = x
  BY <1>3, SeqValues, Zenon
<1>. HIDE DEF r
<1>5. CASE I = {}
  <2>1. r = s /\ \A k \in 1..Len(s) : s[k] # c
    BY <1>1, <1>5
  <2>. QED BY <1>4, <2>1 DEF r
<1>6. CASE I # {}
  <2>. DEFINE i == Min(I)
  <2>1. i \in 1..Len(s) /\ s[i] = c /\ r = RemoveAt(s, i)
    BY <1>1, <1>2, <1>6
  <2>. HIDE DEF i, I
  <2>2. /\ Len(r) = Len(s) - 1
        /\ \A k \in 1..Len(s)-1 : r[k] = IF k < i THEN s[k] ELSE s[k+1]
    BY <2>1, RemoveAtProperties
  <2>3. \A k, l \in 1..Len(r) : r[k] = r[l] => k = l
    <3>. DEFINE m(k) == IF k < i THEN k ELSE k+1
    <3>1. \A k \in 1..Len(r) : m(k) \in 1..Len(s) /\ r[k] = s[m(k)]
      BY <1>4, <2>1, <2>2
    <3>2. \A k, l \in 1..Len(r) : m(k) = m(l) => k = l
      BY <1>4, <2>1, <2>2
    <3>. HIDE DEF m
    <3>. QED BY <3>1, <3>2 DEF Distinct
  <2>4. \A k \in 1..Len(r) : \E l \in 1..Len(s) : l # i /\ r[k] = s[l]
    BY <1>4, <2>1, <2>2
  <2>5. ASSUME NEW l \in 1..Len(s), l # i
        PROVE  \E k \in 1..Len(r) : r[k] = s[l]
    <3>1. CASE l < i
      <4>1. l \in 1..Len(r) /\ r[l] = s[l]
        BY <1>4, <2>1, <2>2, <3>1
      <4>. QED BY <4>1
    <3>2. CASE l > i
      <4>1. l-1 \in 1..Len(r) /\ r[l-1] = s[l]
        BY <1>4, <2>1, <2>2, <3>2
      <4>. QED BY <4>1
    <3>. QED BY <1>4, <2>1, <2>5, <3>1, <3>2
  <2>6. \A l \in 1..Len(s) : l # i => s[l] # c
    BY <2>1 DEF Distinct
  <2>7. Range(r) = Range(s) \ {c}
    <3>1. ASSUME NEW x \in Range(r) PROVE x \in Range(s) /\ x # c
      <4>1. PICK l \in 1..Len(s) : l # i /\ x = s[l]
        BY <1>4, <2>4, Zenon
      <4>. QED BY <1>4, <2>6, <4>1, Zenon
    <3>2. ASSUME NEW x \in Range(s), x # c PROVE x \in Range(r)
      <4>1. PICK l \in 1..Len(s) : s[l] = x
        BY <1>4, Zenon
      <4>2. PICK k \in 1..Len(r) : r[k] = x
        BY <2>1, <2>5, <3>2, <4>1, Zenon
      <4>. QED BY <1>4, <4>2, Zenon
    <3>. QED BY <3>1, <3>2
  <2>. QED BY <2>3, <2>7 DEF Distinct, r
<1>. QED BY <1>5, <1>6

(* A client that is accepted leaves the backlog, and the others stay.      *)
LEMMA TailRange ==
  ASSUME NEW S, NEW s \in Seq(S), s # <<>>, Distinct(s)
  PROVE  /\ Tail(s) \in Seq(S) /\ Distinct(Tail(s))
         /\ Head(s) \in Range(s)
         /\ Range(Tail(s)) = Range(s) \ {Head(s)}
<1>. DEFINE t == Tail(s)
<1>1. /\ t \in Seq(S) /\ Len(t) = Len(s) - 1 /\ Len(s) \in Nat /\ Len(s) > 0
      /\ Head(s) = s[1]
      /\ \A i \in 1..Len(t) : t[i] = s[i+1]
  BY HeadTailProperties, LenProperties, EmptySeq
<1>. HIDE DEF t
<1>2. /\ \A i \in 1..Len(s) : s[i] \in Range(s)
      /\ \A x \in Range(s) : \E i \in 1..Len(s) : s[i] = x
      /\ \A i \in 1..Len(t) : t[i] \in Range(t)
      /\ \A x \in Range(t) : \E i \in 1..Len(t) : t[i] = x
  BY <1>1, SeqValues, Zenon
<1>3. \A i, j \in 1..Len(t) : t[i] = t[j] => i = j
  <2>1. \A i \in 1..Len(t) : i+1 \in 1..Len(s) /\ t[i] = s[i+1]
    BY <1>1
  <2>2. \A i, j \in 1..Len(t) : i+1 = j+1 => i = j
    OBVIOUS
  <2>. QED BY <2>1, <2>2 DEF Distinct
<1>4. ASSUME NEW x \in Range(t) PROVE x \in Range(s) /\ x # Head(s)
  <2>1. PICK i \in 1..Len(t) : t[i] = x
    BY <1>2
  <2>2. i+1 \in 1..Len(s) /\ 1 \in 1..Len(s) /\ i+1 # 1 /\ s[i+1] = x
    BY <1>1, <2>1
  <2>. QED BY <1>1, <1>2, <2>2 DEF Distinct
<1>5. ASSUME NEW x \in Range(s), x # Head(s) PROVE x \in Range(t)
  <2>1. PICK i \in 1..Len(s) : s[i] = x
    BY <1>2
  <2>2. i-1 \in 1..Len(t) /\ t[i-1] = x
    BY <1>1, <1>5, <2>1
  <2>. QED BY <1>2, <2>2
<1>6. Head(s) \in Range(s)
  BY <1>1, <1>2
<1>. QED BY <1>1, <1>3, <1>4, <1>5, <1>6 DEF Distinct, t

(* One that calls goes to its end.                                         *)
LEMMA AppendRange ==
  ASSUME NEW S, NEW s \in Seq(S), NEW e \in S
  PROVE  /\ Append(s, e) \in Seq(S)
         /\ Range(Append(s, e)) = Range(s) \cup {e}
         /\ Distinct(s) /\ e \notin Range(s) => Distinct(Append(s, e))
<1>. DEFINE t == Append(s, e)
<1>1. /\ t \in Seq(S) /\ Len(t) = Len(s) + 1 /\ Len(s) \in Nat
      /\ \A i \in 1..Len(s) : t[i] = s[i]
      /\ t[Len(s)+1] = e
  BY AppendProperties, LenProperties
<1>. HIDE DEF t
<1>2. /\ \A i \in 1..Len(s) : s[i] \in Range(s)
      /\ \A x \in Range(s) : \E i \in 1..Len(s) : s[i] = x
      /\ \A i \in 1..Len(t) : t[i] \in Range(t)
      /\ \A x \in Range(t) : \E i \in 1..Len(t) : t[i] = x
  BY <1>1, SeqValues, Zenon
<1>3. /\ \A i \in 1..Len(t) : i \in 1..Len(s) \/ i = Len(s)+1
      /\ \A i \in 1..Len(s) : i \in 1..Len(t)
      /\ Len(s)+1 \in 1..Len(t)
  BY <1>1
<1>4. Range(t) = Range(s) \cup {e}
  <2>1. ASSUME NEW x \in Range(t) PROVE x \in Range(s) \cup {e}
    BY <1>1, <1>2, <1>3
  <2>2. ASSUME NEW x \in Range(s) \cup {e} PROVE x \in Range(t)
    BY <1>1, <1>2, <1>3
  <2>. QED BY <2>1, <2>2
<1>5. ASSUME Distinct(s), e \notin Range(s) PROVE Distinct(t)
  <2>. SUFFICES ASSUME NEW i \in 1..Len(t), NEW j \in 1..Len(t), t[i] = t[j]
                PROVE  i = j
    BY DEF Distinct
  <2>. QED BY <1>1, <1>2, <1>3, <1>5, SMTT(60) DEF Distinct
<1>. QED BY <1>1, <1>4, <1>5 DEF t

---------------------------------------------------------------------------
(* The answers in a send queue: one more when one is queued, one less when *)
(* the first buffer was one and is sent.                                   *)
RespPlaces(s) == {i \in 1..Len(s) : s[i] = "resp"}

(* The answers in a send queue: finitely many, one more with one appended, *)
(* one less when one is taken.                                             *)
LEMMA RespFinite ==
  ASSUME NEW S, NEW s \in Seq(S)
  PROVE  /\ IsFiniteSet(RespPlaces(s))
         /\ Cardinality(RespPlaces(s)) \in Nat
<1>1. Len(s) \in Int /\ 1 \in Int
  BY LenProperties
<1>2. IsFiniteSet(1..Len(s))
  BY <1>1, FS_Interval, Zenon
<1>3. RespPlaces(s) \in SUBSET (1..Len(s))
  BY DEF RespPlaces
<1>4. IsFiniteSet(RespPlaces(s))
  BY <1>2, <1>3, FS_Subset, Zenon
<1>. QED BY <1>4, FS_CardinalityType

LEMMA RespAppend ==
  ASSUME NEW S, NEW s \in Seq(S), NEW e \in S
  PROVE  Cardinality(RespPlaces(Append(s, e))) =
           IF e = "resp" THEN Cardinality(RespPlaces(s)) + 1
           ELSE Cardinality(RespPlaces(s))
<1>. DEFINE t == Append(s, e)
<1>1. /\ Len(t) = Len(s) + 1 /\ Len(s) \in Nat
      /\ \A i \in 1..Len(s) : t[i] = s[i]
      /\ t[Len(s)+1] = e
  BY AppendProperties, LenProperties
<1>. HIDE DEF t
<1>2. /\ e = "resp" => RespPlaces(t) = RespPlaces(s) \cup {Len(s)+1}
      /\ e # "resp" => RespPlaces(t) = RespPlaces(s)
      /\ Len(s)+1 \notin RespPlaces(s)
  BY <1>1 DEF RespPlaces
<1>3. IsFiniteSet(RespPlaces(s))
  BY RespFinite
<1>. QED BY <1>2, <1>3, FS_AddElement DEF t

LEMMA RespTail ==
  ASSUME NEW S, NEW s \in Seq(S), s # <<>>
  PROVE  Cardinality(RespPlaces(Tail(s))) =
           IF Head(s) = "resp" THEN Cardinality(RespPlaces(s)) - 1
           ELSE Cardinality(RespPlaces(s))
<1>. DEFINE t == Tail(s)
            A == RespPlaces(t)
            B == RespPlaces(s) \ {1}
<1>1. /\ t \in Seq(S) /\ Len(t) = Len(s) - 1 /\ Len(s) \in Nat /\ Len(s) > 0
      /\ Head(s) = s[1]
      /\ \A i \in 1..Len(t) : t[i] = s[i+1]
  BY HeadTailProperties, LenProperties, EmptySeq
<1>. HIDE DEF t
<1>. DEFINE h == [i \in A |-> i+1]
<1>2. \A i \in A : i \in Int /\ i+1 \in B
  BY <1>1 DEF RespPlaces
<1>3. \A j \in B : \E i \in A : i+1 = j
  <2>1. \A j \in B : j-1 \in A /\ (j-1)+1 = j
    BY <1>1 DEF RespPlaces
  <2>. QED BY <2>1
<1>4. h \in Bijection(A, B)
  <2>. HIDE DEF A, B
  <2>1. h \in [A -> B]
    BY <1>2
  <2>2. \A k, l \in A : h[k] = h[l] => k = l
    BY <1>2
  <2>3. \A i \in B : \E k \in A : h[k] = i
    BY <1>3
  <2>. HIDE DEF h
  <2>. QED BY <2>1, <2>2, <2>3
        DEF Bijection, Injection, Surjection, IsInjective
<1>5. IsFiniteSet(A) /\ IsFiniteSet(RespPlaces(s))
  BY <1>1, RespFinite
<1>6. Cardinality(B) = Cardinality(A)
  <2>1. ExistsBijection(A, B)
    BY <1>4 DEF ExistsBijection
  <2>. HIDE DEF A, B
  <2>. QED BY <1>5, <2>1, FS_Bijection, Zenon
<1>7. Cardinality(B) = IF 1 \in RespPlaces(s)
                       THEN Cardinality(RespPlaces(s)) - 1
                       ELSE Cardinality(RespPlaces(s))
  BY <1>5, FS_RemoveElement
<1>8. 1 \in RespPlaces(s) <=> Head(s) = "resp"
  BY <1>1 DEF RespPlaces
<1>. HIDE DEF A, B
<1>9. Cardinality(A) = IF Head(s) = "resp"
                       THEN Cardinality(RespPlaces(s)) - 1
                       ELSE Cardinality(RespPlaces(s))
  BY <1>6, <1>7, <1>8, Zenon
<1>. QED BY <1>9 DEF A, t

---------------------------------------------------------------------------
(* Whose tasks there are.                                                  *)
ArgsIn(q, S) == \A i \in 1..Len(q) : q[i].arg \in S

(* Whose tasks are on the list after each of its operations.               *)
LEMMA ElapseArgs ==
  ASSUME NEW q \in Seq(Entry), NEW e \in Int, NEW S, ArgsIn(q, S)
  PROVE  ArgsIn(Elapse(q, e), S)
BY ElapseKeeps DEF ArgsIn, SameTask

LEMMA DeleteArgs ==
  ASSUME NEW q \in Seq(Entry), NEW i \in 1..Len(q), NEW S, ArgsIn(q, S)
  PROVE  ArgsIn(Delete(q, i), S)
<1>. DEFINE r == Delete(q, i)
<1>1. /\ Len(r) = Len(q) - 1 /\ Len(q) \in Nat
      /\ \A k \in 1..i-1 : r[k] = q[k]
      /\ \A k \in i..Len(q)-1 : SameTask(q[k+1], r[k])
  BY DeleteMoves, QueueType
<1>. HIDE DEF r
<1>2. SUFFICES ASSUME NEW k \in 1..Len(r) PROVE r[k].arg \in S
  BY DEF ArgsIn, r
<1>3. CASE k < i
  BY <1>1, <1>3 DEF ArgsIn
<1>4. CASE ~(k < i)
  BY <1>1, <1>4 DEF ArgsIn, SameTask
<1>. QED BY <1>3, <1>4

LEMMA InsertArgs ==
  ASSUME NEW q \in Seq(Entry), NEW task \in Entry, NEW S, ArgsIn(q, S),
         task.arg \in S
  PROVE  ArgsIn(Insert(q, task), S)
<1>. DEFINE r == Insert(q, task)
<1>1. Len(r) = Len(q) + 1 /\ Len(q) \in Nat
  BY InsertMoves, QueueType
<1>2. PICK p \in 1..Len(q)+1 :
        /\ SameTask(task, r[p])
        /\ \A i \in 1..p-1 : r[i] = q[i]
        /\ \A i \in p+1..Len(q)+1 : SameTask(q[i-1], r[i])
  BY InsertMoves
<1>. HIDE DEF r
<1>3. SUFFICES ASSUME NEW k \in 1..Len(r) PROVE r[k].arg \in S
  BY DEF ArgsIn, r
<1>4. CASE k < p
  BY <1>1, <1>2, <1>4 DEF ArgsIn
<1>5. CASE k = p
  BY <1>2, <1>5 DEF SameTask
<1>6. CASE k > p
  BY <1>1, <1>2, <1>6 DEF ArgsIn, SameTask
<1>. QED BY <1>1, <1>4, <1>5, <1>6

LEMMA DeleteArgArgs ==
  ASSUME NEW q \in Seq(Entry), NEW a, NEW S, ArgsIn(q, S)
  PROVE  ArgsIn(DeleteArg(q, a), S \ {a})
BY DeleteArgTasks DEF ArgsIn, SameTask

(* A handler registered for a descriptor that has none.                    *)
LEMMA RegisterRange ==
  ASSUME NEW hs \in Seq(HandlerSet), NEW h \in HandlerSet, DistinctSds(hs),
         \A g \in Range(hs) : g.sd # h.sd
  PROVE  /\ Append(hs, h) \in Seq(HandlerSet)
         /\ DistinctSds(Append(hs, h))
         /\ Range(Append(hs, h)) = Range(hs) \cup {h}
<1>. DEFINE t == Append(hs, h)
<1>1. t \in Seq(HandlerSet) /\ Range(t) = Range(hs) \cup {h}
  BY AppendRange
<1>2. /\ Len(t) = Len(hs) + 1 /\ Len(hs) \in Nat
      /\ \A i \in 1..Len(hs) : t[i] = hs[i]
      /\ t[Len(hs)+1] = h
  BY AppendProperties, LenProperties
<1>3. \A i \in 1..Len(hs) : hs[i] \in Range(hs)
  BY SeqValues, Zenon
<1>. HIDE DEF t
<1>4. SUFFICES ASSUME NEW i \in 1..Len(t), NEW j \in 1..Len(t), t[i].sd = t[j].sd
               PROVE  i = j
  BY <1>1 DEF DistinctSds, t
<1>5. \A k \in 1..Len(t) : k \in 1..Len(hs) \/ k = Len(hs)+1
  BY <1>2
<1>6. \A k \in 1..Len(hs) : t[k].sd # h.sd
  BY <1>2, <1>3
<1>. QED BY <1>2, <1>4, <1>5, <1>6 DEF DistinctSds

(* A new session goes to the head of the list.                             *)
LEMMA ConsRange ==
  ASSUME NEW S, NEW s \in Seq(S), NEW e \in S
  PROVE  /\ <<e>> \o s \in Seq(S)
         /\ Range(<<e>> \o s) = Range(s) \cup {e}
         /\ Distinct(s) /\ e \notin Range(s) => Distinct(<<e>> \o s)
<1>. DEFINE t == <<e>> \o s
<1>1. /\ t \in Seq(S) /\ Len(t) = Len(s) + 1 /\ Len(s) \in Nat
      /\ t[1] = e
      /\ \A i \in 2..Len(s)+1 : t[i] = s[i-1]
  <2>1. Len(s) \in Nat
    BY LenProperties
  <2>2. t \in Seq(S) /\ Len(t) = Len(s) + 1
    BY <2>1
  <2>3. t[1] = e
    BY LenProperties
  <2>4. ASSUME NEW i \in 2..Len(s)+1 PROVE t[i] = s[i-1]
    BY LenProperties
  <2>. QED BY <2>1, <2>2, <2>3, <2>4
<1>. HIDE DEF t
<1>2. /\ \A i \in 1..Len(s) : s[i] \in Range(s)
      /\ \A x \in Range(s) : \E i \in 1..Len(s) : s[i] = x
      /\ \A i \in 1..Len(t) : t[i] \in Range(t)
      /\ \A x \in Range(t) : \E i \in 1..Len(t) : t[i] = x
  BY <1>1, SeqValues, Zenon
<1>3. /\ \A i \in 1..Len(t) : i = 1 \/ (i-1 \in 1..Len(s) /\ t[i] = s[i-1])
      /\ \A i \in 1..Len(s) : i+1 \in 1..Len(t) /\ t[i+1] = s[i]
      /\ 1 \in 1..Len(t)
  BY <1>1
<1>4. Range(t) = Range(s) \cup {e}
  <2>1. ASSUME NEW x \in Range(t) PROVE x \in Range(s) \cup {e}
    <3>1. PICK i \in 1..Len(t) : t[i] = x
      BY <1>2, Zenon
    <3>2. i = 1 \/ (i-1 \in 1..Len(s) /\ s[i-1] = x)
      BY <1>3, <3>1
    <3>. QED BY <1>1, <1>2, <3>1, <3>2
  <2>2. e \in Range(t)
    BY <1>1, <1>2, <1>3
  <2>3. ASSUME NEW x \in Range(s) PROVE x \in Range(t)
    <3>1. PICK i \in 1..Len(s) : s[i] = x
      BY <1>2, Zenon
    <3>2. i+1 \in 1..Len(t) /\ t[i+1] = x
      BY <1>3, <3>1
    <3>. QED BY <1>2, <3>2
  <2>. QED BY <2>1, <2>2, <2>3
<1>5. ASSUME Distinct(s), e \notin Range(s) PROVE Distinct(t)
  <2>. SUFFICES ASSUME NEW i \in 1..Len(t), NEW j \in 1..Len(t), t[i] = t[j]
                PROVE  i = j
    BY DEF Distinct
  <2>1. CASE i = 1 \/ j = 1
    BY <1>1, <1>2, <1>3, <1>5, <2>1, SMTT(60)
  <2>2. CASE i # 1 /\ j # 1
    <3>1. i-1 \in 1..Len(s) /\ j-1 \in 1..Len(s) /\ s[i-1] = s[j-1]
      BY <1>3, <2>2
    <3>2. i-1 = j-1
      BY <1>5, <3>1 DEF Distinct
    <3>. QED BY <1>1, <3>2
  <2>. QED BY <2>1, <2>2
<1>. QED BY <1>1, <1>4, <1>5 DEF t

---------------------------------------------------------------------------
CliSet   == [conn : {"idle", "up", "fin", "rst", "cut"}, rx : Seq(Request),
             owed : Int, last : Request \cup {"none"}]
OwnerSet == {Unused, Stdin} \cup {Tcp(c) : c \in Client}
                            \cup {Udp(c) : c \in Client}
SessSet  == [state : {"INIT", "READY", "PLAYING"}, handling : {"INIT", "RETRY"},
             sd : Fd, intlvd : BOOLEAN, udp : [Track -> Fd \cup {NoFd}],
             buf : Request \cup {"none"}, req : Request \cup {"none"},
             out : Seq({"resp", "rtp"}), streaming : BOOLEAN]
EventSet == [fd : Fd \cup {LsnFd}, evs : SUBSET {"in", "out", "hup"}]

NetTyped   == /\ cli \in [Client -> CliSet]
              /\ backlog \in Seq(Client) /\ lsnEdge \in BOOLEAN
              /\ edge \subseteq Fd /\ armedOut \subseteq Fd
StoreTyped == /\ owner \in [Fd -> OwnerSet]
              /\ sess \in [Client -> SessSet]
              /\ list \in Seq(Client)
              /\ handlers \in Seq(HandlerSet)
TimeTyped  == tasks \in Seq(Entry) /\ skew \in 0..MaxSkew
RunTyped   == /\ pc \in {"check", "wait", "events", "run", "ran"}
              /\ batch \subseteq EventSet
              /\ now \in Fd \cup {NoFd} /\ ret \in Int
              /\ dtp \in {"queued", "freed"}

Typed == NetTyped /\ StoreTyped /\ TimeTyped /\ RunTyped

(* An event of the listening socket is of a connection not yet accepted.   *)
ListenerHasCaller ==
  \A e \in batch : e.fd = LsnFd => e.evs = {"in"} /\ backlog # <<>>

(* The descriptor that is looked at for EPOLLOUT has a handler.            *)
HandledNow == now # NoFd => pc = "events" /\ HandlerIndex(handlers, now) # 0

(* The task that runs, or has run, is the first and due.                   *)
TaskAtHead ==
  /\ pc = "run" => tasks # <<>> /\ tasks[1].delta = 0
  /\ pc = "ran" => /\ ret >= 0 => dtp = "queued"
                   /\ dtp = "queued" => tasks # <<>> /\ tasks[1].delta = 0

TypeInv == Typed /\ ListenerHasCaller /\ HandledNow /\ TaskAtHead

---------------------------------------------------------------------------
(* The type invariant by parts is the one the runs check.                  *)
LEMMA TypedIsTypeOK == Typed <=> TypeOK
BY DEF Typed, NetTyped, StoreTyped, TimeTyped, RunTyped, TypeOK, CliSet,
       OwnerSet, SessSet, EventSet, HandlerSet, Entry

(* What the constants are.                                                 *)
LEMMA Constants ==
  /\ MaxFd \in Nat /\ 0 \in Fd /\ Fd \subseteq Nat /\ NoFd \notin Fd
  /\ LsnFd \notin Fd /\ LsnFd # NoFd /\ NoFd \in Int
  /\ Ms5 \in Nat /\ Ms10 \in Nat /\ Ms40 \in Nat /\ MaxSkew \in Nat
  /\ Ms5 > 0 /\ Ms10 > 0 /\ Ms40 > 0
  /\ MaxSendQueue \in Nat
BY DelayAssumption, FdAssumption DEF Fd, NoFd, LsnFd

LEMMA EmptyIsSeq == \A S : <<>> \in Seq(S)
BY EmptySeq

LEMMA NewSessType == NewSess \in SessSet
BY Constants, EmptyIsSeq DEF NewSess, SessSet

LEMMA OfflineType == Offline \in CliSet
BY EmptyIsSeq DEF Offline, CliSet

(* A client whose session is destroyed has nothing unread.                 *)
LEMMA DroppedType ==
  ASSUME NEW k \in CliSet
  PROVE  /\ Dropped(k) \in CliSet
         /\ Dropped(k).conn = "idle" /\ Dropped(k).rx = <<>>
         /\ Dropped(k).owed \in {0, k.owed}
<1>1. k.owed \in Int /\ k.last \in Request \cup {"none"}
  BY DEF CliSet
<1>2. CASE k.conn \in {"fin", "rst"}
  <2>1. Dropped(k) = Offline
    BY <1>2 DEF Dropped
  <2>2. Offline.conn = "idle" /\ Offline.rx = <<>> /\ Offline.owed = 0
    BY DEF Offline
  <2>. QED BY <2>1, <2>2, OfflineType
<1>3. CASE k.conn \notin {"fin", "rst"}
  <2>. DEFINE o == k.owed
              m == k.last
              x == [conn |-> "idle", rx |-> <<>>, owed |-> o, last |-> m]
  <2>1. Dropped(k) = x
    BY <1>3 DEF Dropped, Offline
  <2>2. o \in Int /\ m \in Request \cup {"none"} /\ <<>> \in Seq(Request)
    BY <1>1, EmptyIsSeq
  <2>3. x.conn = "idle" /\ x.rx = <<>> /\ x.owed = o
    OBVIOUS
  <2>. HIDE DEF o, m
  <2>4. x \in CliSet
    BY <2>2 DEF CliSet
  <2>. QED BY <2>1, <2>3, <2>4 DEF o
<1>. QED BY <1>2, <1>3

(* The fields of a client and of a session.                                *)
LEMMA CliType ==
  ASSUME NEW x \in CliSet
  PROVE  /\ x.conn \in {"idle", "up", "fin", "rst", "cut"}
         /\ x.rx \in Seq(Request) /\ Len(x.rx) \in Nat
         /\ x.owed \in Int
         /\ x.last \in Request \cup {"none"}
BY LenProperties DEF CliSet

LEMMA SessType ==
  ASSUME NEW s \in SessSet
  PROVE  /\ s.state \in {"INIT", "READY", "PLAYING"}
         /\ s.handling \in {"INIT", "RETRY"}
         /\ s.sd \in Fd /\ s.intlvd \in BOOLEAN
         /\ s.udp \in [Track -> Fd \cup {NoFd}]
         /\ s.buf \in Request \cup {"none"} /\ s.req \in Request \cup {"none"}
         /\ s.out \in Seq({"resp", "rtp"}) /\ Len(s.out) \in Nat
         /\ s.streaming \in BOOLEAN
BY LenProperties DEF SessSet

(* The types hold when start_rtsp_srv is done, before the loop begins.     *)
THEOREM InitTypeInv == Init => TypeInv
<1>. SUFFICES ASSUME Init PROVE TypeInv
  OBVIOUS
<1>1. NetTyped
  BY OfflineType, EmptyIsSeq DEF Init, NetTyped
<1>2. StoreTyped
  BY NewSessType, EmptyIsSeq DEF Init, StoreTyped, OwnerSet
<1>3. TimeTyped /\ RunTyped
  BY Constants, EmptyIsSeq DEF Init, TimeTyped, RunTyped
<1>4. ListenerHasCaller /\ HandledNow /\ TaskAtHead
  BY DEF Init, ListenerHasCaller, HandledNow, TaskAtHead
<1>. QED BY <1>1, <1>2, <1>3, <1>4 DEF TypeInv, Typed

---------------------------------------------------------------------------
(* The environment's steps.                                                *)
LEMMA ConnectType ==
  ASSUME TypeInv, NEW c \in Client, Connect(c) PROVE TypeInv'
<1>1. cli' \in [Client -> CliSet]
  <2>. DEFINE x == [Offline EXCEPT !.conn = "up"]
  <2>1. x \in CliSet
    BY OfflineType DEF CliSet
  <2>2. cli' = [cli EXCEPT ![c] = x] /\ cli \in [Client -> CliSet]
    BY DEF TypeInv, Typed, NetTyped, Connect
  <2>. HIDE DEF x
  <2>. QED BY <2>1, <2>2
<1>2. backlog' \in Seq(Client) /\ backlog' # <<>>
  BY AppendProperties DEF TypeInv, Typed, NetTyped, Connect
<1>3. Typed'
  BY <1>1, <1>2 DEF TypeInv, Typed, NetTyped, StoreTyped, TimeTyped, RunTyped,
     Connect, store, timers, run
<1>4. ListenerHasCaller' /\ HandledNow' /\ TaskAtHead'
  BY <1>2 DEF TypeInv, ListenerHasCaller, HandledNow, TaskAtHead, Connect,
     store, timers, run
<1>. QED BY <1>3, <1>4 DEF TypeInv

(* From here to HandlingType: one lemma for each step, which keeps the     *)
(* types.                                                                  *)
LEMMA SendType ==
  ASSUME TypeInv, NEW c \in Client, NEW m \in Request, Send(c, m)
  PROVE  TypeInv'
<1>1. cli' \in [Client -> CliSet]
  <2>1. cli[c] \in CliSet /\ cli \in [Client -> CliSet]
    BY DEF TypeInv, Typed, NetTyped
  <2>. DEFINE rx   == Append(cli[c].rx, m)
              owed == cli[c].owed + 1
  <2>2. rx \in Seq(Request) /\ owed \in Int
    BY <2>1, CliType, AppendProperties
  <2>3. cli' = [cli EXCEPT ![c] = [cli[c] EXCEPT !.rx = rx, !.owed = owed,
                                                 !.last = m]]
    BY DEF Send
  <2>. HIDE DEF rx, owed
  <2>4. [cli[c] EXCEPT !.rx = rx, !.owed = owed, !.last = m] \in CliSet
    BY <2>1, <2>2 DEF CliSet
  <2>. QED BY <2>1, <2>3, <2>4
<1>2. edge' \subseteq Fd
  BY DEF TypeInv, Typed, NetTyped, Send, SocketOf
<1>3. Typed'
  BY <1>1, <1>2 DEF TypeInv, Typed, NetTyped, StoreTyped, TimeTyped, RunTyped,
     Send, store, timers, run
<1>4. ListenerHasCaller' /\ HandledNow' /\ TaskAtHead'
  BY DEF TypeInv, ListenerHasCaller, HandledNow, TaskAtHead, Send,
     store, timers, run
<1>. QED BY <1>3, <1>4 DEF TypeInv

LEMMA LeaveType ==
  ASSUME TypeInv, NEW c \in Client, NEW how \in {"fin", "rst"}, Leave(c, how)
  PROVE  TypeInv'
<1>1. cli' \in [Client -> CliSet]
  <2>1. cli[c] \in CliSet /\ cli \in [Client -> CliSet]
    BY DEF TypeInv, Typed, NetTyped
  <2>2. [cli[c] EXCEPT !.conn = how,
                       !.rx = IF how = "rst" THEN <<>> ELSE cli[c].rx] \in CliSet
    BY <2>1, EmptyIsSeq DEF CliSet
  <2>. QED BY <2>1, <2>2 DEF Leave
<1>2. edge' \subseteq Fd
  BY DEF TypeInv, Typed, NetTyped, Leave, SocketOf
<1>3. Typed'
  BY <1>1, <1>2 DEF TypeInv, Typed, NetTyped, StoreTyped, TimeTyped, RunTyped,
     Leave, store, timers, run
<1>4. ListenerHasCaller' /\ HandledNow' /\ TaskAtHead'
  BY DEF TypeInv, ListenerHasCaller, HandledNow, TaskAtHead, Leave,
     store, timers, run
<1>. QED BY <1>3, <1>4 DEF TypeInv

LEMMA TickType ==
  ASSUME TypeInv, Tick PROVE TypeInv'
<1>1. skew' \in 0..MaxSkew
  BY Constants DEF TypeInv, Typed, TimeTyped, Tick
<1>2. Typed'
  BY <1>1 DEF TypeInv, Typed, NetTyped, StoreTyped, TimeTyped, RunTyped,
     Tick, store, net, run
<1>3. ListenerHasCaller' /\ HandledNow' /\ TaskAtHead'
  BY DEF TypeInv, ListenerHasCaller, HandledNow, TaskAtHead, Tick,
     store, net, run
<1>. QED BY <1>2, <1>3 DEF TypeInv

---------------------------------------------------------------------------
(* The list of tasks brought up to date, and with a task added.            *)
LEMMA ElapseTasks ==
  ASSUME Typed
  PROVE  /\ Elapse(tasks, skew) \in Seq(Entry)
         /\ Len(Elapse(tasks, skew)) = Len(tasks)
         /\ tasks # <<>> => /\ Elapse(tasks, skew) # <<>>
                            /\ SameTask(tasks[1], Elapse(tasks, skew)[1])
                            /\ tasks[1].delta = 0 =>
                                 Elapse(tasks, skew)[1].delta = 0
<1>1. tasks \in Seq(Entry) /\ skew \in Int
  BY Constants DEF Typed, TimeTyped
<1>2. /\ Elapse(tasks, skew) \in Seq(Entry)
      /\ Len(Elapse(tasks, skew)) = Len(tasks)
      /\ \A i \in 1..Len(tasks) :
           /\ SameTask(tasks[i], Elapse(tasks, skew)[i])
           /\ tasks[i].delta = 0 => Elapse(tasks, skew)[i].delta = 0
  BY <1>1, ElapseKeeps
<1>3. tasks # <<>> => Len(tasks) # 0 /\ 1 \in 1..Len(tasks)
  BY <1>1, EmptySeq
<1>4. tasks # <<>> => Elapse(tasks, skew) # <<>>
  BY <1>2, <1>3, EmptySeq
<1>. QED BY <1>2, <1>3, <1>4

(* A task added leaves the one that runs where it is.                      *)
LEMMA CreateTaskType ==
  ASSUME Typed, NEW proc \in {"req", "prefetch", "destroy"}, NEW c \in Client,
         NEW d \in Nat, CreateTask(proc, c, d)
  PROVE  /\ TimeTyped' /\ tasks' # <<>>
         /\ tasks # <<>> /\ tasks[1].delta = 0 =>
              SameTask(tasks[1], tasks'[1]) /\ tasks'[1].delta = 0
<1>. DEFINE q == Elapse(tasks, skew)
            t == NewTask(proc, c, d)
<1>1. t \in Entry
  BY DEF NewTask, Entry
<1>2. q \in Seq(Entry) /\ tasks' = Insert(q, t) /\ skew' = 0
  BY ElapseTasks DEF CreateTask
<1>. HIDE DEF q, t
<1>3. /\ tasks' \in Seq(Entry) /\ Len(tasks') = Len(q) + 1 /\ Len(q) \in Nat
      /\ \E p \in 1..Len(q)+1 :
           /\ \A i \in 1..p-1 : tasks'[i] = q[i]
           /\ Len(q) > 0 /\ q[1].delta = 0 => p > 1
  BY <1>1, <1>2, InsertMoves, QueueType
<1>4. tasks' # <<>>
  BY <1>3, EmptySeq
<1>5. ASSUME tasks # <<>>, tasks[1].delta = 0
      PROVE  SameTask(tasks[1], tasks'[1]) /\ tasks'[1].delta = 0
  <2>1. q # <<>> /\ SameTask(tasks[1], q[1]) /\ q[1].delta = 0
    BY <1>5, ElapseTasks DEF q
  <2>2. Len(q) > 0
    BY <1>2, <1>3, <2>1, EmptySeq
  <2>3. tasks'[1] = q[1]
    BY <1>3, <2>1, <2>2
  <2>. QED BY <2>1, <2>3
<1>6. TimeTyped'
  BY <1>2, <1>3, Constants DEF TimeTyped
<1>. QED BY <1>4, <1>5, <1>6

---------------------------------------------------------------------------
(* What the operators of the model return.                                 *)
LEMMA SendTargetType ==
  ASSUME Typed, NEW c \in Client
  PROVE  SendTarget(c) \in Fd \cup {NoFd}
<1>1. sess[c] \in SessSet
  BY DEF Typed, StoreTyped
<1>. QED BY <1>1, SessType DEF SendTarget, Track

(* The descriptor that accept or socket gets is a free one.                *)
LEMMA LowestFreeType ==
  LowestFree # NoFd => LowestFree \in Fd /\ owner[LowestFree] = Unused
<1>. DEFINE I == {fd \in Fd : Free(fd)}
<1>1. CASE I = {}
  BY <1>1 DEF LowestFree
<1>2. CASE I # {}
  <2>1. I \in SUBSET Nat
    BY Constants
  <2>2. PICK m \in I : \A k \in I : m <= k
    <3>. HIDE DEF I
    <3>. QED BY <1>2, <2>1, LeastNat
  <2>3. m \in Fd /\ Free(m) /\ \A e \in 0..m-1 : ~Free(e)
    <3>1. m \in Fd /\ Free(m) /\ m \in Nat
      BY <2>1, <2>2
    <3>2. ASSUME NEW e \in 0..m-1, Free(e) PROVE FALSE
      <4>1. e \in I /\ ~(m <= e)
        BY <3>1, <3>2, Constants DEF Fd
      <4>. QED BY <2>2, <4>1
    <3>. QED BY <3>1, <3>2
  <2>. QED BY <2>3 DEF LowestFree, Free
<1>. QED BY <1>1, <1>2

LEMMA ReadableFdsType == ReadableFds \subseteq Fd
BY DEF ReadableFds, SocketOf

(* The handler that is found.                                              *)
LEMMA HandlerType ==
  ASSUME Typed, NEW fd, HandlerIndex(handlers, fd) # 0
  PROVE  /\ HandlerIndex(handlers, fd) \in 1..Len(handlers)
         /\ Handler(fd) \in HandlerSet /\ Handler(fd).sd = fd
         /\ fd \in Fd /\ Handler(fd).arg \in Client
<1>1. handlers \in Seq(HandlerSet)
  BY DEF Typed, StoreTyped
<1>2. /\ HandlerIndex(handlers, fd) \in 1..Len(handlers)
      /\ handlers[HandlerIndex(handlers, fd)].sd = fd
  BY <1>1, HandlerIndexFinds
<1>3. handlers[HandlerIndex(handlers, fd)] \in HandlerSet
  BY <1>1, <1>2, ElementOfSeq
<1>. QED BY <1>2, <1>3 DEF Handler, HandlerSet

(* The first task of the list is one.                                      *)
LEMMA FirstTaskType ==
  ASSUME Typed, tasks # <<>>
  PROVE  /\ tasks \in Seq(Entry) /\ Len(tasks) \in Nat /\ 1 \in 1..Len(tasks)
         /\ tasks[1] \in Entry /\ tasks[1].arg \in Client
         /\ tasks[1].proc \in {"req", "prefetch", "destroy"}
         /\ tasks[1].delta \in Nat
<1>1. tasks \in Seq(Entry)
  BY DEF Typed, TimeTyped
<1>2. Len(tasks) \in Nat /\ 1 \in 1..Len(tasks)
  BY <1>1, LenProperties, EmptySeq
<1>. QED BY <1>1, <1>2, QueueType

---------------------------------------------------------------------------
(* The top of the loop.                                                    *)
LEMMA CheckSendQueueType ==
  ASSUME TypeInv, CheckSendQueue PROVE TypeInv'
<1>. DEFINE fds == {SendTarget(list[i]) :
                      i \in {j \in Sending : \A k \in Stuck : j < k}}
<1>1. fds \subseteq Fd
  <2>1. ASSUME NEW i \in Sending, \A k \in Stuck : i < k
        PROVE  SendTarget(list[i]) \in Fd
    <3>1. i \in Int
      BY DEF Sending
    <3>2. i \notin Stuck
      BY <2>1, <3>1
    <3>. QED BY <3>2 DEF Stuck, IsOpen
  <2>. QED BY <2>1
<1>2. edge' = edge \cup (fds \cap ReadableFds) /\ armedOut' = armedOut \cup fds
  BY DEF CheckSendQueue, Modify
<1>. HIDE DEF fds
<1>3. NetTyped'
  BY <1>1, <1>2, ReadableFdsType DEF TypeInv, Typed, NetTyped, CheckSendQueue
<1>4. TimeTyped'
  BY ElapseTasks, Constants DEF TypeInv, Typed, TimeTyped, CheckSendQueue, timers
<1>5. RunTyped' /\ StoreTyped'
  BY DEF TypeInv, Typed, RunTyped, StoreTyped, CheckSendQueue, store
<1>6. ListenerHasCaller' /\ HandledNow' /\ TaskAtHead'
  BY DEF TypeInv, ListenerHasCaller, HandledNow, TaskAtHead, CheckSendQueue,
     store
<1>. QED BY <1>3, <1>4, <1>5, <1>6 DEF TypeInv, Typed

LEMMA EventsType ==
  ASSUME NEW outs PROVE \A fd : Events(fd, outs) \subseteq {"in", "out", "hup"}
BY DEF Events

LEMMA EpollWaitType ==
  ASSUME TypeInv, NEW outs, EpollWait(outs) PROVE TypeInv'
<1>1. Reported(outs) \subseteq EventSet
  BY EventsType DEF Reported, EventSet
<1>2. \A e \in Reported(outs) : e.fd = LsnFd => e.evs = {"in"} /\ backlog # <<>>
  BY Constants DEF Reported
<1>3. Typed'
  BY <1>1 DEF TypeInv, Typed, NetTyped, StoreTyped, TimeTyped, RunTyped,
     EpollWait, store, timers
<1>4. ListenerHasCaller' /\ HandledNow' /\ TaskAtHead'
  BY <1>2 DEF TypeInv, ListenerHasCaller, HandledNow, TaskAtHead, EpollWait,
     store, timers
<1>. QED BY <1>3, <1>4 DEF TypeInv

LEMMA StartTaskType ==
  ASSUME TypeInv, StartTask PROVE TypeInv'
<1>1. TimeTyped'
  BY ElapseTasks, Constants DEF TypeInv, Typed, TimeTyped, StartTask, timers
<1>2. Typed'
  BY <1>1 DEF TypeInv, Typed, NetTyped, StoreTyped, TimeTyped, RunTyped,
     StartTask, net, store
<1>3. TaskAtHead'
  BY ElapseTasks DEF TypeInv, TaskAtHead, StartTask, timers, TIME_UP
<1>4. ListenerHasCaller' /\ HandledNow'
  BY DEF TypeInv, ListenerHasCaller, HandledNow, StartTask, net, store
<1>. QED BY <1>2, <1>3, <1>4 DEF TypeInv

(* The first task again, as late as its procedure returned.                *)
LEMMA FinishTaskType ==
  ASSUME TypeInv, FinishTask PROVE TypeInv'
<1>1. TimeTyped'
  <2>1. CASE dtp = "freed"
    BY <2>1 DEF TypeInv, Typed, TimeTyped, FinishTask, timers
  <2>2. CASE dtp = "queued"
    <3>1. tasks # <<>> /\ Typed
      BY <2>2 DEF TypeInv, TaskAtHead, FinishTask
    <3>. DEFINE q == Delete(tasks, 1)
                t == [tasks[1] EXCEPT !.delta = ret]
    <3>2. q \in Seq(Entry) /\ skew \in Int /\ ret \in Int
      BY <3>1, FirstTaskType, DeleteMoves, Constants
      DEF Typed, TimeTyped, RunTyped
    <3>3. ret >= 0 => t \in Entry
      BY <3>1, <3>2, FirstTaskType DEF Entry
    <3>4. \/ ret >= 0 /\ tasks' = Insert(Elapse(q, skew), t) /\ skew' = 0
          \/ tasks' = q /\ skew' = skew
      BY <2>2 DEF FinishTask
    <3>. HIDE DEF q, t
    <3>5. Elapse(q, skew) \in Seq(Entry)
      BY <3>2, ElapseKeeps
    <3>6. ret >= 0 => Insert(Elapse(q, skew), t) \in Seq(Entry)
      BY <3>3, <3>5, InsertMoves
    <3>. QED BY <3>1, <3>2, <3>4, <3>6, Constants DEF Typed, TimeTyped
  <2>. QED BY <2>1, <2>2 DEF TypeInv, Typed, RunTyped
<1>2. Typed'
  BY <1>1 DEF TypeInv, Typed, NetTyped, StoreTyped, TimeTyped, RunTyped,
     FinishTask, net, store
<1>3. ListenerHasCaller' /\ HandledNow' /\ TaskAtHead'
  BY DEF TypeInv, ListenerHasCaller, HandledNow, TaskAtHead, FinishTask,
     net, store
<1>. QED BY <1>2, <1>3 DEF TypeInv

---------------------------------------------------------------------------
(* The events of a batch.                                                  *)
LEMMA OneListenerEvent ==
  ASSUME TypeInv, NEW e \in batch, NEW d \in batch, e.fd = LsnFd, d.fd = LsnFd
  PROVE  d = e
<1>1. e \in EventSet /\ d \in EventSet /\ e.evs = {"in"} /\ d.evs = {"in"}
  BY DEF TypeInv, Typed, RunTyped, ListenerHasCaller
<1>2. /\ e = [fd |-> e.fd, evs |-> e.evs]
      /\ d = [fd |-> d.fd, evs |-> d.evs]
  BY <1>1 DEF EventSet
<1>. QED BY <1>1, <1>2, Zenon

(* The other event of the listening socket is gone with this one.          *)
LEMMA AcceptType ==
  ASSUME TypeInv, NEW e \in batch, Accept(e) PROVE TypeInv'
<1>1. RunTyped' /\ TimeTyped' /\ TaskAtHead'
  BY DEF TypeInv, Typed, RunTyped, TimeTyped, TaskAtHead, Accept, Take, timers
<1>2. CASE LowestFree = NoFd
  <2>1. NetTyped' /\ StoreTyped' /\ ListenerHasCaller' /\ HandledNow'
    BY <1>2 DEF TypeInv, Typed, NetTyped, StoreTyped, ListenerHasCaller,
       HandledNow, Accept, Take, net, store
  <2>. QED BY <1>1, <2>1 DEF TypeInv, Typed
<1>3. CASE LowestFree # NoFd
  <2>. DEFINE c  == Head(backlog)
              fd == LowestFree
              h  == [sd |-> fd, proc |-> "rtsp", arg |-> c]
              s  == [NewSess EXCEPT !.sd = fd]
  <2>1. /\ owner' = [owner EXCEPT ![fd] = Tcp(c)]
        /\ backlog' = Tail(backlog)
        /\ sess' = [sess EXCEPT ![c] = s]
        /\ list' = <<c>> \o list
        /\ handlers' = Append(handlers, h)
        /\ edge' = IF Readable(c) THEN edge \cup {fd} ELSE edge
        /\ cli' = cli /\ lsnEdge' = lsnEdge /\ armedOut' = armedOut
    BY <1>3 DEF Accept
  <2>2. /\ backlog # <<>> /\ backlog \in Seq(Client) /\ handlers \in Seq(HandlerSet)
        /\ list \in Seq(Client) /\ owner \in [Fd -> OwnerSet]
        /\ sess \in [Client -> SessSet] /\ edge \subseteq Fd
    BY DEF TypeInv, Typed, NetTyped, StoreTyped, ListenerHasCaller, Accept
  <2>3. c \in Client /\ backlog' \in Seq(Client)
    BY <2>1, <2>2, HeadTailProperties
  <2>4. fd \in Fd
    BY <1>3, LowestFreeType
  <2>5. s \in SessSet
    BY <2>4, NewSessType DEF SessSet
  <2>6. h \in HandlerSet
    BY <2>3, <2>4 DEF HandlerSet
  <2>7. Tcp(c) \in OwnerSet
    BY <2>3 DEF OwnerSet
  <2>. HIDE DEF c, fd, h, s
  <2>8. list' \in Seq(Client)
    BY <2>1, <2>2, <2>3, ConcatProperties
  <2>9. handlers' \in Seq(HandlerSet)
    BY <2>1, <2>2, <2>6, AppendProperties
  <2>10. NetTyped' /\ StoreTyped'
    BY <2>1, <2>2, <2>3, <2>4, <2>5, <2>7, <2>8, <2>9
    DEF TypeInv, Typed, NetTyped, StoreTyped
  <2>11. ListenerHasCaller'
    <3>1. \A d \in batch' : d \in batch /\ d # e
      BY DEF Accept, Take
    <3>2. e.fd = LsnFd
      BY DEF Accept
    <3>. QED BY <3>1, <3>2, OneListenerEvent DEF ListenerHasCaller
  <2>12. HandledNow'
    BY DEF HandledNow, Accept, Take
  <2>. QED BY <1>1, <2>10, <2>11, <2>12 DEF TypeInv, Typed
<1>. QED BY <1>2, <1>3

LEMMA NoHandlerType ==
  ASSUME TypeInv, NEW e \in batch, NoHandler(e) PROVE TypeInv'
BY DEF TypeInv, Typed, NetTyped, StoreTyped, RunTyped, TimeTyped,
   ListenerHasCaller, HandledNow, TaskAtHead, NoHandler, Take,
   net, store, timers

LEMMA WritableType ==
  ASSUME TypeInv, NEW e \in batch, Writable(e) PROVE TypeInv'
<1>1. HandlerIndex(handlers, e.fd) # 0
  BY DEF Writable, Handles
<1>2. e.fd \in Fd
  BY <1>1, HandlerType DEF TypeInv
<1>3. Typed'
  BY <1>2 DEF TypeInv, Typed, NetTyped, StoreTyped, RunTyped, TimeTyped,
     Writable, Take, net, store, timers
<1>4. ListenerHasCaller' /\ HandledNow' /\ TaskAtHead'
  BY <1>1 DEF TypeInv, ListenerHasCaller, HandledNow, TaskAtHead, Writable,
     Take, net, store, timers
<1>. QED BY <1>3, <1>4 DEF TypeInv

(* A request is read.                                                      *)
LEMMA ReceiveEffect ==
  ASSUME TypeInv, NEW e \in batch, Receive(e)
  PROVE  \E d \in Client :
           LET c == Handler(e.fd).arg
           IN  /\ c \in Client /\ sess[c].sd \in SocketOf(d)
               /\ cli[d].rx # <<>> /\ Head(cli[d].rx) \in Request
               /\ Len(cli[d].rx) > 0
               /\ cli' = [cli EXCEPT ![d].rx = <<>>]
               /\ sess' = [sess EXCEPT ![c].buf = Head(cli[d].rx)]
               /\ CreateTask("req", c, 0)
<1>1. Handler(e.fd).arg \in Client
  BY HandlerType DEF TypeInv, Receive, Handles
<1>2. PICK d \in Peers(sess[Handler(e.fd).arg].sd) :
        /\ cli[d].rx # <<>>
        /\ cli' = [cli EXCEPT ![d].rx = <<>>]
        /\ sess' = [sess EXCEPT ![Handler(e.fd).arg].buf = Head(cli[d].rx)]
        /\ CreateTask("req", Handler(e.fd).arg, 0)
  BY DEF Receive
<1>3. d \in Client /\ sess[Handler(e.fd).arg].sd \in SocketOf(d)
  BY <1>2 DEF Peers
<1>4. cli[d] \in CliSet
  BY <1>3 DEF TypeInv, Typed, NetTyped
<1>5. Head(cli[d].rx) \in Request /\ Len(cli[d].rx) > 0
  BY <1>2, <1>4, CliType, HeadTailProperties, EmptySeq
<1>. QED BY <1>1, <1>2, <1>3, <1>5

LEMMA ReceiveType ==
  ASSUME TypeInv, NEW e \in batch, Receive(e) PROVE TypeInv'
<1>. DEFINE c == Handler(e.fd).arg
<1>1. PICK d \in Client :
        /\ c \in Client /\ Head(cli[d].rx) \in Request
        /\ cli' = [cli EXCEPT ![d].rx = <<>>]
        /\ sess' = [sess EXCEPT ![c].buf = Head(cli[d].rx)]
        /\ CreateTask("req", c, 0)
  BY ReceiveEffect
<1>2. HandlerIndex(handlers, e.fd) # 0 /\ e.fd \in Fd
  BY HandlerType DEF TypeInv, Receive, Handles
<1>. DEFINE b == Head(cli[d].rx)
<1>. HIDE DEF b, c
<1>3. cli' \in [Client -> CliSet]
  <2>1. [cli[d] EXCEPT !.rx = <<>>] \in CliSet
    <3>1. cli[d] \in CliSet
      BY DEF TypeInv, Typed, NetTyped
    <3>. QED BY <3>1, EmptyIsSeq DEF CliSet
  <2>. QED BY <1>1, <2>1 DEF TypeInv, Typed, NetTyped
<1>4. sess' \in [Client -> SessSet]
  <2>1. [sess[c] EXCEPT !.buf = b] \in SessSet
    <3>1. sess[c] \in SessSet /\ b \in Request
      BY <1>1 DEF TypeInv, Typed, StoreTyped, b
    <3>. QED BY <3>1 DEF SessSet
  <2>2. sess' = [sess EXCEPT ![c] = [sess[c] EXCEPT !.buf = b]]
    BY <1>1 DEF b
  <2>. QED BY <1>1, <2>1, <2>2 DEF TypeInv, Typed, StoreTyped
<1>5. TimeTyped'
  BY <1>1, CreateTaskType DEF TypeInv
<1>6. NetTyped' /\ StoreTyped' /\ RunTyped'
  BY <1>2, <1>3, <1>4 DEF TypeInv, Typed, NetTyped, StoreTyped, RunTyped,
     Receive, Take
<1>7. ListenerHasCaller' /\ HandledNow' /\ TaskAtHead'
  BY <1>2 DEF TypeInv, ListenerHasCaller, HandledNow, TaskAtHead, Receive, Take
<1>. QED BY <1>5, <1>6, <1>7 DEF TypeInv, Typed

---------------------------------------------------------------------------
(* destroy_rtsp_sess: of the things it changes, the types.                 *)
LEMMA DestroyType ==
  ASSUME TypeInv, NEW c \in Client, DestroyRtspSess(c)
  PROVE  /\ list' \in Seq(Client) /\ handlers' \in Seq(HandlerSet)
         /\ owner' \in [Fd -> OwnerSet] /\ cli' \in [Client -> CliSet]
         /\ edge' \subseteq Fd /\ armedOut' \subseteq Fd
         /\ tasks' \in Seq(Entry) /\ sess' \in [Client -> SessSet]
<1>1. CASE ~DoDestroy(c)
  BY <1>1, SMTT(60) DEF TypeInv, Typed, NetTyped, StoreTyped, TimeTyped, DestroyRtspSess
<1>2. CASE DoDestroy(c)
  <2>. DEFINE hs     == HandlersWithout(c)
              closed == Descriptors(c)
              ts     == DeleteArg(tasks, c)
  <2>1. /\ list' = RemoveFirst(list, c)
        /\ handlers' = hs
        /\ owner' = [fd \in Fd |-> IF fd \in closed THEN Unused ELSE owner[fd]]
        /\ cli' = [d \in Client |->
                     IF d = c THEN Dropped(cli[d])
                     ELSE IF SocketOf(d) \cap closed # {}
                       THEN [cli[d] EXCEPT !.conn = "cut", !.rx = <<>>]
                     ELSE cli[d]]
        /\ edge' = edge \ closed
        /\ armedOut' = armedOut \ closed
        /\ tasks' = ts
        /\ sess' = [sess EXCEPT ![c] = NewSess]
    BY <1>2 DEF DoDestroy, DestroyLeaving
  <2>2. hs \in Seq(HandlerSet)
    BY DeregisterType DEF HandlersWithout, TypeInv, Typed, StoreTyped
  <2>3. ts \in Seq(Entry)
    BY DeleteArgKeeps DEF TypeInv, Typed, TimeTyped
  <2>4. list' \in Seq(Client)
    BY <2>1, RemoveFirstType DEF TypeInv, Typed, StoreTyped
  <2>. HIDE DEF hs, closed, ts
  <2>5. cli' \in [Client -> CliSet]
    <3>1. ASSUME NEW d \in Client
          PROVE  /\ cli[d] \in CliSet
                 /\ [cli[d] EXCEPT !.conn = "cut", !.rx = <<>>] \in CliSet
                 /\ Dropped(cli[d]) \in CliSet
      <4>1. cli[d] \in CliSet
        BY DEF TypeInv, Typed, NetTyped
      <4>2. Dropped(cli[d]) \in CliSet
        BY <4>1, DroppedType
      <4>. QED BY <4>1, <4>2, EmptyIsSeq DEF CliSet
    <3>. QED BY <2>1, <3>1
  <2>6. owner' \in [Fd -> OwnerSet]
    BY <2>1 DEF TypeInv, Typed, StoreTyped, OwnerSet
  <2>7. sess' \in [Client -> SessSet]
    BY <2>1, NewSessType DEF TypeInv, Typed, StoreTyped
  <2>. QED BY <2>1, <2>2, <2>3, <2>4, <2>5, <2>6, <2>7
           DEF TypeInv, Typed, NetTyped
<1>. QED BY <1>1, <1>2

(* Events that end in destroy_rtsp_sess, or in nothing.                    *)
LEMMA HangupChoice ==
  ASSUME Typed, NEW e \in batch, Hangup(e)
  PROVE  \/ UNCHANGED <<list, handlers, owner, cli, edge, armedOut, tasks, sess>>
         \/ \E i \in 1..Len(list) : /\ list[i] \in Client /\ list[i] \in Listed
                                    /\ DestroyRtspSess(list[i])
<1>. DEFINE at == {i \in 1..Len(list) : ContainsSd(list[i], e.fd)}
            i  == CHOOSE k \in at : \A j \in at : k <= j
<1>1. CASE at = {}
  BY <1>1 DEF Hangup
<1>2. CASE at # {}
  <2>1. DestroyRtspSess(list[i])
    BY <1>2 DEF Hangup
  <2>2. list \in Seq(Client) /\ Len(list) \in Nat
    BY LenProperties DEF Typed, StoreTyped
  <2>3. at \in SUBSET Nat
    BY <2>2
  <2>4. i \in at
    <3>. HIDE DEF at
    <3>1. \E k \in at : \A j \in at : k <= j
      BY <1>2, <2>3, LeastNat
    <3>. QED BY <3>1
  <2>5. i \in 1..Len(list)
    BY <2>4
  <2>. HIDE DEF i
  <2>6. list[i] \in Client /\ list[i] \in Listed
    BY <2>2, <2>5, ElementOfSeq, SeqValues DEF Listed
  <2>. QED BY <2>1, <2>5, <2>6
<1>. QED BY <1>1, <1>2

LEMMA HangupType ==
  ASSUME TypeInv, NEW e \in batch, Hangup(e) PROVE TypeInv'
<1>1. /\ list' \in Seq(Client) /\ handlers' \in Seq(HandlerSet)
      /\ owner' \in [Fd -> OwnerSet] /\ cli' \in [Client -> CliSet]
      /\ edge' \subseteq Fd /\ armedOut' \subseteq Fd
      /\ tasks' \in Seq(Entry) /\ sess' \in [Client -> SessSet]
  <2>1. CASE UNCHANGED <<list, handlers, owner, cli, edge, armedOut, tasks, sess>>
    BY <2>1 DEF TypeInv, Typed, NetTyped, StoreTyped, TimeTyped
  <2>2. CASE \E i \in 1..Len(list) : list[i] \in Client /\ DestroyRtspSess(list[i])
    BY <2>2, DestroyType
  <2>. QED BY <2>1, <2>2, HangupChoice DEF TypeInv
<1>2. Typed'
  BY <1>1 DEF TypeInv, Typed, NetTyped, StoreTyped, TimeTyped, RunTyped,
     Hangup, Take
<1>3. ListenerHasCaller' /\ HandledNow' /\ TaskAtHead'
  BY DEF TypeInv, ListenerHasCaller, HandledNow, TaskAtHead, Hangup, Take
<1>. QED BY <1>2, <1>3 DEF TypeInv

LEMMA ReceiveFailsType ==
  ASSUME TypeInv, NEW e \in batch, ReceiveFails(e) PROVE TypeInv'
<1>1. Handler(e.fd).arg \in Client
  BY HandlerType DEF TypeInv, ReceiveFails, NothingReceived, Handles
<1>2. /\ list' \in Seq(Client) /\ handlers' \in Seq(HandlerSet)
      /\ owner' \in [Fd -> OwnerSet] /\ cli' \in [Client -> CliSet]
      /\ edge' \subseteq Fd /\ armedOut' \subseteq Fd
      /\ tasks' \in Seq(Entry) /\ sess' \in [Client -> SessSet]
  BY <1>1, DestroyType DEF ReceiveFails
<1>3. Typed'
  BY <1>2 DEF TypeInv, Typed, NetTyped, StoreTyped, TimeTyped, RunTyped,
     ReceiveFails, NothingReceived, Take
<1>4. ListenerHasCaller' /\ HandledNow' /\ TaskAtHead'
  BY DEF TypeInv, ListenerHasCaller, HandledNow, TaskAtHead, ReceiveFails,
     NothingReceived, Take
<1>. QED BY <1>3, <1>4 DEF TypeInv

(* EPOLLOUT: one buffer is sent.                                           *)
LEMMA SentEffect ==
  ASSUME TypeInv, Consume
  PROVE  LET h   == Handler(now)
             c   == h.arg
             out == sess[c].out
             fd  == SendTarget(c)
         IN  /\ now # NoFd /\ pc = "events" /\ h \in HandlerSet /\ c \in Client
             /\ out \in Seq({"resp", "rtp"})
             /\ \/ UNCHANGED <<net, store, tasks>>
                \/ /\ out # <<>> /\ DestroyRtspSess(c)
                   /\ UNCHANGED <<backlog, lsnEdge>>
                \/ /\ out # <<>> /\ Consumes(h, Head(out)) /\ IsOpen(fd)
                   /\ sess' = [sess EXCEPT ![c].out = Tail(out)]
                   /\ cli' = [d \in Client |->
                                IF d \in Peers(fd) /\ Head(out) = "resp"
                                THEN [cli[d] EXCEPT !.owed = @ - 1] ELSE cli[d]]
                   /\ Modify({fd}, FALSE)
                   /\ UNCHANGED <<backlog, lsnEdge, owner, list, handlers, tasks>>
<1>1. now # NoFd /\ pc = "events" /\ HandlerIndex(handlers, now) # 0
  BY DEF TypeInv, HandledNow, Consume
<1>2. Handler(now) \in HandlerSet /\ Handler(now).arg \in Client
  BY <1>1, HandlerType DEF TypeInv
<1>3. sess[Handler(now).arg].out \in Seq({"resp", "rtp"})
  BY <1>2, SessType DEF TypeInv, Typed, StoreTyped
<1>. QED BY <1>1, <1>2, <1>3 DEF Consume

(* The buffer is taken out of the queue.                                   *)
LEMMA ConsumeType ==
  ASSUME TypeInv, Consume PROVE TypeInv'
<1>. DEFINE c   == Handler(now).arg
            out == sess[c].out
            fd  == SendTarget(c)
<1>1. c \in Client /\ out \in Seq({"resp", "rtp"}) /\ pc = "events"
  BY SentEffect
<1>2. CASE UNCHANGED <<net, store, tasks>>
  BY <1>2 DEF TypeInv, Typed, NetTyped, StoreTyped, RunTyped, TimeTyped, Consume,
     ListenerHasCaller, HandledNow, TaskAtHead, net, store
<1>3. CASE DestroyRtspSess(c) /\ UNCHANGED <<backlog, lsnEdge>>
  <2>1. /\ list' \in Seq(Client) /\ handlers' \in Seq(HandlerSet)
        /\ owner' \in [Fd -> OwnerSet] /\ cli' \in [Client -> CliSet]
        /\ edge' \subseteq Fd /\ armedOut' \subseteq Fd
        /\ tasks' \in Seq(Entry) /\ sess' \in [Client -> SessSet]
    BY <1>1, <1>3, DestroyType
  <2>2. Typed'
    BY <1>3, <2>1 DEF TypeInv, Typed, NetTyped, StoreTyped, TimeTyped, RunTyped,
       Consume
  <2>3. ListenerHasCaller' /\ HandledNow' /\ TaskAtHead'
    BY <1>1, <1>3 DEF TypeInv, ListenerHasCaller, HandledNow, TaskAtHead, Consume
  <2>. QED BY <2>2, <2>3 DEF TypeInv
<1>4. CASE /\ out # <<>>
           /\ sess' = [sess EXCEPT ![c].out = Tail(out)]
           /\ cli' = [d \in Client |->
                        IF d \in Peers(fd) /\ Head(out) = "resp"
                        THEN [cli[d] EXCEPT !.owed = @ - 1] ELSE cli[d]]
           /\ Modify({fd}, FALSE)
           /\ UNCHANGED <<backlog, lsnEdge, owner, list, handlers, tasks>>
  <2>1. Tail(out) \in Seq({"resp", "rtp"})
    BY <1>1, <1>4, HeadTailProperties
  <2>2. sess' \in [Client -> SessSet]
    <3>. DEFINE t == Tail(out)
    <3>1. sess' = [sess EXCEPT ![c] = [sess[c] EXCEPT !.out = t]]
      BY <1>4
    <3>2. sess[c] \in SessSet /\ t \in Seq({"resp", "rtp"})
      BY <1>1, <2>1 DEF TypeInv, Typed, StoreTyped
    <3>. HIDE DEF t, c
    <3>3. [sess[c] EXCEPT !.out = t] \in SessSet
      BY <3>2 DEF SessSet
    <3>. QED BY <1>1, <3>1, <3>3 DEF TypeInv, Typed, StoreTyped
  <2>3. cli' \in [Client -> CliSet]
    <3>1. ASSUME NEW d \in Client
          PROVE  /\ cli[d] \in CliSet
                 /\ [cli[d] EXCEPT !.owed = @ - 1] \in CliSet
      <4>1. cli[d] \in CliSet
        BY DEF TypeInv, Typed, NetTyped
      <4>2. cli[d].owed - 1 \in Int
        BY <4>1, CliType
      <4>. DEFINE o == cli[d].owed - 1
      <4>. HIDE DEF o
      <4>3. [cli[d] EXCEPT !.owed = o] \in CliSet
        BY <4>1, <4>2 DEF CliSet, o
      <4>. QED BY <4>1, <4>3 DEF o
    <3>. HIDE DEF fd, out
    <3>. QED BY <1>4, <3>1
  <2>4. edge' \subseteq Fd /\ armedOut' \subseteq Fd
    BY <1>4, ReadableFdsType, SMTT(60) DEF TypeInv, Typed, NetTyped, Modify
  <2>5. Typed'
    BY <1>4, <2>2, <2>3, <2>4
    DEF TypeInv, Typed, NetTyped, StoreTyped, TimeTyped, RunTyped, Consume
  <2>6. ListenerHasCaller' /\ HandledNow' /\ TaskAtHead'
    BY <1>1, <1>4 DEF TypeInv, ListenerHasCaller, HandledNow, TaskAtHead, Consume
  <2>. QED BY <2>5, <2>6 DEF TypeInv
<1>. QED BY <1>2, <1>3, <1>4, SentEffect

---------------------------------------------------------------------------
(* The task that fetches frames for c will go on doing so.                 *)
Pumping(c) == /\ sess[c].state = "PLAYING" /\ sess[c].handling = "INIT"
              /\ "other" \notin Frame

(* A request handled, whatever the method: the session it leaves.          *)
Outcomes == {"HANDLED", "ERROR", "FAILED", "RETRY"}

(* What every method has in common: handle_rtsp_req after the method       *)
(* returns.                                                                *)
LEMMA HandledEffect ==
  ASSUME Typed, NEW c \in Client, NEW s \in SessSet, NEW outcome \in Outcomes,
         Handled(c, s, outcome)
  PROVE  /\ sess' \in [Client -> SessSet]
         /\ \A d \in Client : d # c => sess'[d] = sess[d]
         /\ sess'[c].state = s.state /\ sess'[c].sd = s.sd
         /\ sess'[c].intlvd = s.intlvd /\ sess'[c].udp = s.udp
         /\ sess'[c].buf = s.buf /\ sess'[c].streaming = s.streaming
         /\ sess'[c].req = Current(c)
         /\ IF outcome = "RETRY"
            THEN sess'[c].handling = "RETRY" /\ ret' = Ms40
            ELSE sess'[c].handling = "INIT" /\ ret' = -1
         /\ sess'[c].out = IF outcome \in {"HANDLED", "ERROR"}
                           THEN Append(s.out, "resp") ELSE s.out
         /\ pc' = "ran" /\ dtp' = "queued"
         /\ UNCHANGED <<net, list, batch, now>>
<1>. DEFINE hd == IF outcome = "RETRY" THEN "RETRY" ELSE "INIT"
            o  == IF outcome \in {"HANDLED", "ERROR"}
                  THEN Append(s.out, "resp") ELSE s.out
            rq == Current(c)
            t  == [s EXCEPT !.req = rq, !.handling = hd, !.out = o]
<1>1. /\ sess' = [sess EXCEPT ![c] = t]
      /\ ret' = IF outcome = "RETRY" THEN Ms40 ELSE -1
      /\ pc' = "ran" /\ dtp' = "queued" /\ UNCHANGED <<net, list, batch, now>>
  BY DEF Handled, HandledReplying, Returns
<1>2. hd \in {"INIT", "RETRY"} /\ (hd = "RETRY" <=> outcome = "RETRY")
  OBVIOUS
<1>3. o \in Seq({"resp", "rtp"})
  <2>1. s.out \in Seq({"resp", "rtp"})
    BY SessType
  <2>2. Append(s.out, "resp") \in Seq({"resp", "rtp"})
    BY <2>1, AppendProperties
  <2>. QED BY <2>1, <2>2
<1>4. rq \in Request \cup {"none"}
  <2>1. sess[c] \in SessSet
    BY DEF Typed, StoreTyped
  <2>. QED BY <2>1, SessType DEF Current
<1>5. /\ o = IF outcome \in {"HANDLED", "ERROR"}
             THEN Append(s.out, "resp") ELSE s.out
      /\ rq = Current(c)
  OBVIOUS
<1>. HIDE DEF hd, o, rq
<1>6. /\ t \in SessSet
      /\ t.state = s.state /\ t.sd = s.sd /\ t.intlvd = s.intlvd
      /\ t.udp = s.udp /\ t.buf = s.buf /\ t.streaming = s.streaming
      /\ t.req = rq /\ t.handling = hd /\ t.out = o
  BY <1>2, <1>3, <1>4 DEF SessSet
<1>. HIDE DEF t
<1>7. sess' \in [Client -> SessSet] /\ sess'[c] = t
      /\ \A d \in Client : d # c => sess'[d] = sess[d]
  BY <1>1, <1>6 DEF Typed, StoreTyped
<1>. QED BY <1>1, <1>2, <1>5, <1>6, <1>7

(* The methods differ in what they do to the session before that, and in   *)
(* the task or the socket they add.                                        *)
HandleRequest ==
  \/ HandleOther \/ HandleTransport \/ HandleDescribe
  \/ HandleSetupUdp \/ HandleSetupTcp
  \/ HandlePlay \/ HandlePause \/ HandleTeardown

AddsTask(c, s) ==
  \/ UNCHANGED timers
  \/ CreateTask("prefetch", c, 0) /\ s.state = "PLAYING"
  \/ CreateTask("destroy", c, Ms10) /\ s.state = "INIT"

(* The descriptors of a session are those it had, but for SETUP and for    *)
(* what else says that it is interleaved.                                  *)
AddsSocket(c, s) ==
  \/ /\ UNCHANGED <<owner, handlers>>
     /\ \/ s.udp = sess[c].udp /\ (s.intlvd => sess[c].intlvd)
        \/ Current(c) \in {"setupTcp", "infoTcp"}
  \/ \E m \in Track, fd \in Fd :
       /\ fd = LowestFree /\ owner[fd] = Unused
       /\ Current(c) = SetupOf[m]
       /\ ~s.intlvd /\ s.udp = [sess[c].udp EXCEPT ![m] = fd]
       /\ owner' = [owner EXCEPT ![fd] = Udp(c)]
       /\ handlers' = Append(handlers, [sd |-> fd, proc |-> "rtp", arg |-> c])

(* What they may do to the stream and to the state of the session.         *)
SetsState(c, s, outcome) ==
  \/ s.state = sess[c].state /\ s.streaming = sess[c].streaming
  \/ s.state = sess[c].state /\ Current(c) = "describe"
  \/ Current(c) \in {"setupV", "setupA", "setupTcp"} /\ s.streaming
     /\ s.state \in {sess[c].state, "READY"}
  \/ s.state = "PLAYING" /\ sess[c].state # "INIT" /\ Current(c) = "play"
     /\ CreateTask("prefetch", c, 0) /\ s.streaming = sess[c].streaming
  \/ s.state = "READY" /\ sess[c].state = "PLAYING" /\ Current(c) = "pause"
     /\ s.streaming = sess[c].streaming
  \/ s.state = "INIT" /\ Current(c) = "teardown"
     /\ s.streaming = sess[c].streaming

Handling(c, s, outcome) ==
  /\ pc = "run" /\ tasks # <<>> /\ tasks[1].delta = 0
  /\ tasks[1].proc = "req" /\ c = tasks[1].arg /\ c \in Client
  /\ s \in SessSet /\ outcome \in Outcomes
  /\ s.sd = sess[c].sd /\ s.buf = sess[c].buf /\ s.out = sess[c].out
  /\ outcome = "RETRY" => Current(c) = "describe"
  /\ Handled(c, s, outcome)
  /\ AddsTask(c, s) /\ AddsSocket(c, s) /\ SetsState(c, s, outcome)

(* The session of the task that runs.                                      *)
LEMMA RunsTask ==
  ASSUME TypeInv, pc = "run"
  PROVE  /\ tasks # <<>> /\ tasks[1].delta = 0 /\ tasks[1].arg \in Client
         /\ sess[tasks[1].arg] \in SessSet
         /\ sess[tasks[1].arg].udp \in [Track -> Fd \cup {NoFd}]
<1>1. tasks # <<>> /\ tasks[1].delta = 0
  BY DEF TypeInv, TaskAtHead
<1>2. tasks[1].arg \in Client
  BY <1>1, FirstTaskType DEF TypeInv
<1>. QED BY <1>1, <1>2, SessType DEF TypeInv, Typed, StoreTyped

(* Each method is of the form of Handling.                                 *)
LEMMA OtherIsHandling ==
  ASSUME TypeInv, HandleOther
  PROVE  \E c, s, outcome : Handling(c, s, outcome)
<1>. DEFINE c == tasks[1].arg
<1>1. PICK m \in {"info", "bad", "junk"} :
        /\ HandleRtspReq(m)
        /\ Handled(c, sess[c], CASE m = "info" -> "HANDLED"
                                 [] m = "bad"  -> "ERROR"
                                 [] m = "junk" -> "FAILED")
  BY DEF HandleOther
<1>2. PICK outcome \in {"HANDLED", "ERROR", "FAILED"} : Handled(c, sess[c], outcome)
  <2>1. CASE m = "info"
    BY <1>1, <2>1
  <2>2. CASE m = "bad"
    BY <1>1, <2>2
  <2>3. CASE m = "junk"
    BY <1>1, <2>3
  <2>. QED BY <2>1, <2>2, <2>3
<1>3. pc = "run" /\ tasks[1].proc = "req" /\ UNCHANGED <<timers, owner, handlers>>
  BY <1>1 DEF HandleOther, HandleRtspReq, Runs
<1>4. Handling(c, sess[c], outcome)
  BY <1>2, <1>3, RunsTask
  DEF Handling, AddsTask, AddsSocket, SetsState, Outcomes
<1>. QED BY <1>4

LEMMA TransportIsHandling ==
  ASSUME TypeInv, HandleTransport
  PROVE  \E c, s, outcome : Handling(c, s, outcome)
<1>. DEFINE c    == tasks[1].arg
            I(b) == [sess[c] EXCEPT !.intlvd = b]
<1>1. PICK m \in {"infoUdp", "infoTcp"} :
        HandleRtspReq(m) /\ Handled(c, I(m = "infoTcp"), "HANDLED")
  BY DEF HandleTransport
<1>. DEFINE s == I(m = "infoTcp")
<1>2. /\ pc = "run" /\ tasks[1].proc = "req" /\ Current(c) = m
      /\ UNCHANGED <<timers, owner, handlers>>
  BY <1>1 DEF HandleTransport, HandleRtspReq, Runs
<1>3. /\ s \in SessSet /\ s.sd = sess[c].sd /\ s.buf = sess[c].buf
      /\ s.out = sess[c].out /\ s.udp = sess[c].udp
      /\ s.state = sess[c].state /\ s.streaming = sess[c].streaming
      /\ s.intlvd = (m = "infoTcp")
  BY <1>2, RunsTask DEF SessSet
<1>4. Handled(c, s, "HANDLED")
  BY <1>1
<1>. HIDE DEF s
<1>5. AddsSocket(c, s)
  BY <1>2, <1>3 DEF AddsSocket
<1>6. Handling(c, s, "HANDLED")
  BY <1>2, <1>3, <1>4, <1>5, RunsTask
  DEF Handling, AddsTask, SetsState, Outcomes
<1>. QED BY <1>6

LEMMA DescribeIsHandling ==
  ASSUME TypeInv, HandleDescribe
  PROVE  \E c, s, outcome : Handling(c, s, outcome)
<1>. DEFINE c    == tasks[1].arg
            Str(b) == [sess[c] EXCEPT !.streaming = b]
<1>1. PICK b \in BOOLEAN, outcome \in {"FAILED", "HANDLED", "RETRY"} :
        Handled(c, Str(b), outcome)
  BY DEF HandleDescribe
<1>2. /\ pc = "run" /\ tasks[1].proc = "req" /\ Current(c) = "describe"
      /\ UNCHANGED <<timers, owner, handlers>>
  BY DEF HandleDescribe, HandleRtspReq, Runs
<1>. DEFINE s == Str(b)
<1>3. /\ s \in SessSet /\ s.sd = sess[c].sd /\ s.buf = sess[c].buf
      /\ s.out = sess[c].out /\ s.udp = sess[c].udp
      /\ s.intlvd = sess[c].intlvd /\ s.state = sess[c].state
  BY <1>2, RunsTask DEF SessSet
<1>4. Handled(c, s, outcome)
  BY <1>1
<1>. HIDE DEF s
<1>5. Handling(c, s, outcome)
  BY <1>2, <1>3, <1>4, RunsTask
  DEF Handling, AddsTask, AddsSocket, SetsState, Outcomes
<1>. QED BY <1>5

(* What create_rtp_sess and the method after it leave of a session.        *)
LEMMA SetupSession ==
  ASSUME NEW c, NEW u \in SessSet, SetupDone(c, u)
  PROVE  \E s \in SessSet, outcome \in {"FAILED", "HANDLED"} :
           /\ Handled(c, s, outcome)
           /\ s.sd = u.sd /\ s.buf = u.buf /\ s.out = u.out
           /\ s.udp = u.udp /\ s.intlvd = u.intlvd
           /\ \/ s.state = u.state /\ s.streaming = u.streaming
              \/ s.streaming /\ s.state \in {u.state, "READY"}
<1>1. CASE Handled(c, u, "FAILED")
  BY <1>1
<1>2. CASE ~Handled(c, u, "FAILED")
  <2>. DEFINE st == IF u.state = "PLAYING" THEN u.state ELSE "READY"
              s  == [u EXCEPT !.streaming = TRUE, !.state = st]
  <2>1. Handled(c, s, "HANDLED")
    BY <1>2 DEF SetupDone
  <2>2. st \in {"READY", "PLAYING"} /\ st \in {u.state, "READY"}
    OBVIOUS
  <2>. HIDE DEF st
  <2>3. /\ s \in SessSet /\ s.sd = u.sd /\ s.buf = u.buf /\ s.out = u.out
        /\ s.udp = u.udp /\ s.intlvd = u.intlvd /\ s.streaming
        /\ s.state \in {u.state, "READY"}
    BY <2>2 DEF SessSet
  <2>. HIDE DEF s
  <2>. QED BY <2>1, <2>3
<1>. QED BY <1>1, <1>2

LEMMA SetupUdpIsHandling ==
  ASSUME TypeInv, HandleSetupUdp
  PROVE  \E c, s, outcome : Handling(c, s, outcome)
<1>. DEFINE c  == tasks[1].arg
            fd == LowestFree
            s0 == [sess[c] EXCEPT !.intlvd = FALSE]
<1>1. PICK m \in Track :
        /\ HandleRtspReq(SetupOf[m])
        /\ IF fd = NoFd
           THEN /\ Handled(c, s0, "FAILED")
                /\ UNCHANGED <<owner, handlers>>
           ELSE /\ SetupDone(c, [s0 EXCEPT !.udp[m] = fd])
                /\ owner' = [owner EXCEPT ![fd] = Udp(c)]
                /\ handlers' = Append(handlers,
                                 [sd |-> fd, proc |-> "rtp", arg |-> c])
  BY DEF HandleSetupUdp
<1>2. /\ pc = "run" /\ tasks[1].proc = "req" /\ Current(c) = SetupOf[m]
      /\ UNCHANGED timers
  BY <1>1 DEF HandleSetupUdp, HandleRtspReq, Runs
<1>3. sess[c] \in SessSet /\ sess[c].udp \in [Track -> Fd \cup {NoFd}]
  BY <1>2, RunsTask
<1>4. /\ s0 \in SessSet /\ s0.sd = sess[c].sd /\ s0.buf = sess[c].buf
      /\ s0.out = sess[c].out /\ s0.udp = sess[c].udp /\ ~s0.intlvd
      /\ s0.state = sess[c].state /\ s0.streaming = sess[c].streaming
  BY <1>3 DEF SessSet
<1>5. Current(c) \in {"setupV", "setupA", "setupTcp"}
  BY <1>2 DEF SetupOf, Track
<1>. HIDE DEF s0
<1>6. CASE fd = NoFd
  <2>1. Handling(c, s0, "FAILED")
    BY <1>1, <1>2, <1>4, <1>6, RunsTask
    DEF Handling, AddsTask, AddsSocket, SetsState, Outcomes
  <2>. QED BY <2>1
<1>7. CASE fd # NoFd
  <2>1. fd \in Fd /\ owner[fd] = Unused /\ fd = LowestFree
    BY <1>7, LowestFreeType
  <2>. HIDE DEF fd
  <2>. DEFINE udp == [sess[c].udp EXCEPT ![m] = fd]
              u   == [s0 EXCEPT !.udp = udp]
  <2>2. udp \in [Track -> Fd \cup {NoFd}]
    BY <1>3, <2>1
  <2>3. [s0 EXCEPT !.udp[m] = fd] = u
    BY <1>4
  <2>4. udp = [sess[c].udp EXCEPT ![m] = fd]
    OBVIOUS
  <2>. HIDE DEF udp
  <2>5. /\ u \in SessSet /\ u.sd = sess[c].sd /\ u.buf = sess[c].buf
        /\ u.out = sess[c].out /\ u.udp = udp /\ ~u.intlvd
        /\ u.state = sess[c].state /\ u.streaming = sess[c].streaming
    BY <1>4, <2>2, SMTT(60) DEF SessSet
  <2>6. SetupDone(c, u)
    BY <1>1, <1>7, <2>3, SMTT(60)
  <2>. HIDE DEF u
  <2>7. PICK s \in SessSet, outcome \in {"FAILED", "HANDLED"} :
          /\ Handled(c, s, outcome)
          /\ s.sd = u.sd /\ s.buf = u.buf /\ s.out = u.out
          /\ s.udp = u.udp /\ s.intlvd = u.intlvd
          /\ \/ s.state = u.state /\ s.streaming = u.streaming
             \/ s.streaming /\ s.state \in {u.state, "READY"}
    BY <2>5, <2>6, SetupSession
  <2>8. AddsSocket(c, s)
    <3>1. /\ ~s.intlvd /\ s.udp = [sess[c].udp EXCEPT ![m] = fd]
          /\ owner' = [owner EXCEPT ![fd] = Udp(c)]
          /\ handlers' = Append(handlers,
                           [sd |-> fd, proc |-> "rtp", arg |-> c])
      BY <1>1, <1>7, <2>4, <2>5, <2>7
    <3>. QED BY <1>2, <2>1, <3>1, Zenon DEF AddsSocket
  <2>9. SetsState(c, s, outcome)
    BY <1>5, <2>5, <2>7 DEF SetsState
  <2>10. Handling(c, s, outcome)
    BY <1>2, <2>5, <2>7, <2>8, <2>9, RunsTask DEF Handling, AddsTask, Outcomes
  <2>. QED BY <2>10
<1>. QED BY <1>6, <1>7

LEMMA SetupTcpIsHandling ==
  ASSUME TypeInv, HandleSetupTcp
  PROVE  \E c, s, outcome : Handling(c, s, outcome)
<1>. DEFINE c   == tasks[1].arg
            s0  == [sess[c] EXCEPT !.intlvd = TRUE]
            udp == [sess[c].udp EXCEPT !["V"] = NoFd]
            u   == [s0 EXCEPT !.udp = udp]
<1>1. /\ pc = "run" /\ tasks[1].proc = "req" /\ Current(c) = "setupTcp"
      /\ UNCHANGED <<timers, owner, handlers>>
      /\ SetupDone(c, [sess[c] EXCEPT !.intlvd = TRUE, !.udp["V"] = NoFd])
  BY DEF HandleSetupTcp, HandleRtspReq, Runs
<1>2. sess[c] \in SessSet /\ sess[c].udp \in [Track -> Fd \cup {NoFd}]
  BY <1>1, RunsTask
<1>3. udp \in [Track -> Fd \cup {NoFd}]
  BY <1>2 DEF Track
<1>4. [sess[c] EXCEPT !.intlvd = TRUE, !.udp["V"] = NoFd]
        = [s0 EXCEPT !.udp["V"] = NoFd]
  OBVIOUS
<1>5. /\ s0 \in SessSet /\ s0.sd = sess[c].sd /\ s0.buf = sess[c].buf
      /\ s0.out = sess[c].out /\ s0.udp = sess[c].udp
      /\ s0.state = sess[c].state /\ s0.streaming = sess[c].streaming
  BY <1>2 DEF SessSet
<1>. HIDE DEF s0
<1>6. [s0 EXCEPT !.udp["V"] = NoFd] = u
  BY <1>5
<1>. HIDE DEF udp
<1>7. /\ u \in SessSet /\ u.sd = sess[c].sd /\ u.buf = sess[c].buf
      /\ u.out = sess[c].out
      /\ u.state = sess[c].state /\ u.streaming = sess[c].streaming
  BY <1>3, <1>5 DEF SessSet
<1>8. SetupDone(c, u)
  BY <1>1, <1>4, <1>6, SMTT(60)
<1>. HIDE DEF u
<1>9. PICK s \in SessSet, outcome \in {"FAILED", "HANDLED"} :
        /\ Handled(c, s, outcome)
        /\ s.sd = u.sd /\ s.buf = u.buf /\ s.out = u.out
        /\ \/ s.state = u.state /\ s.streaming = u.streaming
           \/ s.streaming /\ s.state \in {u.state, "READY"}
  BY <1>7, <1>8, SetupSession
<1>10. Handling(c, s, outcome)
  BY <1>1, <1>7, <1>9, RunsTask
  DEF Handling, AddsTask, AddsSocket, SetsState, Outcomes
<1>. QED BY <1>10

LEMMA PlayIsHandling ==
  ASSUME TypeInv, HandlePlay
  PROVE  \E c, s, outcome : Handling(c, s, outcome)
<1>. DEFINE c == tasks[1].arg
            s == [sess[c] EXCEPT !.state = "PLAYING"]
<1>1. /\ pc = "run" /\ tasks[1].proc = "req" /\ Current(c) = "play"
      /\ UNCHANGED <<owner, handlers>>
      /\ IF sess[c].state \in {"INIT"}
         THEN Handled(c, sess[c], "ERROR") /\ UNCHANGED timers
         ELSE Handled(c, s, "HANDLED") /\ CreateTask("prefetch", c, 0)
  BY DEF HandlePlay, HandlePlayUnless, HandleRtspReq, Runs
<1>2. sess[c] \in SessSet
  BY <1>1, RunsTask
<1>3. CASE sess[c].state \in {"INIT"}
  <2>1. Handling(c, sess[c], "ERROR")
    BY <1>1, <1>2, <1>3, RunsTask
    DEF Handling, AddsTask, AddsSocket, SetsState, Outcomes
  <2>. QED BY <2>1
<1>4. CASE sess[c].state \notin {"INIT"}
  <2>1. /\ s \in SessSet /\ s.sd = sess[c].sd /\ s.buf = sess[c].buf
        /\ s.out = sess[c].out /\ s.udp = sess[c].udp
        /\ s.intlvd = sess[c].intlvd /\ s.streaming = sess[c].streaming
        /\ s.state = "PLAYING"
    BY <1>2 DEF SessSet
  <2>2. Handled(c, s, "HANDLED") /\ CreateTask("prefetch", c, 0)
    BY <1>1, <1>4
  <2>. HIDE DEF s
  <2>3. Handling(c, s, "HANDLED")
    BY <1>1, <1>4, <2>1, <2>2, RunsTask
    DEF Handling, AddsTask, AddsSocket, SetsState, Outcomes
  <2>. QED BY <2>3
<1>. QED BY <1>3, <1>4

LEMMA PauseIsHandling ==
  ASSUME TypeInv, HandlePause
  PROVE  \E c, s, outcome : Handling(c, s, outcome)
<1>. DEFINE c  == tasks[1].arg
            st == IF sess[c].state = "PLAYING" THEN "READY" ELSE sess[c].state
            s  == [sess[c] EXCEPT !.state = st]
<1>1. /\ pc = "run" /\ tasks[1].proc = "req" /\ Current(c) = "pause"
      /\ UNCHANGED <<timers, owner, handlers>>
      /\ Handled(c, s, "HANDLED")
  BY DEF HandlePause, HandleRtspReq, Runs
<1>2. sess[c] \in SessSet
  BY <1>1, RunsTask
<1>3. /\ st \in {"INIT", "READY", "PLAYING"}
      /\ st = sess[c].state \/ (st = "READY" /\ sess[c].state = "PLAYING")
  BY <1>2, SessType
<1>. HIDE DEF st
<1>4. /\ s \in SessSet /\ s.sd = sess[c].sd /\ s.buf = sess[c].buf
      /\ s.out = sess[c].out /\ s.udp = sess[c].udp
      /\ s.intlvd = sess[c].intlvd /\ s.streaming = sess[c].streaming
      /\ s.state = st
  BY <1>2, <1>3 DEF SessSet
<1>. HIDE DEF s
<1>5. Handling(c, s, "HANDLED")
  BY <1>1, <1>3, <1>4, RunsTask
  DEF Handling, AddsTask, AddsSocket, SetsState, Outcomes
<1>. QED BY <1>5

LEMMA TeardownIsHandling ==
  ASSUME TypeInv, HandleTeardown
  PROVE  \E c, s, outcome : Handling(c, s, outcome)
<1>. DEFINE c == tasks[1].arg
            s == [sess[c] EXCEPT !.state = "INIT"]
<1>1. /\ pc = "run" /\ tasks[1].proc = "req" /\ Current(c) = "teardown"
      /\ UNCHANGED <<owner, handlers>>
      /\ Handled(c, s, "HANDLED") /\ CreateTask("destroy", c, Ms10)
  BY DEF HandleTeardown, HandleRtspReq, Runs
<1>2. sess[c] \in SessSet
  BY <1>1, RunsTask
<1>3. /\ s \in SessSet /\ s.sd = sess[c].sd /\ s.buf = sess[c].buf
      /\ s.out = sess[c].out /\ s.udp = sess[c].udp
      /\ s.intlvd = sess[c].intlvd /\ s.streaming = sess[c].streaming
      /\ s.state = "INIT"
  BY <1>2 DEF SessSet
<1>. HIDE DEF s
<1>4. Handling(c, s, "HANDLED")
  BY <1>1, <1>3, RunsTask
  DEF Handling, AddsTask, AddsSocket, SetsState, Outcomes
<1>. QED BY <1>4

(* So a request is handled in that form, whatever its method.              *)
LEMMA RequestIsHandling ==
  ASSUME TypeInv, HandleRequest
  PROVE  \E c, s, outcome : Handling(c, s, outcome)
BY OtherIsHandling, TransportIsHandling, DescribeIsHandling,
   SetupUdpIsHandling, SetupTcpIsHandling, PlayIsHandling, PauseIsHandling, TeardownIsHandling DEF HandleRequest

LEMMA AddsTaskType ==
  ASSUME TypeInv, NEW c \in Client, NEW s, AddsTask(c, s), tasks # <<>>
  PROVE  /\ TimeTyped' /\ tasks' # <<>>
         /\ tasks[1].delta = 0 =>
              SameTask(tasks[1], tasks'[1]) /\ tasks'[1].delta = 0
<1>1. CASE UNCHANGED timers
  BY <1>1 DEF TypeInv, Typed, TimeTyped, timers, SameTask
<1>2. CASE CreateTask("prefetch", c, 0)
  BY <1>2, CreateTaskType DEF TypeInv
<1>3. CASE CreateTask("destroy", c, Ms10)
  BY <1>3, CreateTaskType, Constants DEF TypeInv
<1>. QED BY <1>1, <1>2, <1>3 DEF AddsTask

LEMMA AddsSocketType ==
  ASSUME TypeInv, NEW c \in Client, NEW s, AddsSocket(c, s)
  PROVE  owner' \in [Fd -> OwnerSet] /\ handlers' \in Seq(HandlerSet)
<1>1. handlers \in Seq(HandlerSet) /\ owner \in [Fd -> OwnerSet]
  BY DEF TypeInv, Typed, StoreTyped
<1>2. CASE UNCHANGED <<owner, handlers>>
  BY <1>1, <1>2
<1>3. CASE \E fd \in Fd :
             /\ owner' = [owner EXCEPT ![fd] = Udp(c)]
             /\ handlers' = Append(handlers,
                              [sd |-> fd, proc |-> "rtp", arg |-> c])
  <2>1. PICK fd \in Fd :
             /\ owner' = [owner EXCEPT ![fd] = Udp(c)]
             /\ handlers' = Append(handlers,
                              [sd |-> fd, proc |-> "rtp", arg |-> c])
    BY <1>3
  <2>2. Udp(c) \in OwnerSet /\ [sd |-> fd, proc |-> "rtp", arg |-> c] \in HandlerSet
    BY DEF OwnerSet, HandlerSet
  <2>. QED BY <1>1, <2>1, <2>2, AppendProperties
<1>. QED BY <1>2, <1>3, Zenon DEF AddsSocket

LEMMA HandlingType ==
  ASSUME TypeInv, NEW c, NEW s, NEW outcome, Handling(c, s, outcome)
  PROVE  TypeInv'
<1>1. /\ pc = "run" /\ tasks # <<>> /\ tasks[1].delta = 0 /\ c \in Client
      /\ s \in SessSet /\ outcome \in Outcomes /\ Handled(c, s, outcome)
      /\ AddsTask(c, s) /\ AddsSocket(c, s)
  BY DEF Handling
<1>2. /\ sess' \in [Client -> SessSet] /\ pc' = "ran" /\ dtp' = "queued"
      /\ ret' \in Int /\ UNCHANGED <<net, list, batch, now>>
  BY <1>1, HandledEffect, Constants DEF TypeInv
<1>3. TimeTyped' /\ tasks' # <<>> /\ tasks'[1].delta = 0
  BY <1>1, AddsTaskType
<1>4. owner' \in [Fd -> OwnerSet] /\ handlers' \in Seq(HandlerSet)
  BY <1>1, AddsSocketType
<1>5. NetTyped' /\ StoreTyped' /\ RunTyped'
  BY <1>2, <1>4 DEF TypeInv, Typed, NetTyped, StoreTyped, RunTyped, net
<1>6. ListenerHasCaller' /\ HandledNow'
  BY <1>1, <1>2 DEF TypeInv, ListenerHasCaller, HandledNow, net
<1>7. TaskAtHead'
  BY <1>2, <1>3 DEF TaskAtHead
<1>. QED BY <1>3, <1>5, <1>6, <1>7 DEF TypeInv, Typed

(* A frame fetched: at most a packet is queued.                            *)
LEMMA PrefetchEffect ==
  ASSUME TypeInv, PrefetchFrm
  PROVE  LET c == tasks[1].arg
         IN  /\ pc = "run" /\ tasks # <<>> /\ tasks[1].delta = 0
             /\ tasks[1].proc = "prefetch" /\ c \in Client
             /\ pc' = "ran" /\ dtp' = "queued" /\ ret' \in Int
             /\ Pumping(c) => ret' >= 0
             /\ UNCHANGED <<net, timers, owner, list, handlers, batch, now>>
             /\ \/ UNCHANGED sess
                \/ /\ sess[c].state = "PLAYING"
                   /\ sess' = [sess EXCEPT ![c].out = Append(@, "rtp")]
<1>1. pc = "run" /\ tasks[1].proc = "prefetch"
  BY DEF PrefetchFrm, Prefetch, Runs
<1>. DEFINE c == tasks[1].arg
<1>2. /\ dtp' = "queued" /\ UNCHANGED <<net, timers, owner, list, handlers>>
      /\ IF sess[c].state # "PLAYING" \/ sess[c].handling # "INIT"
         THEN Returns(-1) /\ UNCHANGED sess
         ELSE /\ \/ \E d \in {Ms5, Ms10} : Returns(d)
                 \/ Returns(-1) /\ "other" \in Frame
              /\ \/ UNCHANGED sess
                 \/ sess' = [sess EXCEPT ![c].out = Append(@, "rtp")]
  BY DEF PrefetchFrm, Prefetch
<1>3. /\ pc' = "ran" /\ UNCHANGED <<batch, now>> /\ ret' \in Int
      /\ Pumping(c) => ret' >= 0
  BY <1>2, Constants DEF Returns, Pumping
<1>4. \/ UNCHANGED sess
      \/ /\ sess[c].state = "PLAYING"
         /\ sess' = [sess EXCEPT ![c].out = Append(@, "rtp")]
  BY <1>2
<1>. QED BY <1>1, <1>2, <1>3, <1>4, RunsTask

LEMMA PrefetchType ==
  ASSUME TypeInv, PrefetchFrm PROVE TypeInv'
<1>. DEFINE c == tasks[1].arg
            o == Append(sess[c].out, "rtp")
<1>1. /\ pc = "run" /\ tasks # <<>> /\ tasks[1].delta = 0 /\ c \in Client
      /\ pc' = "ran" /\ dtp' = "queued" /\ ret' \in Int
      /\ UNCHANGED <<net, timers, owner, list, handlers, batch, now>>
      /\ UNCHANGED sess \/ sess' = [sess EXCEPT ![c].out = Append(@, "rtp")]
  BY PrefetchEffect
<1>2. o \in Seq({"resp", "rtp"}) /\ sess[c] \in SessSet
  <2>1. sess[c] \in SessSet
    BY <1>1 DEF TypeInv, Typed, StoreTyped
  <2>. QED BY <2>1, SessType, AppendProperties
<1>3. UNCHANGED sess \/ sess' = [sess EXCEPT ![c] = [sess[c] EXCEPT !.out = o]]
  BY <1>1
<1>. HIDE DEF o
<1>4. [sess[c] EXCEPT !.out = o] \in SessSet
  BY <1>2 DEF SessSet
<1>5. sess' \in [Client -> SessSet]
  BY <1>1, <1>3, <1>4 DEF TypeInv, Typed, StoreTyped
<1>6. Typed'
  BY <1>1, <1>5 DEF TypeInv, Typed, NetTyped, StoreTyped, TimeTyped, RunTyped,
     net, timers
<1>7. ListenerHasCaller' /\ HandledNow' /\ TaskAtHead'
  BY <1>1 DEF TypeInv, ListenerHasCaller, HandledNow, TaskAtHead, net, timers
<1>. QED BY <1>6, <1>7 DEF TypeInv

(* destroy_rtsp_sess as a task.                                            *)
LEMMA DestroyTaskEffect ==
  ASSUME TypeInv, DestroyTask
  PROVE  LET c == tasks[1].arg
         IN  /\ pc = "run" /\ tasks # <<>> /\ tasks[1].delta = 0
             /\ tasks[1].proc = "destroy" /\ c \in Client
             /\ DestroyRtspSess(c) /\ pc' = "ran"
             /\ IF Destroyable(c)
                THEN dtp' = "freed" /\ ret' = -1
                ELSE /\ dtp' = "queued" /\ ret' = Ms10
                     /\ UNCHANGED <<list, handlers, owner, cli, edge, armedOut,
                                    tasks, sess>>
             /\ UNCHANGED <<backlog, lsnEdge, skew, batch, now>>
<1>1. pc = "run" /\ tasks[1].proc = "destroy"
  BY DEF DestroyTask, Runs
<1>. QED BY <1>1, RunsTask DEF DestroyTask, Returns, DestroyRtspSess

LEMMA DestroyTaskType ==
  ASSUME TypeInv, DestroyTask PROVE TypeInv'
<1>. DEFINE c == tasks[1].arg
<1>1. /\ pc = "run" /\ tasks # <<>> /\ tasks[1].delta = 0 /\ c \in Client
      /\ DestroyRtspSess(c) /\ pc' = "ran"
      /\ IF Destroyable(c)
         THEN dtp' = "freed" /\ ret' = -1
         ELSE dtp' = "queued" /\ ret' = Ms10 /\ tasks' = tasks
      /\ UNCHANGED <<backlog, lsnEdge, skew, batch, now>>
  BY DestroyTaskEffect
<1>2. /\ list' \in Seq(Client) /\ handlers' \in Seq(HandlerSet)
      /\ owner' \in [Fd -> OwnerSet] /\ cli' \in [Client -> CliSet]
      /\ edge' \subseteq Fd /\ armedOut' \subseteq Fd
      /\ tasks' \in Seq(Entry) /\ sess' \in [Client -> SessSet]
  BY <1>1, DestroyType
<1>3. Typed'
  BY <1>1, <1>2, Constants, SMTT(60) DEF TypeInv, Typed, NetTyped, StoreTyped, TimeTyped,
     RunTyped
<1>4. ListenerHasCaller' /\ HandledNow'
  BY <1>1 DEF TypeInv, ListenerHasCaller, HandledNow
<1>5. TaskAtHead'
  BY <1>1 DEF TaskAtHead
<1>. QED BY <1>3, <1>4, <1>5 DEF TypeInv

---------------------------------------------------------------------------
(* The steps of the thread and of its environment, one by one.             *)
LEMMA Steps ==
  ASSUME [Next]_vars
  PROVE  \/ UNCHANGED vars
         \/ \E c \in Client : Connect(c)
         \/ \E c \in Client, m \in Request : Send(c, m)
         \/ \E c \in Client, how \in {"fin", "rst"} : Leave(c, how)
         \/ Tick \/ CheckSendQueue
         \/ \E outs : EpollWait(outs)
         \/ \E e \in batch : \/ Accept(e) \/ Hangup(e) \/ NoHandler(e)
                             \/ Receive(e) \/ ReceiveFails(e) \/ Writable(e)
         \/ Consume \/ StartTask \/ FinishTask
         \/ HandleRequest \/ PrefetchFrm \/ DestroyTask
BY Zenon DEF Next, Environment, Server, Wait, HandleEvent, RunTask, HandleRequest

LEMMA StutterType ==
  ASSUME TypeInv, UNCHANGED vars PROVE TypeInv'
<1>1. Typed'
  BY DEF TypeInv, Typed, NetTyped, StoreTyped, TimeTyped, RunTyped, vars, net,
     store, timers, run
<1>2. ListenerHasCaller' /\ HandledNow' /\ TaskAtHead'
  BY DEF TypeInv, ListenerHasCaller, HandledNow, TaskAtHead, vars, net, store,
     timers, run
<1>. QED BY <1>1, <1>2 DEF TypeInv

(* No step of the server or of a client breaks the types.                  *)
THEOREM NextTypeInv == TypeInv /\ [Next]_vars => TypeInv'
<1>. SUFFICES ASSUME TypeInv, [Next]_vars PROVE TypeInv'
  OBVIOUS
<1>1. CASE HandleRequest
  <2>1. PICK c, s, outcome : Handling(c, s, outcome)
    BY <1>1, RequestIsHandling
  <2>. QED BY <2>1, HandlingType
<1>. QED BY <1>1, Steps, StutterType, ConnectType, SendType, LeaveType, TickType,
        CheckSendQueueType, EpollWaitType, AcceptType, HangupType,
        NoHandlerType, ReceiveType, ReceiveFailsType, WritableType,
        ConsumeType, StartTaskType, FinishTaskType, PrefetchType,
        DestroyTaskType

(* The server's and its clients' state is always of its types.             *)
THEOREM TypesHold == Spec => []TypeOK
<1>1. Init => TypeInv
  BY InitTypeInv
<1>2. TypeInv /\ [Next]_vars => TypeInv'
  BY NextTypeInv
<1>3. TypeInv => TypeOK
  BY TypedIsTypeOK DEF TypeInv
<1>. QED BY <1>1, <1>2, <1>3, PTL DEF Spec

---------------------------------------------------------------------------
(* Who owns what: a client has one session, on the list or waiting to be   *)
(* accepted; each descriptor has one handler; that of a connection is the  *)
(* session's, and that of an RTP socket the client's it was opened for.    *)
OneSession ==
  /\ Distinct(list) /\ Distinct(backlog)
  /\ \A c \in Client :
       /\ c \in Listed => c \notin Range(backlog)
       /\ cli[c].conn = "idle" => /\ c \notin Listed /\ c \notin Range(backlog)
                                  /\ cli[c].rx = <<>>
       /\ c \notin Listed => sess[c] = NewSess

HandlersOwned ==
  /\ DistinctSds(handlers)
  /\ \A h \in Range(handlers) :
       /\ owner[h.sd] # Unused
       /\ h.proc = "rtsp" => /\ h.arg \in Listed /\ h.sd = sess[h.arg].sd
                             /\ owner[h.sd] = Tcp(h.arg)
       /\ h.proc = "rtp" => owner[h.sd] = Udp(h.arg)

Owned  == OneSession /\ TaskArgLive /\ HandlersOwned
OwnInv == TypeInv /\ Owned

(* TaskArgLive as a property of the list.                                  *)
LEMMA TaskArgs == TaskArgLive <=> ArgsIn(tasks, Listed)
BY DEF TaskArgLive, ArgsIn

(* The elements of the list of handlers.                                   *)
LEMMA HandlerValues ==
  ASSUME Typed
  PROVE  \A h \in Range(handlers) : /\ h \in HandlerSet /\ h.sd \in Fd
                                    /\ h.arg \in Client
<1>1. handlers \in Seq(HandlerSet)
  BY DEF Typed, StoreTyped
<1>2. \A h \in Range(handlers) : h \in HandlerSet
  BY <1>1, SeqValues, ElementOfSeq
<1>. QED BY <1>2 DEF HandlerSet

(* A step that leaves the list, the handlers and the descriptors alone.    *)
LEMMA QuietOwned ==
  ASSUME OwnInv, UNCHANGED <<list, handlers, owner, backlog>>,
         \A c \in Client : cli'[c].conn = "idle" =>
                             /\ cli[c].conn = "idle"
                             /\ cli'[c].rx \in {cli[c].rx, <<>>},
         \A c \in Client : /\ sess'[c].sd = sess[c].sd
                           /\ c \notin Listed => sess'[c] = sess[c],
         ArgsIn(tasks', Listed)
  PROVE  Owned'
<1>1. Listed' = Listed
  BY DEF Listed
<1>2. OneSession'
  BY <1>1 DEF OwnInv, Owned, OneSession
<1>3. TaskArgLive'
  BY <1>1 DEF TaskArgLive, ArgsIn
<1>4. HandlersOwned'
  <2>1. \A h \in Range(handlers) : h.arg \in Client
    BY HandlerValues DEF OwnInv, TypeInv
  <2>. QED BY <1>1, <2>1 DEF OwnInv, Owned, HandlersOwned, Tcp, Udp
<1>. QED BY <1>2, <1>3, <1>4 DEF Owned

(* From here to DestroyTaskOwned: one lemma for each step, which keeps who *)
(* owns what.                                                              *)
LEMMA InitOwned == Init => Owned
<1>. SUFFICES ASSUME Init PROVE Owned
  OBVIOUS
<1>1. list = <<>> /\ backlog = <<>> /\ handlers = <<>> /\ tasks = <<>>
  BY DEF Init
<1>2. \A x : x \notin Range(<<>>)
  BY DEF Range
<1>3. OneSession
  BY <1>1, <1>2 DEF Init, OneSession, Distinct, Listed, Offline
<1>4. TaskArgLive
  BY <1>1 DEF TaskArgLive
<1>5. HandlersOwned
  BY <1>1, <1>2 DEF HandlersOwned, DistinctSds
<1>. QED BY <1>3, <1>4, <1>5 DEF Owned

LEMMA ConnectOwned ==
  ASSUME OwnInv, NEW c \in Client, Connect(c) PROVE Owned'
<1>1. /\ backlog \in Seq(Client) /\ cli \in [Client -> CliSet]
      /\ c \notin Range(backlog) /\ c \notin Listed
  BY DEF OwnInv, TypeInv, Typed, NetTyped, Owned, OneSession, Connect
<1>2. /\ backlog' = Append(backlog, c)
      /\ cli' = [cli EXCEPT ![c] = [Offline EXCEPT !.conn = "up"]]
      /\ UNCHANGED <<owner, sess, list, handlers, tasks>>
  BY DEF Connect, store, timers
<1>3. Range(backlog') = Range(backlog) \cup {c} /\ Distinct(backlog')
  BY <1>1, <1>2, AppendRange DEF OwnInv, Owned, OneSession
<1>4. \A d \in Client : IF d = c THEN cli'[d].conn = "up" ELSE cli'[d] = cli[d]
  BY <1>1, <1>2 DEF Offline
<1>5. Listed' = Listed
  BY <1>2 DEF Listed
<1>6. OneSession'
  BY <1>1, <1>2, <1>3, <1>4, <1>5 DEF OwnInv, Owned, OneSession
<1>7. TaskArgLive' /\ HandlersOwned'
  BY <1>2, <1>5 DEF OwnInv, Owned, TaskArgLive, HandlersOwned, Tcp, Udp
<1>. QED BY <1>6, <1>7 DEF Owned

LEMMA SendOwned ==
  ASSUME OwnInv, NEW c \in Client, NEW m \in Request, Send(c, m)
  PROVE  Owned'
<1>1. cli \in [Client -> CliSet]
  BY DEF OwnInv, TypeInv, Typed, NetTyped
<1>2. \A d \in Client : /\ cli'[d].conn = cli[d].conn
                        /\ cli'[d].conn = "idle" => cli'[d].rx = cli[d].rx
  BY <1>1 DEF Send, CliSet
<1>3. ArgsIn(tasks', Listed)
  BY TaskArgs DEF OwnInv, Owned, Send, timers
<1>. QED BY <1>2, <1>3, QuietOwned DEF Send, store

LEMMA LeaveOwned ==
  ASSUME OwnInv, NEW c \in Client, NEW how \in {"fin", "rst"}, Leave(c, how)
  PROVE  Owned'
<1>1. cli \in [Client -> CliSet]
  BY DEF OwnInv, TypeInv, Typed, NetTyped
<1>2. \A d \in Client : cli'[d].conn = "idle" => cli'[d] = cli[d]
  BY <1>1 DEF Leave, CliSet
<1>3. ArgsIn(tasks', Listed)
  BY TaskArgs DEF OwnInv, Owned, Leave, timers
<1>. QED BY <1>2, <1>3, QuietOwned DEF Leave, store

(* Steps that only look at tasks, or bring their list up to date.          *)
LEMMA TasksOwned ==
  ASSUME OwnInv, UNCHANGED <<cli, backlog, store>>, ArgsIn(tasks', Listed)
  PROVE  Owned'
BY QuietOwned DEF store

LEMMA ElapsedOwned ==
  ASSUME OwnInv, UNCHANGED <<cli, backlog, store>>,
         tasks' \in {tasks, Elapse(tasks, skew)}
  PROVE  Owned'
<1>1. tasks \in Seq(Entry) /\ skew \in Int /\ ArgsIn(tasks, Listed)
  BY TaskArgs, Constants DEF OwnInv, Owned, TypeInv, Typed, TimeTyped
<1>2. ArgsIn(tasks', Listed)
  BY <1>1, ElapseArgs
<1>. QED BY <1>2, TasksOwned

LEMMA WaitingOwned ==
  ASSUME OwnInv,
         \/ Tick \/ CheckSendQueue \/ StartTask
         \/ \E outs : EpollWait(outs)
         \/ \E e \in batch : NoHandler(e) \/ Writable(e)
  PROVE  Owned'
<1>1. CASE Tick
  BY <1>1, ElapsedOwned DEF Tick, net
<1>2. CASE CheckSendQueue
  BY <1>2, ElapsedOwned DEF CheckSendQueue, timers
<1>3. CASE StartTask
  BY <1>3, ElapsedOwned DEF StartTask, net, timers
<1>4. CASE \E outs : EpollWait(outs)
  BY <1>4, ElapsedOwned DEF EpollWait, timers
<1>5. CASE \E e \in batch : NoHandler(e) \/ Writable(e)
  BY <1>5, ElapsedOwned DEF NoHandler, Writable, net, timers
<1>. QED BY <1>1, <1>2, <1>3, <1>4, <1>5

LEMMA FinishTaskOwned ==
  ASSUME OwnInv, FinishTask PROVE Owned'
<1>. DEFINE q == Delete(tasks, 1)
            t == [tasks[1] EXCEPT !.delta = ret]
<1>1. ArgsIn(tasks, Listed)
  BY TaskArgs DEF OwnInv, Owned
<1>2. CASE dtp = "freed"
  BY <1>2, ElapsedOwned DEF FinishTask, net, timers
<1>3. CASE dtp = "queued"
  <2>1. tasks # <<>> /\ Typed /\ skew \in Int /\ ret \in Int
    BY <1>3, Constants DEF OwnInv, TypeInv, TaskAtHead, FinishTask, Typed,
       TimeTyped, RunTyped
  <2>2. q \in Seq(Entry) /\ ArgsIn(q, Listed)
    BY <1>1, <2>1, FirstTaskType, DeleteMoves, DeleteArgs
  <2>3. /\ ret >= 0 => t \in Entry
        /\ t.arg = tasks[1].arg /\ tasks[1].arg \in Listed
    BY <1>1, <2>1, FirstTaskType DEF Entry, ArgsIn
  <2>4. \/ ret >= 0 /\ tasks' = Insert(Elapse(q, skew), t)
        \/ tasks' = q
    BY <1>3 DEF FinishTask
  <2>. HIDE DEF q, t
  <2>5. Elapse(q, skew) \in Seq(Entry) /\ ArgsIn(Elapse(q, skew), Listed)
    BY <2>1, <2>2, ElapseKeeps, ElapseArgs
  <2>6. ArgsIn(tasks', Listed)
    BY <2>2, <2>3, <2>4, <2>5, InsertArgs
  <2>. QED BY <2>6, TasksOwned DEF FinishTask, net
<1>. QED BY <1>2, <1>3 DEF OwnInv, TypeInv, Typed, RunTyped

(* A task is created for a session on the list.                            *)
LEMMA CreateTaskArgs ==
  ASSUME OwnInv, NEW proc \in {"req", "prefetch", "destroy"}, NEW c \in Listed,
         NEW d \in Nat, CreateTask(proc, c, d), c \in Client
  PROVE  ArgsIn(tasks', Listed)
<1>. DEFINE q == Elapse(tasks, skew)
            t == NewTask(proc, c, d)
<1>1. tasks \in Seq(Entry) /\ skew \in Int /\ ArgsIn(tasks, Listed)
  BY TaskArgs, Constants DEF OwnInv, Owned, TypeInv, Typed, TimeTyped
<1>2. q \in Seq(Entry) /\ ArgsIn(q, Listed)
  BY <1>1, ElapseKeeps, ElapseArgs
<1>3. t \in Entry /\ t.arg = c /\ tasks' = Insert(q, t)
  BY DEF NewTask, Entry, CreateTask
<1>. HIDE DEF q, t
<1>. QED BY <1>2, <1>3, InsertArgs

(* A connection is accepted.                                               *)
LEMMA AcceptOwned ==
  ASSUME OwnInv, NEW e \in batch, Accept(e) PROVE Owned'
<1>1. CASE LowestFree = NoFd
  BY <1>1, ElapsedOwned DEF Accept, net, timers
<1>2. CASE LowestFree # NoFd
  <2>. DEFINE c  == Head(backlog)
              fd == LowestFree
              h  == [sd |-> fd, proc |-> "rtsp", arg |-> c]
              s  == [NewSess EXCEPT !.sd = fd]
  <2>1. /\ owner' = [owner EXCEPT ![fd] = Tcp(c)]
        /\ backlog' = Tail(backlog)
        /\ sess' = [sess EXCEPT ![c] = s]
        /\ list' = <<c>> \o list
        /\ handlers' = Append(handlers, h)
        /\ cli' = cli /\ tasks' = tasks
    BY <1>2 DEF Accept, timers
  <2>2. /\ backlog # <<>> /\ backlog \in Seq(Client) /\ handlers \in Seq(HandlerSet)
        /\ list \in Seq(Client) /\ owner \in [Fd -> OwnerSet]
        /\ sess \in [Client -> SessSet] /\ OneSession /\ HandlersOwned
    BY DEF OwnInv, TypeInv, Typed, NetTyped, StoreTyped, ListenerHasCaller,
       Accept, Owned
  <2>3. fd \in Fd /\ owner[fd] = Unused
    BY <1>2, LowestFreeType
  <2>4. /\ c \in Client /\ c \in Range(backlog)
        /\ Range(backlog') = Range(backlog) \ {c} /\ Distinct(backlog')
    BY <2>1, <2>2, TailRange, HeadTailProperties DEF OneSession
  <2>5. c \notin Listed
    BY <2>2, <2>4 DEF OneSession
  <2>6. h \in HandlerSet /\ h.sd = fd /\ h.arg = c /\ h.proc = "rtsp"
    BY <2>3, <2>4 DEF HandlerSet
  <2>7. s.sd = fd
    BY DEF NewSess
  <2>. HIDE DEF c, fd, h, s
  <2>8. Listed' = Listed \cup {c} /\ Distinct(list')
    BY <2>1, <2>2, <2>4, <2>5, ConsRange DEF Listed, OneSession
  <2>9. /\ DistinctSds(handlers')
        /\ Range(handlers') = Range(handlers) \cup {h}
    BY <2>1, <2>2, <2>3, <2>6, RegisterRange DEF HandlersOwned
  <2>10. /\ sess'[c] = s
         /\ \A d \in Client : d # c => sess'[d] = sess[d]
    BY <2>1, <2>2, <2>4
  <2>11. OneSession'
    BY <2>1, <2>2, <2>4, <2>5, <2>8, <2>10 DEF OneSession
  <2>12. TaskArgLive'
    BY <2>1, <2>8 DEF OwnInv, Owned, TaskArgLive
  <2>13. HandlersOwned'
    <3>1. ASSUME NEW g \in Range(handlers)
          PROVE  /\ owner'[g.sd] # Unused
                 /\ g.proc = "rtsp" => /\ g.arg \in Listed' /\ g.sd = sess'[g.arg].sd
                                       /\ owner'[g.sd] = Tcp(g.arg)
                 /\ g.proc = "rtp" => owner'[g.sd] = Udp(g.arg)
      <4>1. g.sd \in Fd /\ g.arg \in Client /\ g.sd # fd
        BY <2>2, <2>3, HandlerValues DEF HandlersOwned, OwnInv, TypeInv
      <4>. QED BY <2>1, <2>2, <2>5, <2>8, <2>10, <4>1 DEF HandlersOwned
    <3>2. owner'[h.sd] = Tcp(c) /\ h.arg \in Listed' /\ h.sd = sess'[h.arg].sd
      BY <2>1, <2>2, <2>3, <2>6, <2>7, <2>8, <2>10
    <3>3. Tcp(c) # Unused
      BY DEF Tcp, Unused
    <3>4. \A g \in Range(handlers') :
            /\ owner'[g.sd] # Unused
            /\ g.proc = "rtsp" => /\ g.arg \in Listed' /\ g.sd = sess'[g.arg].sd
                                  /\ owner'[g.sd] = Tcp(g.arg)
            /\ g.proc = "rtp" => owner'[g.sd] = Udp(g.arg)
      BY <2>6, <2>9, <3>1, <3>2, <3>3
    <3>. QED BY <2>9, <3>4 DEF HandlersOwned, Tcp, Udp
  <2>. QED BY <2>11, <2>12, <2>13 DEF Owned
<1>. QED BY <1>1, <1>2

(* destroy_rtsp_sess: the handlers it leaves are those of the descriptors  *)
(* it does not close.                                                      *)
LEMMA HandlersLeft ==
  ASSUME OwnInv, NEW c \in Client
  PROVE  /\ DistinctSds(HandlersWithout(c))
         /\ Range(HandlersWithout(c)) =
              {h \in Range(handlers) : h.sd \notin Descriptors(c)}
<1>. DEFINE first == Deregister(handlers, sess[c].sd)
            u     == sess[c].udp
            secnd == Deregister(first, u["V"])
            third == Deregister(secnd, u["A"])
<1>1. handlers \in Seq(HandlerSet) /\ DistinctSds(handlers)
  BY DEF OwnInv, TypeInv, Typed, StoreTyped, Owned, HandlersOwned
<1>2. /\ first \in Seq(HandlerSet) /\ DistinctSds(first)
      /\ Range(first) = {h \in Range(handlers) : h.sd # sess[c].sd}
  BY <1>1, DeregisterType, DeregisterRange
<1>3. u \in [Track -> Fd \cup {NoFd}]
  BY SessType DEF OwnInv, TypeInv, Typed, StoreTyped
<1>4. Range(u) = {u["V"], u["A"]}
  BY <1>3 DEF Track, Range
<1>. HIDE DEF first, u
<1>5. /\ secnd \in Seq(HandlerSet) /\ DistinctSds(secnd)
      /\ Range(secnd) = {h \in Range(first) : h.sd # u["V"]}
  BY <1>2, DeregisterType, DeregisterRange
<1>. HIDE DEF secnd
<1>6. /\ DistinctSds(third)
      /\ Range(third) = {h \in Range(secnd) : h.sd # u["A"]}
  BY <1>5, DeregisterRange
<1>. HIDE DEF third
<1>7. CASE sess[c].intlvd
  <2>1. HandlersWithout(c) = first /\ Descriptors(c) = {sess[c].sd}
    BY <1>7 DEF HandlersWithout, Descriptors, first
  <2>. QED BY <1>2, <2>1
<1>8. CASE ~sess[c].intlvd
  <2>1. HandlersWithout(c) = third
    BY <1>8 DEF HandlersWithout, first, secnd, third, u
  <2>2. Descriptors(c) = {sess[c].sd, u["V"], u["A"]}
    BY <1>4, <1>8 DEF Descriptors, u
  <2>. QED BY <1>2, <1>5, <1>6, <2>1, <2>2
<1>. QED BY <1>7, <1>8

(* All that destroy_rtsp_sess changes.                                     *)
LEMMA DestroyEffect ==
  ASSUME OwnInv, NEW c \in Client, DoDestroy(c)
  PROVE  /\ Listed' = Listed \ {c} /\ Distinct(list')
         /\ DistinctSds(handlers')
         /\ Range(handlers') = {h \in Range(handlers) : h.sd \notin Descriptors(c)}
         /\ owner' = [fd \in Fd |-> IF fd \in Descriptors(c) THEN Unused
                                    ELSE owner[fd]]
         /\ cli' = [d \in Client |->
                      IF d = c THEN Dropped(cli[d])
                      ELSE IF SocketOf(d) \cap Descriptors(c) # {}
                        THEN [cli[d] EXCEPT !.conn = "cut", !.rx = <<>>]
                      ELSE cli[d]]
         /\ tasks' = DeleteArg(tasks, c)
         /\ ArgsIn(tasks', Listed')
         /\ sess'[c] = NewSess /\ \A d \in Client : d # c => sess'[d] = sess[d]
<1>1. /\ list' = RemoveFirst(list, c) /\ handlers' = HandlersWithout(c)
      /\ tasks' = DeleteArg(tasks, c)
      /\ sess' = [sess EXCEPT ![c] = NewSess]
      /\ owner' = [fd \in Fd |-> IF fd \in Descriptors(c) THEN Unused
                                    ELSE owner[fd]]
      /\ cli' = [d \in Client |->
                      IF d = c THEN Dropped(cli[d])
                      ELSE IF SocketOf(d) \cap Descriptors(c) # {}
                        THEN [cli[d] EXCEPT !.conn = "cut", !.rx = <<>>]
                      ELSE cli[d]]
  BY DEF DoDestroy, DestroyLeaving
<1>2. /\ list \in Seq(Client) /\ Distinct(list) /\ tasks \in Seq(Entry)
      /\ sess \in [Client -> SessSet] /\ ArgsIn(tasks, Listed)
  BY TaskArgs DEF OwnInv, TypeInv, Typed, StoreTyped, TimeTyped, Owned,
     OneSession
<1>3. Listed' = Listed \ {c} /\ Distinct(list')
  BY <1>1, <1>2, RemoveFirstRange DEF Listed
<1>4. ArgsIn(tasks', Listed')
  BY <1>1, <1>2, <1>3, DeleteArgArgs
<1>. QED BY <1>1, <1>2, <1>3, <1>4, HandlersLeft

(* After it nothing is left of the session that was destroyed.             *)
LEMMA DestroyOwned ==
  ASSUME OwnInv, NEW c \in Client, DestroyRtspSess(c), backlog' = backlog,
         c \in Listed
  PROVE  Owned'
<1>1. CASE ~DoDestroy(c)
  <2>1. UNCHANGED <<list, handlers, owner, cli, edge, armedOut, tasks, sess>>
    BY <1>1 DEF DestroyRtspSess
  <2>. QED BY <2>1, QuietOwned, TaskArgs DEF OwnInv, Owned
<1>2. CASE DoDestroy(c)
  <2>1. /\ Listed' = Listed \ {c} /\ Distinct(list')
        /\ DistinctSds(handlers')
        /\ Range(handlers') = {h \in Range(handlers) : h.sd \notin Descriptors(c)}
        /\ owner' = [fd \in Fd |-> IF fd \in Descriptors(c) THEN Unused
                                   ELSE owner[fd]]
        /\ ArgsIn(tasks', Listed')
        /\ sess'[c] = NewSess /\ \A d \in Client : d # c => sess'[d] = sess[d]
    BY <1>2, DestroyEffect
  <2>2. \A d \in Client : IF d = c THEN cli'[d].rx = <<>>
                          ELSE cli'[d].conn = "idle" => cli'[d] = cli[d]
    <3>1. /\ cli \in [Client -> CliSet]
          /\ cli' = [d \in Client |->
                      IF d = c THEN Dropped(cli[d])
                      ELSE IF SocketOf(d) \cap Descriptors(c) # {}
                        THEN [cli[d] EXCEPT !.conn = "cut", !.rx = <<>>]
                      ELSE cli[d]]
      BY <1>2, DestroyEffect DEF OwnInv, TypeInv, Typed, NetTyped
    <3>2. ASSUME NEW d \in Client
          PROVE  /\ [cli[d] EXCEPT !.conn = "cut", !.rx = <<>>].conn = "cut"
                 /\ Dropped(cli[d]).rx = <<>>
      <4>1. cli[d] \in CliSet
        BY <3>1
      <4>. QED BY <4>1, DroppedType DEF CliSet
    <3>. QED BY <3>1, <3>2
  <2>3. OneSession'
    BY <2>1, <2>2 DEF OwnInv, Owned, OneSession
  <2>4. TaskArgLive'
    BY <2>1 DEF ArgsIn, TaskArgLive
  <2>5. HandlersOwned'
    <3>1. ASSUME NEW g \in Range(handlers')
          PROVE  /\ owner'[g.sd] # Unused
                 /\ g.proc = "rtsp" => /\ g.arg \in Listed' /\ g.sd = sess'[g.arg].sd
                                       /\ owner'[g.sd] = Tcp(g.arg)
                 /\ g.proc = "rtp" => owner'[g.sd] = Udp(g.arg)
      <4>1. /\ g \in Range(handlers) /\ g.sd \notin Descriptors(c)
            /\ g.sd \in Fd /\ g.arg \in Client
        BY <2>1, HandlerValues DEF OwnInv, TypeInv
      <4>2. g.proc = "rtsp" => g.arg # c
        BY <4>1 DEF OwnInv, Owned, HandlersOwned, Descriptors
      <4>. QED BY <2>1, <4>1, <4>2 DEF OwnInv, Owned, HandlersOwned
    <3>. QED BY <2>1, <3>1 DEF HandlersOwned, Tcp, Udp
  <2>. QED BY <2>3, <2>4, <2>5 DEF Owned
<1>. QED BY <1>1, <1>2

(* The session a socket handler is called with is on the list, and its     *)
(* connection is the handler's descriptor.                                 *)
LEMMA RtspHandler ==
  ASSUME OwnInv, NEW fd, HandlerIndex(handlers, fd) # 0, Handler(fd).proc = "rtsp"
  PROVE  LET c == Handler(fd).arg
         IN  /\ fd \in Fd /\ c \in Client /\ c \in Listed
             /\ sess[c].sd = fd /\ owner[fd] = Tcp(c)
<1>1. /\ Handler(fd).sd = fd /\ fd \in Fd /\ Handler(fd).arg \in Client
      /\ HandlerIndex(handlers, fd) \in 1..Len(handlers)
      /\ handlers \in Seq(HandlerSet)
  BY HandlerType DEF OwnInv, TypeInv, Typed, StoreTyped
<1>2. Handler(fd) \in Range(handlers)
  BY <1>1, SeqValues, Zenon DEF Handler
<1>. QED BY <1>1, <1>2 DEF OwnInv, Owned, HandlersOwned

LEMMA HangupOwned ==
  ASSUME OwnInv, NEW e \in batch, Hangup(e) PROVE Owned'
<1>1. CASE UNCHANGED <<list, handlers, owner, cli, edge, armedOut, tasks, sess>>
  BY <1>1, QuietOwned, TaskArgs DEF OwnInv, Owned, Hangup
<1>2. CASE \E i \in 1..Len(list) : /\ list[i] \in Client /\ list[i] \in Listed
                                   /\ DestroyRtspSess(list[i])
  BY <1>2, DestroyOwned DEF Hangup
<1>. QED BY <1>1, <1>2, HangupChoice DEF OwnInv, TypeInv

LEMMA ReceiveFailsOwned ==
  ASSUME OwnInv, NEW e \in batch, ReceiveFails(e) PROVE Owned'
<1>1. Handler(e.fd).arg \in Client /\ Handler(e.fd).arg \in Listed
  BY RtspHandler DEF ReceiveFails, NothingReceived, Handles
<1>. QED BY <1>1, DestroyOwned DEF ReceiveFails, NothingReceived

(* A request is read from the session's own connection.                    *)
LEMMA ReceiveOwn ==
  ASSUME OwnInv, NEW e \in batch, Receive(e)
  PROVE  LET c == Handler(e.fd).arg
         IN  /\ c \in Client /\ c \in Listed
             /\ cli[c].rx # <<>> /\ Head(cli[c].rx) \in Request
             /\ Len(cli[c].rx) > 0
             /\ cli' = [cli EXCEPT ![c].rx = <<>>]
             /\ sess' = [sess EXCEPT ![c].buf = Head(cli[c].rx)]
             /\ CreateTask("req", c, 0)
<1>. DEFINE c == Handler(e.fd).arg
<1>1. /\ c \in Client /\ c \in Listed /\ sess[c].sd = e.fd /\ owner[e.fd] = Tcp(c)
  BY RtspHandler DEF Receive, Handles
<1>2. PICK d \in Client :
        /\ sess[c].sd \in SocketOf(d)
        /\ cli[d].rx # <<>> /\ Head(cli[d].rx) \in Request
        /\ Len(cli[d].rx) > 0
        /\ cli' = [cli EXCEPT ![d].rx = <<>>]
        /\ sess' = [sess EXCEPT ![c].buf = Head(cli[d].rx)]
        /\ CreateTask("req", c, 0)
  BY ReceiveEffect DEF OwnInv
<1>3. d = c
  BY <1>1, <1>2 DEF SocketOf, Tcp
<1>. QED BY <1>1, <1>2, <1>3

LEMMA ReceiveOwned ==
  ASSUME OwnInv, NEW e \in batch, Receive(e) PROVE Owned'
<1>. DEFINE c == Handler(e.fd).arg
<1>1. /\ c \in Client /\ c \in Listed
      /\ cli' = [cli EXCEPT ![c].rx = <<>>]
      /\ sess' = [sess EXCEPT ![c].buf = Head(cli[c].rx)]
      /\ CreateTask("req", c, 0)
  BY ReceiveOwn
<1>. HIDE DEF c
<1>2. cli \in [Client -> CliSet] /\ sess \in [Client -> SessSet]
  BY DEF OwnInv, TypeInv, Typed, NetTyped, StoreTyped
<1>3. \A d \in Client : cli'[d].conn = cli[d].conn /\ cli'[d].rx \in {cli[d].rx, <<>>}
  BY <1>1, <1>2 DEF CliSet
<1>4. \A d \in Client : /\ sess'[d].sd = sess[d].sd
                        /\ d \notin Listed => sess'[d] = sess[d]
  BY <1>1, <1>2 DEF SessSet
<1>5. ArgsIn(tasks', Listed)
  BY <1>1, CreateTaskArgs
<1>. QED BY <1>3, <1>4, <1>5, QuietOwned DEF Receive

(* What has something to send is on the list.                              *)
LEMMA BusyIsListed ==
  ASSUME OwnInv, NEW c \in Client, sess[c].out # <<>> PROVE c \in Listed
BY DEF OwnInv, Owned, OneSession, NewSess

LEMMA ConsumeOwned ==
  ASSUME OwnInv, Consume PROVE Owned'
<1>. DEFINE c   == Handler(now).arg
            out == sess[c].out
            fd  == SendTarget(c)
<1>1. c \in Client /\ (out # <<>> => c \in Listed)
  BY SentEffect, BusyIsListed DEF OwnInv
<1>2. ArgsIn(tasks, Listed)
  BY TaskArgs DEF OwnInv, Owned
<1>3. CASE UNCHANGED <<net, store, tasks>>
  BY <1>2, <1>3, QuietOwned DEF net, store
<1>4. CASE out # <<>> /\ DestroyRtspSess(c) /\ UNCHANGED <<backlog, lsnEdge>>
  BY <1>1, <1>4, DestroyOwned
<1>5. CASE /\ out # <<>>
           /\ sess' = [sess EXCEPT ![c].out = Tail(out)]
           /\ cli' = [d \in Client |->
                        IF d \in Peers(fd) /\ Head(out) = "resp"
                        THEN [cli[d] EXCEPT !.owed = @ - 1] ELSE cli[d]]
           /\ UNCHANGED <<backlog, lsnEdge, owner, list, handlers, tasks>>
  <2>1. cli \in [Client -> CliSet] /\ sess \in [Client -> SessSet]
    BY DEF OwnInv, TypeInv, Typed, NetTyped, StoreTyped
  <2>2. \A d \in Client : cli'[d].conn = cli[d].conn /\ cli'[d].rx = cli[d].rx
    <3>1. \A d \in Client : /\ [cli[d] EXCEPT !.owed = @ - 1].conn = cli[d].conn
                            /\ [cli[d] EXCEPT !.owed = @ - 1].rx = cli[d].rx
      BY <2>1 DEF CliSet
    <3>. QED BY <1>5, <3>1
  <2>3. \A d \in Client : /\ sess'[d].sd = sess[d].sd
                          /\ d \notin Listed => sess'[d] = sess[d]
    <3>. DEFINE t == Tail(out)
    <3>1. sess' = [sess EXCEPT ![c].out = t] /\ c \in Client /\ c \in Listed
      BY <1>1, <1>5
    <3>. HIDE DEF t, c
    <3>. QED BY <2>1, <3>1 DEF SessSet
  <2>. QED BY <1>2, <1>5, <2>2, <2>3, QuietOwned
<1>. QED BY <1>3, <1>4, <1>5, SentEffect DEF OwnInv

(* A request is handled: a task and a socket may be added, the session's.  *)
LEMMA HandlingOwned ==
  ASSUME OwnInv, NEW c, NEW s, NEW outcome, Handling(c, s, outcome)
  PROVE  Owned'
<1>1. /\ tasks # <<>> /\ c = tasks[1].arg /\ c \in Client
      /\ s \in SessSet /\ outcome \in Outcomes /\ Handled(c, s, outcome)
      /\ s.sd = sess[c].sd /\ AddsTask(c, s) /\ AddsSocket(c, s)
  BY DEF Handling
<1>2. /\ UNCHANGED <<net, list>>
      /\ sess'[c].sd = sess[c].sd
      /\ \A d \in Client : d # c => sess'[d] = sess[d]
  BY <1>1, HandledEffect DEF OwnInv, TypeInv
<1>3. c \in Listed
  BY <1>1, FirstTaskType DEF OwnInv, TypeInv, Owned, TaskArgLive
<1>4. ArgsIn(tasks', Listed)
  <2>1. CASE UNCHANGED timers
    BY <2>1, TaskArgs DEF OwnInv, Owned, timers
  <2>2. CASE CreateTask("prefetch", c, 0)
    BY <1>1, <1>3, <2>2, CreateTaskArgs
  <2>3. CASE CreateTask("destroy", c, Ms10)
    BY <1>1, <1>3, <2>3, CreateTaskArgs, Constants
  <2>. QED BY <1>1, <2>1, <2>2, <2>3 DEF AddsTask
<1>5. CASE UNCHANGED <<owner, handlers>>
  BY <1>2, <1>3, <1>4, <1>5, QuietOwned DEF net
<1>6. CASE \E fd \in Fd :
             /\ owner[fd] = Unused /\ owner' = [owner EXCEPT ![fd] = Udp(c)]
             /\ handlers' = Append(handlers,
                              [sd |-> fd, proc |-> "rtp", arg |-> c])
  <2>1. PICK fd \in Fd :
             /\ owner[fd] = Unused /\ owner' = [owner EXCEPT ![fd] = Udp(c)]
             /\ handlers' = Append(handlers,
                              [sd |-> fd, proc |-> "rtp", arg |-> c])
    BY <1>6
  <2>. DEFINE h == [sd |-> fd, proc |-> "rtp", arg |-> c]
  <2>2. h \in HandlerSet /\ h.sd = fd /\ h.proc # "rtsp" /\ h.arg = c
    BY <1>1 DEF HandlerSet
  <2>3. handlers' = Append(handlers, h)
    BY <2>1
  <2>. HIDE DEF h
  <2>4. /\ handlers \in Seq(HandlerSet) /\ owner \in [Fd -> OwnerSet]
        /\ HandlersOwned /\ OneSession /\ Typed
    BY DEF OwnInv, TypeInv, Typed, StoreTyped, Owned
  <2>5. \A g \in Range(handlers) : g.sd \in Fd /\ g.arg \in Client /\ g.sd # fd
    BY <2>1, <2>4, HandlerValues DEF HandlersOwned
  <2>6. /\ DistinctSds(handlers')
        /\ Range(handlers') = Range(handlers) \cup {h}
    BY <2>2, <2>3, <2>4, <2>5, RegisterRange DEF HandlersOwned
  <2>7. Listed' = Listed
    BY <1>2 DEF Listed
  <2>8. \A g \in Range(handlers) :
          /\ owner'[g.sd] = owner[g.sd]
          /\ sess'[g.arg].sd = sess[g.arg].sd
    BY <1>2, <2>1, <2>4, <2>5
  <2>9. owner'[h.sd] = Udp(h.arg) /\ Udp(h.arg) # Unused
    BY <2>1, <2>2, <2>4 DEF Udp, Unused
  <2>10. HandlersOwned'
    BY <2>2, <2>4, <2>6, <2>7, <2>8, <2>9 DEF HandlersOwned, Tcp, Udp
  <2>11. OneSession'
    BY <1>2, <1>3, <2>4, <2>7 DEF OneSession, net
  <2>12. TaskArgLive'
    BY <1>4, <2>7 DEF TaskArgLive, ArgsIn
  <2>. QED BY <2>10, <2>11, <2>12 DEF Owned
<1>. QED BY <1>1, <1>5, <1>6 DEF AddsSocket

LEMMA PrefetchOwned ==
  ASSUME OwnInv, PrefetchFrm PROVE Owned'
<1>. DEFINE c == tasks[1].arg
<1>1. /\ tasks # <<>> /\ c \in Client
      /\ UNCHANGED <<net, timers, owner, list, handlers>>
      /\ UNCHANGED sess \/ sess' = [sess EXCEPT ![c].out = Append(@, "rtp")]
  BY PrefetchEffect DEF OwnInv
<1>2. c \in Listed
  BY <1>1, FirstTaskType DEF OwnInv, TypeInv, Owned, TaskArgLive
<1>3. sess \in [Client -> SessSet] /\ ArgsIn(tasks', Listed)
  BY <1>1, TaskArgs DEF OwnInv, TypeInv, Typed, StoreTyped, Owned, timers
<1>. HIDE DEF c
<1>4. \A d \in Client : /\ sess'[d].sd = sess[d].sd
                        /\ d \notin Listed => sess'[d] = sess[d]
  BY <1>1, <1>2, <1>3 DEF SessSet
<1>. QED BY <1>1, <1>3, <1>4, QuietOwned DEF net

LEMMA DestroyTaskOwned ==
  ASSUME OwnInv, DestroyTask PROVE Owned'
<1>. DEFINE c == tasks[1].arg
<1>1. tasks # <<>> /\ c \in Client /\ DestroyRtspSess(c) /\ backlog' = backlog
  BY DestroyTaskEffect DEF OwnInv
<1>2. c \in Listed
  BY <1>1, FirstTaskType DEF OwnInv, TypeInv, Owned, TaskArgLive
<1>. QED BY <1>1, <1>2, DestroyOwned

(* No step of the server or of a client breaks who owns what.              *)
THEOREM NextOwned == OwnInv /\ [Next]_vars => OwnInv'
<1>. SUFFICES ASSUME OwnInv, [Next]_vars PROVE Owned'
  BY NextTypeInv DEF OwnInv
<1>1. CASE UNCHANGED vars
  BY <1>1, ElapsedOwned DEF vars, net, timers
<1>2. CASE HandleRequest
  <2>1. PICK c, s, outcome : Handling(c, s, outcome)
    BY <1>2, RequestIsHandling DEF OwnInv
  <2>. QED BY <2>1, HandlingOwned
<1>. QED BY <1>1, <1>2, Steps, ConnectOwned, SendOwned, LeaveOwned, WaitingOwned,
        AcceptOwned, HangupOwned, ReceiveOwned, ReceiveFailsOwned,
        ConsumeOwned, FinishTaskOwned, PrefetchOwned, DestroyTaskOwned

(* No task is ever left for a session that was freed: destroy_sess_task    *)
(* takes them all, also those due together, and none is created for one    *)
(* that is not on the list.                                                *)
THEOREM TasksAreOfLiveSessions == Spec => []TaskArgLive
<1>1. Init => OwnInv
  BY InitTypeInv, InitOwned DEF OwnInv
<1>2. OwnInv /\ [Next]_vars => OwnInv'
  BY NextOwned
<1>3. OwnInv => TaskArgLive
  BY DEF OwnInv, Owned
<1>. QED BY <1>1, <1>2, <1>3, PTL DEF Spec

---------------------------------------------------------------------------
(* How many tasks of a kind a session has that will still be run.          *)
Left(c, proc)    == Places(tasks, c, proc) \ EndingTask
Pending(c, proc) == Cardinality(Left(c, proc))

(* How many are left without the first task.                               *)
LEMMA CountLessFirst ==
  ASSUME NEW q \in Seq(Entry), NEW c, NEW proc
  PROVE  Cardinality(Places(q, c, proc) \ {1}) =
           IF q # <<>> /\ q[1].arg = c /\ q[1].proc = proc
           THEN Count(q, c, proc) - 1 ELSE Count(q, c, proc)
<1>1. IsFiniteSet(Places(q, c, proc))
  BY PlacesFinite
<1>2. Len(q) \in Nat /\ (q # <<>> <=> 1 \in 1..Len(q))
  BY QueueType, EmptySeq
<1>3. 1 \in Places(q, c, proc) <=> q # <<>> /\ q[1].arg = c /\ q[1].proc = proc
  BY <1>2 DEF Places
<1>. QED BY <1>1, <1>3, FS_RemoveElement DEF Count

(* Pending by whether the first task ends.                                 *)
LEMMA PendingType ==
  ASSUME Typed, NEW c, NEW proc
  PROVE  /\ Pending(c, proc) \in Nat
         /\ Pending(c, proc) = 0 <=> Left(c, proc) = {}
         /\ IsFiniteSet(Left(c, proc))
         /\ EndingTask = {} => Pending(c, proc) = Count(tasks, c, proc)
         /\ EndingTask = {1} =>
              Pending(c, proc) =
                IF tasks # <<>> /\ tasks[1].arg = c /\ tasks[1].proc = proc
                THEN Count(tasks, c, proc) - 1 ELSE Count(tasks, c, proc)
<1>1. tasks \in Seq(Entry)
  BY DEF Typed, TimeTyped
<1>2. IsFiniteSet(Left(c, proc))
  BY <1>1, PlacesFinite, FS_Subset DEF Left
<1>3. EndingTask = {1} => Pending(c, proc) = Cardinality(Places(tasks, c, proc) \ {1})
  BY DEF Pending, Left
<1>4. EndingTask = {} => Pending(c, proc) = Count(tasks, c, proc)
  BY DEF Pending, Left, Count
<1>. QED BY <1>1, <1>2, <1>3, <1>4, CountLessFirst, FS_EmptySet, FS_CardinalityType
         DEF Pending

(* create_delay_task: one more is left to run.                             *)
LEMMA CreateCount ==
  ASSUME Typed, NEW p0 \in {"req", "prefetch", "destroy"}, NEW c0 \in Client,
         NEW d \in Nat, CreateTask(p0, c0, d), NEW c, NEW proc
  PROVE  Count(tasks', c, proc) = IF c = c0 /\ proc = p0
                                  THEN Count(tasks, c, proc) + 1
                                  ELSE Count(tasks, c, proc)
<1>. DEFINE q == Elapse(tasks, skew)
            t == NewTask(p0, c0, d)
<1>1. tasks \in Seq(Entry) /\ skew \in Int
  BY Constants DEF Typed, TimeTyped
<1>2. q \in Seq(Entry) /\ Places(q, c, proc) = Places(tasks, c, proc)
  BY <1>1, ElapseKeeps
<1>3. t \in Entry /\ t.arg = c0 /\ t.proc = p0 /\ tasks' = Insert(q, t)
  BY DEF NewTask, Entry, CreateTask
<1>. HIDE DEF q, t
<1>4. Count(q, c, proc) = Count(tasks, c, proc)
  BY <1>2 DEF Count
<1>. QED BY <1>2, <1>3, <1>4, InsertCount

(* Steps that leave the tasks alone leave as many to run.                  *)
LEMMA SamePending ==
  ASSUME UNCHANGED <<tasks, pc, ret, dtp>>, NEW c, NEW proc
  PROVE  Pending(c, proc)' = Pending(c, proc)
BY DEF Pending, Left, EndingTask

LEMMA ElapsedPending ==
  ASSUME Typed, pc # "ran", pc' # "ran",
         tasks' \in {tasks, Elapse(tasks, skew)}, NEW c, NEW proc
  PROVE  Pending(c, proc)' = Pending(c, proc)
<1>1. tasks \in Seq(Entry) /\ skew \in Int
  BY Constants DEF Typed, TimeTyped
<1>2. Places(tasks', c, proc) = Places(tasks, c, proc)
  BY <1>1, ElapseKeeps
<1>. QED BY <1>2 DEF Pending, Left, EndingTask

(* do_delay_task leaves as many as were left.                              *)
LEMMA FinishTaskPending ==
  ASSUME TypeInv, FinishTask, NEW c, NEW proc
  PROVE  Pending(c, proc)' = Pending(c, proc)
<1>. DEFINE q == Delete(tasks, 1)
            t == [tasks[1] EXCEPT !.delta = ret]
<1>1. pc = "ran" /\ pc' = "check" /\ EndingTask' = {}
  BY DEF FinishTask, EndingTask
<1>2. Pending(c, proc)' = Count(tasks', c, proc)
  BY <1>1 DEF Pending, Left, Count
<1>3. CASE dtp = "freed"
  BY <1>1, <1>2, <1>3 DEF FinishTask, timers, Pending, Left, EndingTask, Count
<1>4. CASE dtp = "queued"
  <2>1. tasks # <<>> /\ Typed /\ skew \in Int /\ ret \in Int
    BY <1>1, <1>4, Constants DEF TypeInv, TaskAtHead, Typed, TimeTyped, RunTyped
  <2>2. tasks \in Seq(Entry) /\ 1 \in 1..Len(tasks) /\ tasks[1] \in Entry
    BY <2>1, FirstTaskType
  <2>3. q \in Seq(Entry)
    BY <2>2, DeleteMoves
  <2>4. Count(q, c, proc) = Cardinality(Places(tasks, c, proc) \ {1})
    BY <2>2, DeleteCount
  <2>5. CASE ret >= 0
    <3>1. EndingTask = {}
      BY <2>1, <2>5 DEF EndingTask
    <3>2. tasks' = Insert(Elapse(q, skew), t)
      BY <1>4, <2>1, <2>5 DEF FinishTask
    <3>3. t \in Entry /\ t.arg = tasks[1].arg /\ t.proc = tasks[1].proc
      BY <2>1, <2>2, <2>5 DEF Entry
    <3>. HIDE DEF q, t
    <3>4. /\ Elapse(q, skew) \in Seq(Entry)
          /\ Places(Elapse(q, skew), c, proc) = Places(q, c, proc)
      BY <2>1, <2>3, ElapseKeeps
    <3>5. Count(Elapse(q, skew), c, proc) = Count(q, c, proc)
      BY <3>4 DEF Count
    <3>6. Count(tasks', c, proc) = IF t.arg = c /\ t.proc = proc
                                   THEN Count(q, c, proc) + 1
                                   ELSE Count(q, c, proc)
      BY <3>2, <3>3, <3>4, <3>5, InsertCount
    <3>7. Count(q, c, proc) = IF tasks[1].arg = c /\ tasks[1].proc = proc
                              THEN Count(tasks, c, proc) - 1
                              ELSE Count(tasks, c, proc)
      BY <2>1, <2>2, <2>4, CountLessFirst
    <3>8. Count(tasks, c, proc) \in Nat
      BY <2>2, PlacesFinite
    <3>9. Count(tasks', c, proc) = Count(tasks, c, proc)
      BY <3>3, <3>6, <3>7, <3>8
    <3>. QED BY <1>2, <2>1, <3>1, <3>9, PendingType
  <2>6. CASE ~(ret >= 0)
    <3>1. EndingTask = {1}
      BY <1>1, <1>4, <2>1, <2>6 DEF EndingTask
    <3>2. tasks' = q
      BY <1>4, <2>1, <2>6 DEF FinishTask
    <3>. QED BY <1>2, <2>4, <3>1, <3>2 DEF Pending, Left
  <2>. QED BY <2>5, <2>6
<1>. QED BY <1>3, <1>4 DEF TypeInv, Typed, RunTyped

(* The session that is destroyed has none left.                            *)
LEMMA DestroyPending ==
  ASSUME OwnInv, TypeInv', NEW c \in Client, DestroyRtspSess(c),
         pc # "ran", pc' # "ran" \/ dtp' = "freed", NEW d, NEW proc
  PROVE  Pending(d, proc)' = IF d = c /\ Destroyable(c) THEN 0
                             ELSE Pending(d, proc)
<1>1. EndingTask = {} /\ EndingTask' = {}
  BY DEF EndingTask
<1>2. /\ tasks \in Seq(Entry)
      /\ Pending(d, proc) = Count(tasks, d, proc)
      /\ Pending(d, proc)' = Count(tasks', d, proc)
  BY <1>1 DEF Pending, Left, Count, OwnInv, TypeInv, Typed, TimeTyped
<1>3. CASE Destroyable(c)
  <2>1. tasks' = DeleteArg(tasks, c)
    BY <1>3 DEF DestroyRtspSess, DoDestroy, DestroyLeaving
  <2>2. Count(tasks', d, proc) = IF d = c THEN 0 ELSE Count(tasks, d, proc)
    BY <1>2, <2>1, DeleteArgCount
  <2>. QED BY <1>2, <1>3, <2>2
<1>4. CASE ~Destroyable(c)
  <2>1. tasks' = tasks
    BY <1>4 DEF DestroyRtspSess
  <2>. QED BY <1>2, <1>4, <2>1
<1>. QED BY <1>3, <1>4

(* A request that was handled is not left, one that is retried is.         *)
LEMMA HandlingPending ==
  ASSUME TypeInv, NEW c, NEW s, NEW outcome, Handling(c, s, outcome), TypeInv'
  PROVE  /\ \A d : Pending(d, "req")' =
                     IF d = c /\ outcome # "RETRY" THEN Pending(d, "req") - 1
                     ELSE Pending(d, "req")
         /\ Pending(c, "req") > 0
         /\ \A d : Pending(d, "prefetch")' =
                     IF d = c /\ CreateTask("prefetch", c, 0)
                     THEN Pending(d, "prefetch") + 1
                     ELSE Pending(d, "prefetch")
<1>1. /\ pc = "run" /\ tasks # <<>> /\ tasks[1].delta = 0
      /\ tasks[1].proc = "req" /\ c = tasks[1].arg /\ c \in Client
      /\ s \in SessSet /\ outcome \in Outcomes /\ Handled(c, s, outcome)
      /\ AddsTask(c, s) /\ Typed /\ Typed'
  BY DEF Handling, TypeInv
<1>2. /\ pc' = "ran" /\ dtp' = "queued"
      /\ IF outcome = "RETRY" THEN ret' = Ms40 ELSE ret' = -1
  BY <1>1, HandledEffect
<1>3. EndingTask = {} /\ EndingTask' = IF outcome = "RETRY" THEN {} ELSE {1}
  BY <1>1, <1>2, Constants DEF EndingTask
<1>4. tasks' # <<>> /\ SameTask(tasks[1], tasks'[1])
  BY <1>1, AddsTaskType
<1>5. \A d, proc : Pending(d, proc) = Count(tasks, d, proc)
  BY <1>3 DEF Pending, Left, Count
<1>6. /\ tasks \in Seq(Entry) /\ tasks' \in Seq(Entry)
      /\ \A d, proc : Count(tasks, d, proc) \in Nat
  BY <1>1, PlacesFinite DEF Typed, TimeTyped
<1>7. Count(tasks, c, "req") # 0
  <2>1. 1 \in Places(tasks, c, "req")
    BY <1>1, FirstTaskType DEF Places
  <2>. QED BY <1>6, <2>1, PlacesFinite
<1>8. \A d : Count(tasks', d, "req") = Count(tasks, d, "req")
  <2>1. CASE UNCHANGED timers
    BY <2>1 DEF timers
  <2>2. CASE CreateTask("prefetch", c, 0)
    BY <1>1, <2>2, CreateCount
  <2>3. CASE CreateTask("destroy", c, Ms10)
    BY <1>1, <2>3, CreateCount, Constants
  <2>. QED BY <1>1, <2>1, <2>2, <2>3 DEF AddsTask
<1>9. \A d : Count(tasks', d, "prefetch") =
               IF d = c /\ CreateTask("prefetch", c, 0)
               THEN Count(tasks, d, "prefetch") + 1
               ELSE Count(tasks, d, "prefetch")
  <2>1. CASE CreateTask("prefetch", c, 0)
    BY <1>1, <2>1, CreateCount
  <2>2. CASE UNCHANGED timers /\ ~CreateTask("prefetch", c, 0)
    BY <2>2 DEF timers
  <2>3. CASE CreateTask("destroy", c, Ms10) /\ ~CreateTask("prefetch", c, 0)
    BY <1>1, <2>3, CreateCount, Constants
  <2>. QED BY <1>1, <2>1, <2>2, <2>3 DEF AddsTask
<1>10. \A d, proc : Pending(d, proc)' =
         IF outcome # "RETRY" /\ d = c /\ proc = "req"
         THEN Count(tasks', d, proc) - 1 ELSE Count(tasks', d, proc)
  <2>1. CASE outcome = "RETRY"
    BY <1>3, <2>1 DEF Pending, Left, Count
  <2>2. CASE outcome # "RETRY"
    <3>1. \A d, proc : Pending(d, proc)' = Cardinality(Places(tasks', d, proc) \ {1})
      BY <1>3, <2>2 DEF Pending, Left
    <3>. QED BY <1>1, <1>4, <1>6, <2>2, <3>1, CountLessFirst, ZenonT(90) DEF SameTask
  <2>. QED BY <2>1, <2>2
<1>. QED BY <1>5, <1>6, <1>7, <1>8, <1>9, <1>10

(* A frame's task is left unless the stream has stopped.                   *)
LEMMA PrefetchPending ==
  ASSUME TypeInv, PrefetchFrm, NEW d, NEW proc
  PROVE  Pending(d, proc)' = IF d = tasks[1].arg /\ proc = "prefetch" /\ ret' < 0
                             THEN Pending(d, proc) - 1 ELSE Pending(d, proc)
<1>1. /\ pc = "run" /\ tasks # <<>> /\ tasks[1].proc = "prefetch"
      /\ pc' = "ran" /\ dtp' = "queued" /\ ret' \in Int /\ tasks' = tasks
      /\ tasks \in Seq(Entry)
  BY PrefetchEffect DEF TypeInv, Typed, TimeTyped, timers
<1>2. EndingTask = {} /\ EndingTask' = IF ret' < 0 THEN {1} ELSE {}
  BY <1>1 DEF EndingTask
<1>3. Pending(d, proc) = Count(tasks, d, proc)
  BY <1>2 DEF Pending, Left, Count
<1>4. CASE ret' < 0
  <2>1. Pending(d, proc)' = Cardinality(Places(tasks, d, proc) \ {1})
    BY <1>1, <1>2, <1>4 DEF Pending, Left
  <2>. QED BY <1>1, <1>3, <1>4, <2>1, CountLessFirst
<1>5. CASE ~(ret' < 0)
  BY <1>1, <1>2, <1>5 DEF Pending, Left
<1>. QED BY <1>4, <1>5

---------------------------------------------------------------------------
(* What a session still has to answer is no more than its client waits     *)
(* for, and one that waits to retry its request has a task that will.      *)
Queued(c) == Cardinality(RespPlaces(sess[c].out))

NothingExtra == \A c \in Client :
  Len(cli[c].rx) + Pending(c, "req") + Queued(c) <= cli[c].owed

RetryPending == \A c \in Client :
  sess[c].handling = "RETRY" => Pending(c, "req") # 0

Answering == NothingExtra /\ RetryPending
AnswerInv == OwnInv /\ Answering

(* The terms of the sum.                                                   *)
LEMMA CountTypes ==
  ASSUME Typed, NEW c \in Client
  PROVE  /\ Len(cli[c].rx) \in Nat /\ cli[c].owed \in Int
         /\ Pending(c, "req") \in Nat /\ Queued(c) \in Nat
         /\ sess[c].out \in Seq({"resp", "rtp"})
<1>1. cli[c] \in CliSet /\ sess[c] \in SessSet
  BY DEF Typed, NetTyped, StoreTyped
<1>2. sess[c].out \in Seq({"resp", "rtp"})
  BY <1>1, SessType
<1>. QED BY <1>1, <1>2, CliType, PendingType, RespFinite DEF Queued

(* A client waits for no less than nothing.                                *)
LEMMA OwedIsNat ==
  ASSUME AnswerInv, NEW c \in Client PROVE cli[c].owed \in Nat
<1>1. \A l, p, q \in Nat, o \in Int : l + p + q <= o => o \in Nat
  OBVIOUS
<1>2. /\ Len(cli[c].rx) \in Nat /\ cli[c].owed \in Int
      /\ Pending(c, "req") \in Nat /\ Queued(c) \in Nat
  BY CountTypes DEF AnswerInv, OwnInv, TypeInv
<1>3. Len(cli[c].rx) + Pending(c, "req") + Queued(c) <= cli[c].owed
  BY DEF AnswerInv, Answering, NothingExtra
<1>. QED BY <1>1, <1>2, <1>3, Zenon

(* Of a client without a session nothing is to be answered.                *)
LEMMA IdleHasNothing ==
  ASSUME OwnInv, NEW c \in Client, cli[c].conn = "idle"
  PROVE  /\ c \notin Listed /\ sess[c] = NewSess /\ cli[c].rx = <<>>
         /\ \A proc : Pending(c, proc) = 0
         /\ Queued(c) = 0
<1>1. c \notin Listed /\ sess[c] = NewSess /\ cli[c].rx = <<>>
  BY DEF OwnInv, Owned, OneSession
<1>2. \A proc : Left(c, proc) = {}
  BY <1>1 DEF OwnInv, Owned, TaskArgLive, Left, Places
<1>3. \A proc : Pending(c, proc) = 0
  BY <1>2, FS_EmptySet DEF Pending
<1>4. Queued(c) = 0
  <2>1. Len(<<>>) = 0
    OBVIOUS
  <2>2. RespPlaces(<<>>) = {}
    BY <2>1 DEF RespPlaces
  <2>3. sess[c].out = <<>>
    BY <1>1 DEF NewSess
  <2>. QED BY <2>2, <2>3, FS_EmptySet, Zenon DEF Queued
<1>. QED BY <1>1, <1>3, <1>4

(* How the sum may change: a request comes, is dropped, read, answered,    *)
(* not answered, or its answer is sent.                                    *)
LEMMA SumComes ==
  \A l, p, q \in Nat, o \in Int : l + p + q <= o => (l + 1) + p + q <= o + 1
OBVIOUS

LEMMA SumDropped ==
  \A l, k, p, q \in Nat, o \in Int : k <= l /\ l + p + q <= o => k + p + q <= o
OBVIOUS

LEMMA SumRead ==
  \A l, p, q \in Nat, o \in Int :
    l > 0 /\ l + p + q <= o => 0 + (p + 1) + q <= o
OBVIOUS

LEMMA SumAnswered ==
  \A l, p, q \in Nat, o \in Int :
    /\ l + p + q <= o => l + (p - 1) + (q + 1) <= o
    /\ l + p + q <= o => l + (p - 1) + q <= o
OBVIOUS

LEMMA SumSent ==
  \A l, p, q \in Nat, o \in Int : l + p + q <= o => l + p + (q - 1) <= o - 1
OBVIOUS

(* A step after which no client has more to be answered, or waits for less *)
LEMMA QuietAnswers ==
  ASSUME AnswerInv, Typed',
         \A c \in Client : /\ Len(cli'[c].rx) <= Len(cli[c].rx)
                           /\ cli'[c].owed = cli[c].owed,
         \A c \in Client : Pending(c, "req")' = Pending(c, "req"),
         \A c \in Client : /\ Queued(c)' = Queued(c)
                           /\ sess'[c].handling = sess[c].handling
  PROVE  Answering'
<1>1. \A c \in Client : /\ Len(cli[c].rx) \in Nat /\ cli[c].owed \in Int
                        /\ Pending(c, "req") \in Nat /\ Queued(c) \in Nat
                        /\ Len(cli'[c].rx) \in Nat
  BY CountTypes DEF AnswerInv, OwnInv, TypeInv
<1>2. NothingExtra'
  <2>. SUFFICES ASSUME NEW c \in Client
                PROVE  Len(cli'[c].rx) + Pending(c, "req")' + Queued(c)'
                         <= cli'[c].owed
    BY DEF NothingExtra
  <2>1. Len(cli[c].rx) + Pending(c, "req") + Queued(c) <= cli[c].owed
    BY DEF AnswerInv, Answering, NothingExtra
  <2>2. /\ Len(cli'[c].rx) <= Len(cli[c].rx) /\ cli'[c].owed = cli[c].owed
        /\ Pending(c, "req")' = Pending(c, "req") /\ Queued(c)' = Queued(c)
    OBVIOUS
  <2>3. /\ Len(cli[c].rx) \in Nat /\ cli[c].owed \in Int
        /\ Pending(c, "req") \in Nat /\ Queued(c) \in Nat
        /\ Len(cli'[c].rx) \in Nat
    BY <1>1
  <2>4. Len(cli'[c].rx) + Pending(c, "req") + Queued(c) <= cli[c].owed
    BY <2>1, <2>2, <2>3, SumDropped, Zenon
  <2>. QED BY <2>2, <2>4
<1>3. RetryPending'
  BY DEF AnswerInv, Answering, RetryPending
<1>. QED BY <1>2, <1>3 DEF Answering

LEMMA SameSession ==
  ASSUME UNCHANGED <<cli, sess>>
  PROVE  \A c \in Client : /\ cli'[c].rx = cli[c].rx /\ cli'[c].owed = cli[c].owed
                           /\ Queued(c)' = Queued(c)
                           /\ sess'[c].handling = sess[c].handling
BY DEF Queued

(* In particular a step that leaves clients and sessions alone.            *)
LEMMA StillAnswers ==
  ASSUME AnswerInv, Typed', UNCHANGED <<cli, sess>>,
         \A c \in Client : Pending(c, "req")' = Pending(c, "req")
  PROVE  Answering'
<1>1. \A c \in Client : /\ Len(cli'[c].rx) <= Len(cli[c].rx)
                        /\ cli'[c].owed = cli[c].owed
                        /\ Queued(c)' = Queued(c)
                        /\ sess'[c].handling = sess[c].handling
  BY SameSession, CountTypes DEF AnswerInv, OwnInv, TypeInv
<1>. QED BY <1>1, QuietAnswers

(* Steps that only wait or look leave as many to run.                      *)
LEMMA WaitingPending ==
  ASSUME AnswerInv, Typed', NEW proc,
         \/ Tick \/ CheckSendQueue \/ StartTask \/ UNCHANGED vars
         \/ \E outs : EpollWait(outs)
         \/ \E e \in batch : NoHandler(e) \/ Writable(e) \/ Accept(e)
  PROVE  \A c \in Client : Pending(c, proc)' = Pending(c, proc)
<1>. Typed
  BY DEF AnswerInv, OwnInv, TypeInv
<1>1. CASE Tick \/ UNCHANGED vars
  BY <1>1, SamePending DEF Tick, run, vars, timers
<1>2. CASE CheckSendQueue
  <2>1. pc # "ran" /\ pc' # "ran" /\ tasks' \in {tasks, Elapse(tasks, skew)}
    BY <1>2 DEF CheckSendQueue, timers
  <2>. QED BY <2>1, ElapsedPending
<1>3. CASE StartTask
  <2>1. pc # "ran" /\ pc' # "ran" /\ tasks' \in {tasks, Elapse(tasks, skew)}
    BY <1>3 DEF StartTask, timers
  <2>. QED BY <2>1, ElapsedPending
<1>4. CASE \E outs : EpollWait(outs)
  <2>1. pc # "ran" /\ pc' # "ran" /\ tasks' \in {tasks, Elapse(tasks, skew)}
    BY <1>4 DEF EpollWait, timers
  <2>. QED BY <2>1, ElapsedPending
<1>5. CASE \E e \in batch : NoHandler(e) \/ Writable(e) \/ Accept(e)
  <2>1. pc # "ran" /\ pc' # "ran" /\ tasks' \in {tasks, Elapse(tasks, skew)}
    BY <1>5 DEF NoHandler, Writable, Accept, Take, timers
  <2>. QED BY <2>1, ElapsedPending
<1>. QED BY <1>1, <1>2, <1>3, <1>4, <1>5

(* From here to ConsumeAnswers: one lemma for each step, which keeps what  *)
(* is to be answered.                                                      *)
LEMMA InitAnswers == Init => Answering
<1>. SUFFICES ASSUME Init PROVE Answering
  OBVIOUS
<1>1. /\ \A c \in Client : cli[c] = Offline /\ sess[c] = NewSess
      /\ tasks = <<>> /\ pc = "check"
  BY DEF Init
<1>2. Len(<<>>) = 0
  OBVIOUS
<1>3. \A c : Pending(c, "req") = 0
  <2>1. \A c : Left(c, "req") = {}
    BY <1>1, <1>2 DEF Left, Places
  <2>. QED BY <2>1, FS_EmptySet DEF Pending
<1>4. RespPlaces(<<>>) = {}
  BY <1>2 DEF RespPlaces
<1>5. \A c \in Client : Queued(c) = 0
  <2>1. \A c \in Client : sess[c].out = <<>>
    BY <1>1 DEF NewSess
  <2>. QED BY <1>4, <2>1, FS_EmptySet, Zenon DEF Queued
<1>6. \A c \in Client : /\ cli[c].rx = <<>> /\ cli[c].owed = 0
                        /\ sess[c].handling = "INIT"
  BY <1>1 DEF Offline, NewSess
<1>. QED BY <1>2, <1>3, <1>5, <1>6 DEF Answering, NothingExtra, RetryPending

LEMMA ConnectAnswers ==
  ASSUME AnswerInv, Typed', NEW c \in Client, Connect(c) PROVE Answering'
<1>1. /\ cli \in [Client -> CliSet] /\ cli[c].conn = "idle"
      /\ cli' = [cli EXCEPT ![c] = [Offline EXCEPT !.conn = "up"]]
      /\ sess' = sess
  BY DEF AnswerInv, OwnInv, TypeInv, Typed, NetTyped, Connect, store
<1>2. /\ cli'[c].rx = <<>> /\ cli'[c].owed = 0
      /\ \A d \in Client : d # c => cli'[d] = cli[d]
  BY <1>1 DEF Offline
<1>3. \A d \in Client : Pending(d, "req")' = Pending(d, "req")
  BY SamePending DEF Connect, timers, run
<1>4. \A d \in Client : Queued(d)' = Queued(d)
  BY <1>1 DEF Queued
<1>5. Pending(c, "req") = 0 /\ Queued(c) = 0
  BY <1>1, IdleHasNothing DEF AnswerInv
<1>6. Len(<<>>) = 0 /\ 0 + 0 + 0 <= 0
  OBVIOUS
<1>7. NothingExtra'
  <2>. SUFFICES ASSUME NEW d \in Client
                PROVE  Len(cli'[d].rx) + Pending(d, "req")' + Queued(d)'
                         <= cli'[d].owed
    BY DEF NothingExtra
  <2>1. CASE d = c
    BY <1>2, <1>3, <1>4, <1>5, <1>6, <2>1, Zenon
  <2>2. CASE d # c
    <3>1. Len(cli[d].rx) + Pending(d, "req") + Queued(d) <= cli[d].owed
      BY DEF AnswerInv, Answering, NothingExtra
    <3>. QED BY <1>2, <1>3, <1>4, <2>2, <3>1, Zenon
  <2>. QED BY <2>1, <2>2
<1>8. RetryPending'
  BY <1>1, <1>3 DEF AnswerInv, Answering, RetryPending
<1>. QED BY <1>7, <1>8 DEF Answering

LEMMA LeaveAnswers ==
  ASSUME AnswerInv, Typed', NEW c \in Client, NEW how \in {"fin", "rst"},
         Leave(c, how)
  PROVE  Answering'
<1>1. cli \in [Client -> CliSet]
  BY DEF AnswerInv, OwnInv, TypeInv, Typed, NetTyped
<1>2. \A d \in Client : /\ cli'[d].rx = cli[d].rx \/ cli'[d].rx = <<>>
                        /\ cli'[d].owed = cli[d].owed
  BY <1>1 DEF Leave, CliSet
<1>3. Len(<<>>) = 0
  OBVIOUS
<1>4. \A d \in Client : Len(cli'[d].rx) <= Len(cli[d].rx)
  BY <1>2, <1>3, CountTypes DEF AnswerInv, OwnInv, TypeInv
<1>5. \A d \in Client : Pending(d, "req")' = Pending(d, "req")
  BY SamePending DEF Leave, timers, run
<1>6. \A d \in Client : /\ Queued(d)' = Queued(d)
                        /\ sess'[d].handling = sess[d].handling
  BY DEF Leave, store, Queued
<1>. QED BY <1>2, <1>4, <1>5, <1>6, QuietAnswers

(* A client that sends waits for one answer more.                          *)
LEMMA SendAnswers ==
  ASSUME AnswerInv, Typed', NEW c \in Client, NEW m \in Request, Send(c, m)
  PROVE  Answering'
<1>1. /\ cli \in [Client -> CliSet] /\ Typed
      /\ Len(cli[c].rx) \in Nat /\ cli[c].owed \in Int
      /\ cli[c].rx \in Seq(Request)
  BY CountTypes, CliType DEF AnswerInv, OwnInv, TypeInv, Typed, NetTyped
<1>. DEFINE rx   == Append(cli[c].rx, m)
            owed == cli[c].owed + 1
<1>2. cli' = [cli EXCEPT ![c] = [cli[c] EXCEPT !.rx = rx, !.owed = owed,
                                               !.last = m]]
  BY DEF Send
<1>3. Len(rx) = Len(cli[c].rx) + 1
  BY <1>1, AppendProperties
<1>4. owed = cli[c].owed + 1
  OBVIOUS
<1>. HIDE DEF rx, owed
<1>5. /\ cli'[c].rx = rx /\ cli'[c].owed = owed
      /\ \A d \in Client : d # c => cli'[d] = cli[d]
  BY <1>1, <1>2 DEF CliSet
<1>6. \A d \in Client : Pending(d, "req")' = Pending(d, "req")
  BY SamePending DEF Send, timers, run
<1>7. sess' = sess
  BY DEF Send, store
<1>8. \A d \in Client : Queued(d)' = Queued(d)
  BY <1>7 DEF Queued
<1>9. NothingExtra'
  <2>. SUFFICES ASSUME NEW d \in Client
                PROVE  Len(cli'[d].rx) + Pending(d, "req")' + Queued(d)'
                         <= cli'[d].owed
    BY DEF NothingExtra
  <2>1. Len(cli[d].rx) + Pending(d, "req") + Queued(d) <= cli[d].owed
    BY DEF AnswerInv, Answering, NothingExtra
  <2>2. /\ Len(cli[d].rx) \in Nat /\ cli[d].owed \in Int
        /\ Pending(d, "req") \in Nat /\ Queued(d) \in Nat
    BY <1>1, CountTypes
  <2>3. Pending(d, "req")' = Pending(d, "req") /\ Queued(d)' = Queued(d)
    BY <1>6, <1>8
  <2>4. \/ Len(cli'[d].rx) = Len(cli[d].rx) /\ cli'[d].owed = cli[d].owed
        \/ /\ Len(cli'[d].rx) = Len(cli[d].rx) + 1
           /\ cli'[d].owed = cli[d].owed + 1
    BY <1>3, <1>4, <1>5
  <2>5. (Len(cli[d].rx) + 1) + Pending(d, "req") + Queued(d) <= cli[d].owed + 1
    BY <2>1, <2>2, SumComes, Zenon
  <2>6. Len(cli'[d].rx) + Pending(d, "req") + Queued(d) <= cli'[d].owed
    BY <2>1, <2>4, <2>5, Zenon
  <2>. QED BY <2>3, <2>6, Zenon
<1>10. RetryPending'
  BY <1>6, <1>7 DEF AnswerInv, Answering, RetryPending
<1>. QED BY <1>9, <1>10 DEF Answering

LEMMA AcceptAnswers ==
  ASSUME AnswerInv, Typed', NEW e \in batch, Accept(e) PROVE Answering'
<1>1. \A c \in Client : Pending(c, "req")' = Pending(c, "req")
  BY WaitingPending
<1>2. CASE LowestFree = NoFd
  BY <1>1, <1>2, StillAnswers DEF Accept, net, store
<1>3. CASE LowestFree # NoFd
  <2>. DEFINE c == Head(backlog)
              s == [NewSess EXCEPT !.sd = LowestFree]
  <2>1. cli' = cli /\ sess' = [sess EXCEPT ![c] = s]
    BY <1>3 DEF Accept
  <2>2. /\ backlog # <<>> /\ backlog \in Seq(Client)
        /\ sess \in [Client -> SessSet] /\ OneSession
    BY DEF AnswerInv, OwnInv, TypeInv, Typed, NetTyped, StoreTyped,
       ListenerHasCaller, Accept, Owned
  <2>3. c \in Client /\ c \in Range(backlog)
    BY <2>2, TailRange, HeadTailProperties DEF OneSession
  <2>4. sess[c] = NewSess
    BY <2>2, <2>3 DEF OneSession
  <2>5. s.out = NewSess.out /\ s.handling = NewSess.handling
    BY DEF NewSess
  <2>. HIDE DEF c, s
  <2>6. \A d \in Client : /\ sess'[d].out = sess[d].out
                          /\ sess'[d].handling = sess[d].handling
    BY <2>1, <2>2, <2>3, <2>4, <2>5
  <2>7. \A d \in Client : Queued(d)' = Queued(d)
    BY <2>6 DEF Queued
  <2>8. \A d \in Client : Len(cli'[d].rx) <= Len(cli[d].rx)
    BY <2>1, CountTypes DEF AnswerInv, OwnInv, TypeInv
  <2>. QED BY <1>1, <2>1, <2>6, <2>7, <2>8, QuietAnswers
<1>. QED BY <1>2, <1>3

(* A request read is a task more.                                          *)
LEMMA ReceiveAnswers ==
  ASSUME AnswerInv, Typed', NEW e \in batch, Receive(e) PROVE Answering'
<1>. DEFINE c == Handler(e.fd).arg
            b == Head(cli[c].rx)
<1>1. /\ c \in Client /\ Len(cli[c].rx) > 0
      /\ cli' = [cli EXCEPT ![c].rx = <<>>]
      /\ sess' = [sess EXCEPT ![c].buf = b]
      /\ CreateTask("req", c, 0)
  BY ReceiveOwn DEF AnswerInv
<1>. HIDE DEF c, b
<1>2. cli \in [Client -> CliSet] /\ sess \in [Client -> SessSet] /\ Typed
  BY DEF AnswerInv, OwnInv, TypeInv, Typed, NetTyped, StoreTyped
<1>3. /\ cli'[c].rx = <<>> /\ cli'[c].owed = cli[c].owed
      /\ \A d \in Client : d # c => cli'[d] = cli[d]
  BY <1>1, <1>2 DEF CliSet
<1>4. \A d \in Client : /\ sess'[d].out = sess[d].out
                        /\ sess'[d].handling = sess[d].handling
  BY <1>1, <1>2 DEF SessSet
<1>5. \A d : Pending(d, "req")' = IF d = c THEN Pending(d, "req") + 1
                                  ELSE Pending(d, "req")
  <2>1. pc # "ran" /\ pc' # "ran"
    BY DEF Receive, Take
  <2>2. \A d : /\ Pending(d, "req") = Count(tasks, d, "req")
               /\ Pending(d, "req")' = Count(tasks', d, "req")
    BY <2>1 DEF Pending, Left, EndingTask, Count
  <2>3. \A d : Count(tasks', d, "req") = IF d = c THEN Count(tasks, d, "req") + 1
                                         ELSE Count(tasks, d, "req")
    BY <1>1, <1>2, CreateCount
  <2>. QED BY <2>2, <2>3, Zenon
<1>6. \A d \in Client : Queued(d)' = Queued(d)
  BY <1>4 DEF Queued
<1>7. Len(<<>>) = 0
  OBVIOUS
<1>8. NothingExtra'
  <2>. SUFFICES ASSUME NEW d \in Client
                PROVE  Len(cli'[d].rx) + Pending(d, "req")' + Queued(d)'
                         <= cli'[d].owed
    BY DEF NothingExtra
  <2>1. Len(cli[d].rx) + Pending(d, "req") + Queued(d) <= cli[d].owed
    BY DEF AnswerInv, Answering, NothingExtra
  <2>2. CASE d # c
    BY <1>3, <1>5, <1>6, <2>1, <2>2, Zenon
  <2>3. CASE d = c
    <3>1. /\ Len(cli[c].rx) \in Nat /\ cli[c].owed \in Int
          /\ Pending(c, "req") \in Nat /\ Queued(c) \in Nat
      BY <1>1, <1>2, CountTypes
    <3>2. 0 + (Pending(c, "req") + 1) + Queued(c) <= cli[c].owed
      BY <1>1, <2>1, <2>3, <3>1, SumRead, Zenon
    <3>. QED BY <1>1, <1>3, <1>5, <1>6, <1>7, <2>3, <3>2, Zenon
  <2>. QED BY <2>2, <2>3
<1>9. RetryPending'
  <2>. SUFFICES ASSUME NEW d \in Client, sess'[d].handling = "RETRY"
                PROVE  Pending(d, "req")' # 0
    BY DEF RetryPending
  <2>1. Pending(d, "req") # 0 /\ Pending(d, "req") \in Nat
    BY <1>2, <1>4, CountTypes DEF AnswerInv, Answering, RetryPending
  <2>. QED BY <1>5, <2>1
<1>. QED BY <1>8, <1>9 DEF Answering

(* With a session all that it had to answer is forgotten.                  *)
LEMMA DestroyAnswers ==
  ASSUME AnswerInv, TypeInv', NEW c \in Client, DestroyRtspSess(c),
         pc # "ran", pc' # "ran" \/ dtp' = "freed"
  PROVE  Answering'
<1>1. \A d : Pending(d, "req")' = IF d = c /\ Destroyable(c) THEN 0
                                  ELSE Pending(d, "req")
  BY DestroyPending DEF AnswerInv
<1>2. CASE ~DoDestroy(c)
  <2>1. UNCHANGED <<cli, sess>> /\ ~Destroyable(c)
    BY <1>2 DEF DestroyRtspSess
  <2>2. \A d : Pending(d, "req")' = Pending(d, "req")
    BY <1>1, <2>1
  <2>. QED BY <2>1, <2>2, StillAnswers DEF TypeInv
<1>3. CASE DoDestroy(c) /\ ~Destroyable(c)
  <2>1. FALSE
    <3>1. CASE UNCHANGED <<list, handlers, owner, cli, edge, armedOut, tasks, sess>>
      <4>1. sess'[c] = NewSess
        BY <1>3, DestroyEffect DEF AnswerInv
      <4>. QED BY <1>3, <3>1, <4>1 DEF Destroyable, NewSess
    <3>. QED BY <1>3, <3>1 DEF DestroyRtspSess
  <2>. QED BY <2>1
<1>4. CASE DoDestroy(c) /\ Destroyable(c)
  <2>1. /\ cli' = [d \in Client |->
                     IF d = c THEN Dropped(cli[d])
                     ELSE IF SocketOf(d) \cap Descriptors(c) # {}
                       THEN [cli[d] EXCEPT !.conn = "cut", !.rx = <<>>]
                     ELSE cli[d]]
        /\ sess'[c] = NewSess /\ \A d \in Client : d # c => sess'[d] = sess[d]
        /\ cli \in [Client -> CliSet] /\ Typed
    BY <1>4, DestroyEffect DEF AnswerInv, OwnInv, TypeInv, Typed, NetTyped
  <2>2. Len(<<>>) = 0
    OBVIOUS
  <2>3. /\ cli'[c].rx = <<>> /\ cli'[c].owed \in Nat /\ NewSess.out = <<>>
        /\ NewSess.handling = "INIT"
    <3>1. cli'[c] = Dropped(cli[c]) /\ cli[c] \in CliSet
      BY <2>1
    <3>2. cli'[c].rx = <<>> /\ cli'[c].owed \in {0, cli[c].owed}
      BY <3>1, DroppedType
    <3>. QED BY <3>2, OwedIsNat DEF NewSess
  <2>4. ASSUME NEW d \in Client, d # c
        PROVE  /\ cli'[d].rx = cli[d].rx \/ cli'[d].rx = <<>>
               /\ cli'[d].owed = cli[d].owed
    <3>1. /\ [cli[d] EXCEPT !.conn = "cut", !.rx = <<>>].rx = <<>>
          /\ [cli[d] EXCEPT !.conn = "cut", !.rx = <<>>].owed = cli[d].owed
      BY <2>1 DEF CliSet
    <3>. QED BY <2>1, <2>4, <3>1
  <2>5. Queued(c)' = 0 /\ \A d \in Client : d # c => Queued(d)' = Queued(d)
    <3>1. RespPlaces(<<>>) = {}
      BY <2>2 DEF RespPlaces
    <3>2. Queued(c)' = 0
      BY <2>1, <2>3, <3>1, FS_EmptySet DEF Queued
    <3>. QED BY <2>1, <3>2 DEF Queued
  <2>6. NothingExtra'
    <3>. SUFFICES ASSUME NEW d \in Client
                  PROVE  Len(cli'[d].rx) + Pending(d, "req")' + Queued(d)'
                         <= cli'[d].owed
      BY DEF NothingExtra
    <3>1. CASE d = c
      <4>1. 0 + 0 + 0 <= cli'[c].owed
        BY <2>3
      <4>. QED BY <1>1, <1>4, <2>2, <2>3, <2>5, <3>1, <4>1, Zenon
    <3>2. CASE d # c
      <4>1. Len(cli[d].rx) + Pending(d, "req") + Queued(d) <= cli[d].owed
        BY DEF AnswerInv, Answering, NothingExtra
      <4>2. /\ Len(cli[d].rx) \in Nat /\ cli[d].owed \in Int
            /\ Pending(d, "req") \in Nat /\ Queued(d) \in Nat
        BY <2>1, CountTypes
      <4>3. Len(cli'[d].rx) \in Nat /\ Len(cli'[d].rx) <= Len(cli[d].rx)
        BY <2>2, <2>4, <3>2, <4>2
      <4>4. Len(cli'[d].rx) + Pending(d, "req") + Queued(d) <= cli[d].owed
        BY <4>1, <4>2, <4>3, SumDropped, Zenon
      <4>. QED BY <1>1, <2>4, <2>5, <3>2, <4>4, Zenon
    <3>. QED BY <3>1, <3>2
  <2>7. RetryPending'
    BY <1>1, <2>1, <2>3 DEF RetryPending, AnswerInv, Answering
  <2>. QED BY <2>6, <2>7 DEF Answering
<1>. QED BY <1>2, <1>3, <1>4

LEMMA HangupAnswers ==
  ASSUME AnswerInv, TypeInv', NEW e \in batch, Hangup(e) PROVE Answering'
<1>1. pc # "ran" /\ pc' # "ran" /\ UNCHANGED <<pc, ret, dtp>>
  BY DEF Hangup, Take
<1>2. CASE UNCHANGED <<list, handlers, owner, cli, edge, armedOut, tasks, sess>>
  <2>1. \A c \in Client : Pending(c, "req")' = Pending(c, "req")
    BY <1>1, <1>2, SamePending
  <2>. QED BY <1>2, <2>1, StillAnswers DEF TypeInv
<1>3. CASE \E i \in 1..Len(list) : /\ list[i] \in Client /\ list[i] \in Listed
                                   /\ DestroyRtspSess(list[i])
  BY <1>1, <1>3, DestroyAnswers
<1>. QED BY <1>2, <1>3, HangupChoice DEF AnswerInv, OwnInv, TypeInv

LEMMA ReceiveFailsAnswers ==
  ASSUME AnswerInv, TypeInv', NEW e \in batch, ReceiveFails(e)
  PROVE  Answering'
<1>1. pc # "ran" /\ pc' # "ran"
  BY DEF ReceiveFails, NothingReceived, Take
<1>2. Handler(e.fd).arg \in Client
  BY RtspHandler DEF AnswerInv, ReceiveFails, NothingReceived, Handles
<1>. QED BY <1>1, <1>2, DestroyAnswers DEF ReceiveFails

LEMMA DestroyTaskAnswers ==
  ASSUME AnswerInv, TypeInv', DestroyTask PROVE Answering'
<1>. DEFINE c == tasks[1].arg
<1>1. /\ pc = "run" /\ c \in Client /\ DestroyRtspSess(c)
      /\ IF Destroyable(c)
         THEN dtp' = "freed"
         ELSE ret' = Ms10 /\ UNCHANGED <<cli, tasks, sess>>
  BY DestroyTaskEffect DEF AnswerInv, OwnInv
<1>2. CASE Destroyable(c)
  BY <1>1, <1>2, DestroyAnswers
<1>3. CASE ~Destroyable(c)
  <2>1. EndingTask = {} /\ EndingTask' = {}
    BY <1>1, <1>3, Constants DEF EndingTask
  <2>2. \A d \in Client : Pending(d, "req")' = Pending(d, "req")
    BY <1>1, <1>3, <2>1 DEF Pending, Left
  <2>. QED BY <1>1, <1>3, <2>2, StillAnswers DEF TypeInv
<1>. QED BY <1>2, <1>3

LEMMA FinishTaskAnswers ==
  ASSUME AnswerInv, TypeInv', FinishTask PROVE Answering'
<1>1. UNCHANGED <<cli, sess>>
  BY DEF FinishTask, net, store
<1>2. \A c \in Client : Pending(c, "req")' = Pending(c, "req")
  BY FinishTaskPending DEF AnswerInv, OwnInv
<1>. QED BY <1>1, <1>2, StillAnswers DEF TypeInv

LEMMA QuietStepAnswers ==
  ASSUME AnswerInv, TypeInv',
         \/ Tick \/ CheckSendQueue \/ StartTask \/ UNCHANGED vars
         \/ \E outs : EpollWait(outs)
         \/ \E e \in batch : NoHandler(e) \/ Writable(e)
  PROVE  Answering'
<1>1. UNCHANGED <<cli, sess>>
  BY DEF Tick, CheckSendQueue, StartTask, EpollWait, NoHandler, Writable,
     vars, net, store
<1>2. \A c \in Client : Pending(c, "req")' = Pending(c, "req")
  BY WaitingPending DEF TypeInv
<1>. QED BY <1>1, <1>2, StillAnswers DEF TypeInv

(* A frame is no answer.                                                   *)
LEMMA PrefetchAnswers ==
  ASSUME AnswerInv, TypeInv', PrefetchFrm PROVE Answering'
<1>. DEFINE c == tasks[1].arg
            o == Append(sess[c].out, "rtp")
<1>1. /\ c \in Client /\ tasks[1].proc = "prefetch"
      /\ UNCHANGED cli
      /\ UNCHANGED sess \/ sess' = [sess EXCEPT ![c].out = o]
  BY PrefetchEffect DEF AnswerInv, OwnInv, net
<1>2. sess \in [Client -> SessSet] /\ sess[c].out \in Seq({"resp", "rtp"})
  BY <1>1, SessType DEF AnswerInv, OwnInv, TypeInv, Typed, StoreTyped
<1>3. Cardinality(RespPlaces(o)) = Cardinality(RespPlaces(sess[c].out))
  BY <1>2, RespAppend
<1>. HIDE DEF c, o
<1>4. \A d \in Client : /\ \/ sess'[d].out = sess[d].out
                           \/ d = c /\ sess'[d].out = o
                        /\ sess'[d].handling = sess[d].handling
  BY <1>1, <1>2 DEF SessSet
<1>5. \A d \in Client : Queued(d)' = Queued(d)
  BY <1>3, <1>4 DEF Queued
<1>6. \A d \in Client : Pending(d, "req")' = Pending(d, "req")
  BY PrefetchPending DEF AnswerInv, OwnInv
<1>7. \A d \in Client : Len(cli'[d].rx) <= Len(cli[d].rx)
  BY <1>1, CountTypes DEF AnswerInv, OwnInv, TypeInv
<1>. QED BY <1>1, <1>4, <1>5, <1>6, <1>7, QuietAnswers DEF TypeInv

(* A request that is handled is left no more, and has at most one answer.  *)
LEMMA HandlingAnswers ==
  ASSUME AnswerInv, TypeInv', NEW c, NEW s, NEW outcome, Handling(c, s, outcome)
  PROVE  Answering'
<1>1. /\ c \in Client /\ s \in SessSet /\ outcome \in Outcomes
      /\ Handled(c, s, outcome) /\ s.out = sess[c].out
      /\ Typed /\ TypeInv
  BY DEF Handling, AnswerInv, OwnInv, TypeInv
<1>2. /\ \A d : Pending(d, "req")' =
                  IF d = c /\ outcome # "RETRY" THEN Pending(d, "req") - 1
                  ELSE Pending(d, "req")
      /\ Pending(c, "req") > 0
  BY <1>1, HandlingPending
<1>3. /\ UNCHANGED cli /\ \A d \in Client : d # c => sess'[d] = sess[d]
      /\ sess'[c].out = IF outcome \in {"HANDLED", "ERROR"}
                        THEN Append(s.out, "resp") ELSE s.out
      /\ outcome # "RETRY" => sess'[c].handling = "INIT"
  BY <1>1, HandledEffect DEF net
<1>4. \A d \in Client : d # c => Queued(d)' = Queued(d)
  BY <1>3 DEF Queued
<1>5. Queued(c)' = IF outcome \in {"HANDLED", "ERROR"} THEN Queued(c) + 1
                   ELSE Queued(c)
  <2>1. sess[c].out \in Seq({"resp", "rtp"})
    BY <1>1, CountTypes
  <2>2. Cardinality(RespPlaces(Append(sess[c].out, "resp"))) =
          Cardinality(RespPlaces(sess[c].out)) + 1
    BY <2>1, RespAppend
  <2>. QED BY <1>1, <1>3, <2>2 DEF Queued
<1>6. /\ Len(cli[c].rx) \in Nat /\ cli[c].owed \in Int
      /\ Pending(c, "req") \in Nat /\ Queued(c) \in Nat
  BY <1>1, CountTypes
<1>7. NothingExtra'
  <2>. SUFFICES ASSUME NEW d \in Client
                PROVE  Len(cli'[d].rx) + Pending(d, "req")' + Queued(d)'
                         <= cli'[d].owed
    BY DEF NothingExtra
  <2>1. Len(cli[d].rx) + Pending(d, "req") + Queued(d) <= cli[d].owed
    BY DEF AnswerInv, Answering, NothingExtra
  <2>2. CASE d # c
    BY <1>2, <1>3, <1>4, <2>1, <2>2, Zenon
  <2>3. CASE d = c /\ outcome = "RETRY"
    <3>1. Queued(c)' = Queued(c) /\ Pending(c, "req")' = Pending(c, "req")
      BY <1>2, <1>5, <2>3
    <3>. QED BY <1>3, <2>1, <2>3, <3>1, Zenon
  <2>4. CASE d = c /\ outcome # "RETRY"
    <3>1. /\ Len(cli[c].rx) + (Pending(c, "req") - 1) + (Queued(c) + 1) <= cli[c].owed
          /\ Len(cli[c].rx) + (Pending(c, "req") - 1) + Queued(c) <= cli[c].owed
      BY <1>6, <2>1, <2>4, SumAnswered, Zenon
    <3>2. Pending(c, "req")' = Pending(c, "req") - 1
      BY <1>2, <2>4
    <3>3. Queued(c)' = Queued(c) + 1 \/ Queued(c)' = Queued(c)
      BY <1>5, Zenon
    <3>. QED BY <1>3, <2>4, <3>1, <3>2, <3>3, Zenon
  <2>. QED BY <2>2, <2>3, <2>4
<1>8. RetryPending'
  <2>. SUFFICES ASSUME NEW d \in Client, sess'[d].handling = "RETRY"
                PROVE  Pending(d, "req")' # 0
    BY DEF RetryPending
  <2>1. CASE d # c
    BY <1>2, <1>3, <2>1 DEF AnswerInv, Answering, RetryPending
  <2>2. CASE d = c
    <3>1. outcome = "RETRY"
      BY <1>3, <2>2
    <3>. QED BY <1>2, <1>6, <2>2, <3>1
  <2>. QED BY <2>1, <2>2
<1>. QED BY <1>7, <1>8 DEF Answering

(* An answer goes to the client of the session, who waits for one less.    *)
LEMMA ConsumeAnswers ==
  ASSUME AnswerInv, TypeInv', Consume PROVE Answering'
<1>. DEFINE h   == Handler(now)
            c   == h.arg
            out == sess[c].out
            fd  == SendTarget(c)
            t   == Tail(out)
            Less(d) == [cli[d] EXCEPT !.owed = @ - 1]
<1>1. /\ now # NoFd /\ pc = "events" /\ h \in HandlerSet /\ c \in Client
      /\ out \in Seq({"resp", "rtp"})
      /\ HandlerIndex(handlers, now) # 0
      /\ UNCHANGED <<pc, ret, dtp>>
  BY SentEffect DEF AnswerInv, OwnInv, TypeInv, HandledNow, Consume
<1>2. \/ UNCHANGED <<net, store, tasks>>
      \/ out # <<>> /\ DestroyRtspSess(c)
      \/ /\ out # <<>> /\ Consumes(h, Head(out))
         /\ sess' = [sess EXCEPT ![c].out = t]
         /\ cli' = [d \in Client |-> IF d \in Peers(fd) /\ Head(out) = "resp"
                                     THEN Less(d) ELSE cli[d]]
         /\ tasks' = tasks
  BY SentEffect DEF AnswerInv, OwnInv
<1>3. CASE UNCHANGED <<net, store, tasks>>
  <2>1. \A d \in Client : Pending(d, "req")' = Pending(d, "req")
    BY <1>1, <1>3, SamePending
  <2>. QED BY <1>3, <2>1, StillAnswers DEF TypeInv, net, store
<1>4. CASE out # <<>> /\ DestroyRtspSess(c)
  BY <1>1, <1>4, DestroyAnswers
<1>5. CASE /\ out # <<>> /\ Consumes(h, Head(out))
           /\ sess' = [sess EXCEPT ![c].out = t]
           /\ cli' = [d \in Client |-> IF d \in Peers(fd) /\ Head(out) = "resp"
                                       THEN Less(d) ELSE cli[d]]
           /\ tasks' = tasks
  <2>1. /\ cli \in [Client -> CliSet] /\ sess \in [Client -> SessSet] /\ Typed
    BY DEF AnswerInv, OwnInv, TypeInv, Typed, NetTyped, StoreTyped
  <2>2. \A d \in Client : Pending(d, "req")' = Pending(d, "req")
    BY <1>1, <1>5, SamePending
  <2>3. \A d \in Client : /\ \/ d # c /\ sess'[d].out = sess[d].out
                             \/ d = c /\ sess'[d].out = t
                          /\ sess'[d].handling = sess[d].handling
    <3>1. c \in Client /\ sess' = [sess EXCEPT ![c].out = t]
      BY <1>1, <1>5
    <3>. HIDE DEF c, t
    <3>. QED BY <2>1, <3>1 DEF SessSet
  <2>4. Cardinality(RespPlaces(t)) =
          IF Head(out) = "resp" THEN Cardinality(RespPlaces(out)) - 1
          ELSE Cardinality(RespPlaces(out))
    BY <1>1, <1>5, RespTail
  <2>5. ASSUME NEW d \in Client, d = c
        PROVE  /\ Head(out) = "resp" => Queued(d)' = Queued(d) - 1
               /\ Head(out) # "resp" => Queued(d)' = Queued(d)
    <3>1. sess'[d].out = t
      BY <2>3, <2>5
    <3>2. Queued(d)' = Cardinality(RespPlaces(t))
      BY <3>1, Zenon DEF Queued
    <3>3. Queued(d) = Cardinality(RespPlaces(out))
      BY <2>5, Zenon DEF Queued
    <3>. HIDE DEF out, t, c
    <3>. QED BY <2>4, <3>2, <3>3, Zenon
  <2>6. \A d \in Client : d # c => Queued(d)' = Queued(d)
    BY <2>3 DEF Queued
  <2>7. \A d \in Client : Less(d).rx = cli[d].rx /\ Less(d).owed = cli[d].owed - 1
    BY <2>1 DEF CliSet
  <2>8. CASE Head(out) # "resp"
    <3>1. cli' = cli
      BY <1>5, <2>1, <2>8
    <3>2. \A d \in Client : Queued(d)' = Queued(d)
      <4>. HIDE DEF out, c
      <4>. QED BY <2>5, <2>6, <2>8, Zenon
    <3>3. \A d \in Client : Len(cli'[d].rx) <= Len(cli[d].rx)
      BY <2>1, <3>1, CountTypes
    <3>. QED BY <2>2, <2>3, <3>1, <3>2, <3>3, QuietAnswers DEF TypeInv
  <2>9. CASE Head(out) = "resp"
    <3>1. h.proc = "rtsp" /\ fd = sess[c].sd
      BY <1>5, <2>9 DEF Consumes, SendTarget
    <3>2. fd \in Fd /\ owner[fd] = Tcp(c)
      BY <1>1, <3>1, RtspHandler DEF AnswerInv
    <3>3. \A d \in Client : d \in Peers(fd) <=> d = c
      BY <1>1, <3>2 DEF Peers, SocketOf, Tcp
    <3>4. \A d \in Client : cli'[d] = IF d = c THEN Less(d) ELSE cli[d]
      BY <1>5, <2>9, <3>3
    <3>. HIDE DEF h, c, out, fd, t, Less
    <3>5. NothingExtra'
      <4>. SUFFICES ASSUME NEW d \in Client
                    PROVE  Len(cli'[d].rx) + Pending(d, "req")' + Queued(d)'
                             <= cli'[d].owed
        BY DEF NothingExtra
      <4>1. Len(cli[d].rx) + Pending(d, "req") + Queued(d) <= cli[d].owed
        BY DEF AnswerInv, Answering, NothingExtra
      <4>2. CASE d # c
        BY <2>2, <2>6, <3>4, <4>1, <4>2, Zenon
      <4>3. CASE d = c
        <5>1. /\ Len(cli[d].rx) \in Nat /\ cli[d].owed \in Int
              /\ Pending(d, "req") \in Nat /\ Queued(d) \in Nat
          BY <2>1, CountTypes
        <5>2. Len(cli[d].rx) + Pending(d, "req") + (Queued(d) - 1)
                <= cli[d].owed - 1
          BY <4>1, <5>1, SumSent, Zenon
        <5>3. Queued(d)' = Queued(d) - 1
          BY <2>5, <2>9, <4>3, Zenon
        <5>4. cli'[d] = Less(d)
          BY <3>4, <4>3
        <5>5. cli'[d].rx = cli[d].rx /\ cli'[d].owed = cli[d].owed - 1
          BY <2>7, <5>4
        <5>. QED BY <2>2, <5>2, <5>3, <5>5, Zenon
      <4>. QED BY <4>2, <4>3
    <3>6. RetryPending'
      BY <2>2, <2>3 DEF AnswerInv, Answering, RetryPending
    <3>. QED BY <3>5, <3>6 DEF Answering
  <2>. QED BY <2>8, <2>9
<1>. QED BY <1>2, <1>3, <1>4, <1>5, SMTT(60)

(* No step of the server or of a client answers twice, or forgets a retry. *)
THEOREM NextAnswers == AnswerInv /\ [Next]_vars => AnswerInv'
<1>. SUFFICES ASSUME AnswerInv, [Next]_vars PROVE Answering'
  BY NextOwned DEF AnswerInv
<1>1. TypeInv' /\ Typed'
  BY NextOwned DEF AnswerInv, OwnInv, TypeInv
<1>2. CASE HandleRequest
  <2>1. PICK c, s, outcome : Handling(c, s, outcome)
    BY <1>2, RequestIsHandling DEF AnswerInv, OwnInv
  <2>. QED BY <1>1, <2>1, HandlingAnswers
<1>. QED BY <1>1, <1>2, Steps, ConnectAnswers, SendAnswers, LeaveAnswers,
        QuietStepAnswers, AcceptAnswers, HangupAnswers, ReceiveAnswers,
        ReceiveFailsAnswers, ConsumeAnswers, FinishTaskAnswers,
        PrefetchAnswers, DestroyTaskAnswers

LEMMA AnswersHold == Spec => []AnswerInv
<1>1. Init => AnswerInv
  BY InitTypeInv, InitOwned, InitAnswers DEF AnswerInv, OwnInv
<1>2. AnswerInv /\ [Next]_vars => AnswerInv'
  BY NextAnswers
<1>. QED BY <1>1, <1>2, PTL DEF Spec

(* What is counted in the property is no more than what is counted here.   *)
LEMMA AnswersAreFew == AnswerInv => OneAnswerPerRequest
<1>. SUFFICES ASSUME AnswerInv, NEW c \in Listed
              PROVE  Len(cli[c].rx) + Cardinality(Unanswered(c))
                       + Cardinality(Answers(c)) <= cli[c].owed
  BY DEF OneAnswerPerRequest
<1>1. c \in Client /\ Typed
  BY SeqValues, ElementOfSeq DEF AnswerInv, OwnInv, TypeInv, Typed, StoreTyped,
     Listed
<1>2. Unanswered(c) \subseteq Left(c, "req")
  BY DEF Unanswered, TasksOf, Left, Places
<1>3. /\ Cardinality(Unanswered(c)) \in Nat
      /\ Cardinality(Unanswered(c)) <= Pending(c, "req")
  BY <1>1, <1>2, PendingType, FS_Subset, FS_CardinalityType DEF Pending
<1>4. Cardinality(Answers(c)) = Queued(c)
  BY DEF Answers, Queued, RespPlaces
<1>5. Len(cli[c].rx) + Pending(c, "req") + Queued(c) <= cli[c].owed
  BY <1>1 DEF AnswerInv, Answering, NothingExtra
<1>6. /\ Len(cli[c].rx) \in Nat /\ cli[c].owed \in Int
      /\ Pending(c, "req") \in Nat /\ Queued(c) \in Nat
  BY <1>1, CountTypes
<1>7. \A l, u, p, q \in Nat, o \in Int :
        u <= p /\ l + p + q <= o => l + u + q <= o
  OBVIOUS
<1>8. Len(cli[c].rx) + Cardinality(Unanswered(c)) + Queued(c) <= cli[c].owed
  BY <1>3, <1>5, <1>6, <1>7, Zenon
<1>. QED BY <1>4, <1>8, Zenon

(* No request is answered twice, however retries, the loss of the          *)
(* connection and the clean-up of sessions interleave with its handling:   *)
(* handle_rtsp_req queues an answer only when its task ends.               *)
THEOREM RequestsAreAnsweredOnce == Spec => []OneAnswerPerRequest
BY AnswersHold, AnswersAreFew, PTL

(* A session that cannot be destroyed, because a request of it is being    *)
(* retried, always has the task that will retry it.                        *)
THEOREM RetriesHaveTasks == Spec => []RetryHasTask
<1>1. AnswerInv => RetryHasTask
  <2>. SUFFICES ASSUME AnswerInv, NEW c \in Listed, sess[c].handling = "RETRY"
                PROVE  TasksOf(c, "req") # {}
    BY DEF RetryHasTask
  <2>1. c \in Client /\ Typed
    BY SeqValues, ElementOfSeq DEF AnswerInv, OwnInv, TypeInv, Typed,
       StoreTyped, Listed
  <2>2. Pending(c, "req") # 0
    BY <2>1 DEF AnswerInv, Answering, RetryPending
  <2>3. Left(c, "req") # {}
    BY <2>1, <2>2, PendingType
  <2>. QED BY <2>3 DEF Left, TasksOf, Places
<1>. QED BY <1>1, AnswersHold, PTL

---------------------------------------------------------------------------
(* What a step does to a client and its session.  Most do nothing but send *)
(* what is queued, queue a frame, lose what is unread.                     *)
SameButOut(d) ==
  /\ sess'[d].state = sess[d].state /\ sess'[d].handling = sess[d].handling
  /\ sess'[d].intlvd = sess[d].intlvd /\ sess'[d].udp = sess[d].udp
  /\ sess'[d].buf = sess[d].buf /\ sess'[d].req = sess[d].req
  /\ sess'[d].streaming = sess[d].streaming

Connects(d) == /\ d \notin Listed /\ sess[d] = NewSess
               /\ Pending(d, "req") = 0
               /\ cli'[d].rx = <<>> /\ cli'[d].owed = 0

QuietFor(d) ==
  /\ \/ /\ cli'[d].last = cli[d].last
        /\ cli'[d].rx = cli[d].rx \/ cli'[d].rx = <<>>
        /\ cli'[d].owed = cli[d].owed \/ cli'[d].owed = cli[d].owed - 1
     \/ Connects(d)
  /\ SameButOut(d)
  /\ Pending(d, "req")' = Pending(d, "req")
  /\ Pumping(d) => Pending(d, "prefetch")' = Pending(d, "prefetch")

QuietStep ==
  /\ UNCHANGED <<owner, list, handlers>>
  /\ \A d \in Client : QuietFor(d)

PendingSame == \A d, proc : Pending(d, proc)' = Pending(d, proc)

SendStep(c, m) == Send(c, m) /\ PendingSame

AcceptStep(c) ==
  /\ c \notin Listed /\ Listed' = Listed \cup {c}
  /\ SameButOut(c) /\ sess'[c].out = sess[c].out
  /\ \A d \in Client : d # c => sess'[d] = sess[d]
  /\ UNCHANGED cli
  /\ \E fd \in Fd :
       LET h == [sd |-> fd, proc |-> "rtsp", arg |-> c]
       IN  /\ owner' = [owner EXCEPT ![fd] = Tcp(c)]
           /\ handlers' = Append(handlers, h)
           /\ Range(handlers') = Range(handlers) \cup {h}
  /\ PendingSame

ReceiveStep(c) ==
  /\ cli[c].rx # <<>>
  /\ cli' = [cli EXCEPT ![c].rx = <<>>]
  /\ sess' = [sess EXCEPT ![c].buf = Head(cli[c].rx)]
  /\ UNCHANGED <<owner, list, handlers>>
  /\ \A d : Pending(d, "req")' = IF d = c THEN Pending(d, "req") + 1
                                 ELSE Pending(d, "req")
  /\ \A d : Pending(d, "prefetch")' = Pending(d, "prefetch")

DestroyStep(c) ==
  /\ DoDestroy(c)
  /\ \A d, proc : Pending(d, proc)' = IF d = c THEN 0 ELSE Pending(d, proc)

(* From here to SendKind: one lemma for each step, which is one of these.  *)
LEMMA UnchangedIsQuiet ==
  ASSUME AnswerInv, UNCHANGED <<cli, owner, list, handlers, sess>>,
         \A d \in Client : Pending(d, "req")' = Pending(d, "req"),
         \A d \in Client :
           Pumping(d) => Pending(d, "prefetch")' = Pending(d, "prefetch")
  PROVE  QuietStep
BY DEF QuietStep, QuietFor, SameButOut

(* A session of which only the send queue changes.                         *)
LEMMA OutOnly ==
  ASSUME sess \in [Client -> SessSet], NEW c \in Client, NEW o,
         sess' = [sess EXCEPT ![c].out = o]
  PROVE  \A d \in Client : SameButOut(d)
<1>1. \A d \in Client : d # c => sess'[d] = sess[d]
  OBVIOUS
<1>2. sess'[c] = [sess[c] EXCEPT !.out = o]
  OBVIOUS
<1>3. SameButOut(c)
  BY <1>2 DEF SessSet, SameButOut
<1>. QED BY <1>1, <1>3 DEF SameButOut

LEMMA WaitingIsQuiet ==
  ASSUME AnswerInv, TypeInv',
         \/ Tick \/ CheckSendQueue \/ StartTask \/ UNCHANGED vars
         \/ \E outs : EpollWait(outs)
         \/ \E e \in batch : NoHandler(e) \/ Writable(e)
  PROVE  QuietStep
<1>1. UNCHANGED <<cli, owner, list, handlers, sess>>
  BY DEF Tick, CheckSendQueue, StartTask, EpollWait, NoHandler, Writable,
     vars, net, store
<1>2. \A proc : \A d \in Client : Pending(d, proc)' = Pending(d, proc)
  BY WaitingPending DEF TypeInv
<1>. QED BY <1>1, <1>2, UnchangedIsQuiet

LEMMA FinishIsQuiet ==
  ASSUME AnswerInv, FinishTask PROVE QuietStep
<1>1. UNCHANGED <<cli, owner, list, handlers, sess>>
  BY DEF FinishTask, net, store
<1>2. \A proc : \A d \in Client : Pending(d, proc)' = Pending(d, proc)
  BY FinishTaskPending DEF AnswerInv, OwnInv
<1>. QED BY <1>1, <1>2, UnchangedIsQuiet

LEMMA ConnectIsQuiet ==
  ASSUME AnswerInv, NEW c \in Client, Connect(c) PROVE QuietStep
<1>1. cli \in [Client -> CliSet] /\ cli[c].conn = "idle"
  BY DEF AnswerInv, OwnInv, TypeInv, Typed, NetTyped, Connect
<1>2. /\ cli'[c].rx = <<>> /\ cli'[c].owed = 0
      /\ \A d \in Client : d # c => cli'[d] = cli[d]
  BY <1>1 DEF Connect, Offline
<1>3. \A d, proc : Pending(d, proc)' = Pending(d, proc)
  BY SamePending DEF Connect, timers, run
<1>4. UNCHANGED <<owner, list, handlers, sess>>
  BY DEF Connect, store
<1>5. Connects(c)
  BY <1>1, <1>2, IdleHasNothing DEF AnswerInv, Connects
<1>6. \A d \in Client : SameButOut(d) /\ (d # c => cli'[d] = cli[d])
  BY <1>2, <1>4 DEF SameButOut
<1>7. \A d \in Client : QuietFor(d)
  BY <1>3, <1>5, <1>6 DEF QuietFor
<1>. QED BY <1>4, <1>7 DEF QuietStep

LEMMA LeaveIsQuiet ==
  ASSUME AnswerInv, NEW c \in Client, NEW how \in {"fin", "rst"}, Leave(c, how)
  PROVE  QuietStep
<1>1. cli \in [Client -> CliSet]
  BY DEF AnswerInv, OwnInv, TypeInv, Typed, NetTyped
<1>2. \A d \in Client : /\ cli'[d].rx = cli[d].rx \/ cli'[d].rx = <<>>
                        /\ cli'[d].owed = cli[d].owed
                        /\ cli'[d].last = cli[d].last
  BY <1>1 DEF Leave, CliSet
<1>3. \A d, proc : Pending(d, proc)' = Pending(d, proc)
  BY SamePending DEF Leave, timers, run
<1>4. UNCHANGED <<owner, list, handlers, sess>>
  BY DEF Leave, store
<1>. QED BY <1>2, <1>3, <1>4 DEF QuietStep, QuietFor, SameButOut

(* destroy_rtsp_sess destroys the session or leaves all as it is.          *)
LEMMA DestroyKinds ==
  ASSUME AnswerInv, TypeInv', NEW c \in Client, DestroyRtspSess(c),
         pc # "ran", pc' # "ran" \/ dtp' = "freed"
  PROVE  QuietStep \/ DestroyStep(c)
<1>1. \A d, proc : Pending(d, proc)' = IF d = c /\ Destroyable(c) THEN 0
                                       ELSE Pending(d, proc)
  BY DestroyPending DEF AnswerInv
<1>2. CASE Destroyable(c) /\ DoDestroy(c)
  BY <1>1, <1>2 DEF DestroyStep
<1>3. CASE /\ ~Destroyable(c)
           /\ UNCHANGED <<list, handlers, owner, cli, edge, armedOut, tasks, sess>>
  BY <1>1, <1>3, UnchangedIsQuiet
<1>. QED BY <1>2, <1>3 DEF DestroyRtspSess

LEMMA HangupKinds ==
  ASSUME AnswerInv, TypeInv', NEW e \in batch, Hangup(e)
  PROVE  QuietStep \/ \E c \in Client : DestroyStep(c)
<1>1. pc # "ran" /\ pc' # "ran" /\ UNCHANGED <<pc, ret, dtp>>
  BY DEF Hangup, Take
<1>2. CASE UNCHANGED <<list, handlers, owner, cli, edge, armedOut, tasks, sess>>
  <2>1. \A d, proc : Pending(d, proc)' = Pending(d, proc)
    BY <1>1, <1>2, SamePending
  <2>. QED BY <1>2, <2>1, UnchangedIsQuiet
<1>3. CASE \E i \in 1..Len(list) : /\ list[i] \in Client /\ list[i] \in Listed
                                   /\ DestroyRtspSess(list[i])
  BY <1>1, <1>3, DestroyKinds
<1>. QED BY <1>2, <1>3, HangupChoice DEF AnswerInv, OwnInv, TypeInv

LEMMA ReceiveFailsKinds ==
  ASSUME AnswerInv, TypeInv', NEW e \in batch, ReceiveFails(e)
  PROVE  QuietStep \/ \E c \in Client : DestroyStep(c)
<1>1. pc # "ran" /\ pc' # "ran"
  BY DEF ReceiveFails, NothingReceived, Take
<1>2. Handler(e.fd).arg \in Client
  BY RtspHandler DEF AnswerInv, ReceiveFails, NothingReceived, Handles
<1>. QED BY <1>1, <1>2, DestroyKinds DEF ReceiveFails

LEMMA DestroyTaskKinds ==
  ASSUME AnswerInv, TypeInv', DestroyTask
  PROVE  QuietStep \/ \E c \in Client : DestroyStep(c)
<1>. DEFINE c == tasks[1].arg
<1>1. /\ pc = "run" /\ c \in Client /\ DestroyRtspSess(c)
      /\ IF Destroyable(c)
         THEN dtp' = "freed"
         ELSE /\ ret' = Ms10
              /\ UNCHANGED <<list, handlers, owner, cli, edge, armedOut, tasks, sess>>
  BY DestroyTaskEffect DEF AnswerInv, OwnInv
<1>2. CASE Destroyable(c)
  BY <1>1, <1>2, DestroyKinds
<1>3. CASE ~Destroyable(c)
  <2>1. EndingTask = {} /\ EndingTask' = {}
    BY <1>1, <1>3, Constants DEF EndingTask
  <2>2. \A d, proc : Pending(d, proc)' = Pending(d, proc)
    BY <1>1, <1>3, <2>1 DEF Pending, Left
  <2>. QED BY <1>1, <1>3, <2>2, UnchangedIsQuiet
<1>. QED BY <1>2, <1>3

LEMMA PrefetchIsQuiet ==
  ASSUME AnswerInv, PrefetchFrm PROVE QuietStep
<1>. DEFINE c == tasks[1].arg
            o == Append(sess[c].out, "rtp")
<1>1. /\ c \in Client /\ UNCHANGED <<cli, owner, list, handlers>>
      /\ UNCHANGED sess \/ sess' = [sess EXCEPT ![c].out = o]
      /\ Pumping(c) => ret' >= 0
      /\ ret' \in Int
  BY PrefetchEffect DEF AnswerInv, OwnInv, net
<1>2. sess \in [Client -> SessSet]
  BY DEF AnswerInv, OwnInv, TypeInv, Typed, StoreTyped
<1>3. \A d, proc : Pending(d, proc)' =
        IF d = c /\ proc = "prefetch" /\ ret' < 0 THEN Pending(d, proc) - 1
        ELSE Pending(d, proc)
  BY PrefetchPending DEF AnswerInv, OwnInv
<1>. HIDE DEF c, o
<1>4. \A d \in Client : SameButOut(d)
  <2>1. UNCHANGED sess => \A d \in Client : SameButOut(d)
    BY DEF SameButOut
  <2>. QED BY <1>1, <1>2, <2>1, OutOnly
<1>5. \A d : Pending(d, "req")' = Pending(d, "req")
  BY <1>3
<1>6. \A d \in Client :
        Pumping(d) => Pending(d, "prefetch")' = Pending(d, "prefetch")
  <2>1. \A d \in Client : d # c => Pending(d, "prefetch")' = Pending(d, "prefetch")
    BY <1>3
  <2>2. ~(ret' < 0) => \A d : Pending(d, "prefetch")' = Pending(d, "prefetch")
    BY <1>3
  <2>3. Pumping(c) => ~(ret' < 0)
    BY <1>1
  <2>. QED BY <2>1, <2>2, <2>3
<1>. QED BY <1>1, <1>4, <1>5, <1>6 DEF QuietStep, QuietFor

LEMMA ConsumeKinds ==
  ASSUME AnswerInv, TypeInv', Consume
  PROVE  QuietStep \/ \E c \in Client : DestroyStep(c)
<1>. DEFINE h   == Handler(now)
            c   == h.arg
            out == sess[c].out
            fd  == SendTarget(c)
            t   == Tail(out)
            Less(d) == [cli[d] EXCEPT !.owed = @ - 1]
<1>1. pc = "events" /\ c \in Client /\ UNCHANGED <<pc, ret, dtp>>
  BY SentEffect DEF AnswerInv, OwnInv, Consume
<1>2. \/ UNCHANGED <<net, store, tasks>>
      \/ out # <<>> /\ DestroyRtspSess(c)
      \/ /\ sess' = [sess EXCEPT ![c].out = t]
         /\ cli' = [d \in Client |-> IF d \in Peers(fd) /\ Head(out) = "resp"
                                     THEN Less(d) ELSE cli[d]]
         /\ UNCHANGED <<tasks, owner, list, handlers>>
  BY SentEffect DEF AnswerInv, OwnInv
<1>3. CASE UNCHANGED <<net, store, tasks>>
  <2>1. \A d, proc : Pending(d, proc)' = Pending(d, proc)
    BY <1>1, <1>3, SamePending
  <2>. QED BY <1>3, <2>1, UnchangedIsQuiet DEF net, store
<1>4. CASE out # <<>> /\ DestroyRtspSess(c)
  BY <1>1, <1>4, DestroyKinds
<1>5. CASE /\ sess' = [sess EXCEPT ![c].out = t]
           /\ cli' = [d \in Client |-> IF d \in Peers(fd) /\ Head(out) = "resp"
                                       THEN Less(d) ELSE cli[d]]
           /\ UNCHANGED <<tasks, owner, list, handlers>>
  <2>1. cli \in [Client -> CliSet] /\ sess \in [Client -> SessSet]
    BY DEF AnswerInv, OwnInv, TypeInv, Typed, NetTyped, StoreTyped
  <2>2. \A d, proc : Pending(d, proc)' = Pending(d, proc)
    BY <1>1, <1>5, SamePending
  <2>3. \A d \in Client : SameButOut(d)
    <3>1. c \in Client /\ sess' = [sess EXCEPT ![c].out = t]
      BY <1>1, <1>5
    <3>. HIDE DEF c, t
    <3>. QED BY <2>1, <3>1, OutOnly
  <2>4. \A d \in Client : /\ Less(d).rx = cli[d].rx /\ Less(d).last = cli[d].last
                          /\ Less(d).owed = cli[d].owed - 1
    BY <2>1 DEF CliSet
  <2>5. \A d \in Client : cli'[d] = Less(d) \/ cli'[d] = cli[d]
    BY <1>5
  <2>. HIDE DEF Less
  <2>6. \A d \in Client : /\ cli'[d].rx = cli[d].rx /\ cli'[d].last = cli[d].last
                          /\ \/ cli'[d].owed = cli[d].owed - 1
                             \/ cli'[d].owed = cli[d].owed
    BY <2>4, <2>5
  <2>. QED BY <1>5, <2>2, <2>3, <2>6 DEF QuietStep, QuietFor
<1>. QED BY <1>2, <1>3, <1>4, <1>5, SMTT(60)

LEMMA AcceptKinds ==
  ASSUME AnswerInv, TypeInv', NEW e \in batch, Accept(e)
  PROVE  QuietStep \/ \E c \in Client : AcceptStep(c)
<1>1. \A proc : \A d \in Client : Pending(d, proc)' = Pending(d, proc)
  BY WaitingPending DEF TypeInv
<1>2. CASE LowestFree = NoFd
  BY <1>1, <1>2, UnchangedIsQuiet DEF Accept, net, store
<1>3. CASE LowestFree # NoFd
  <2>. DEFINE c  == Head(backlog)
              fd == LowestFree
              s  == [NewSess EXCEPT !.sd = fd]
              h  == [sd |-> fd, proc |-> "rtsp", arg |-> c]
  <2>1. /\ cli' = cli /\ sess' = [sess EXCEPT ![c] = s]
        /\ owner' = [owner EXCEPT ![fd] = Tcp(c)]
        /\ list' = <<c>> \o list /\ handlers' = Append(handlers, h)
    BY <1>3 DEF Accept
  <2>2. /\ backlog # <<>> /\ backlog \in Seq(Client) /\ list \in Seq(Client)
        /\ handlers \in Seq(HandlerSet)
        /\ sess \in [Client -> SessSet] /\ OneSession
    BY DEF AnswerInv, OwnInv, TypeInv, Typed, NetTyped, StoreTyped,
       ListenerHasCaller, Accept, Owned
  <2>3. c \in Client /\ c \in Range(backlog)
    BY <2>2, TailRange, HeadTailProperties DEF OneSession
  <2>4. sess[c] = NewSess /\ c \notin Listed
    BY <2>2, <2>3 DEF OneSession
  <2>5. Listed' = Listed \cup {c}
    BY <2>1, <2>2, <2>3, ConsRange DEF Listed
  <2>6. fd \in Fd /\ h \in HandlerSet
    BY <1>3, <2>3, LowestFreeType DEF HandlerSet
  <2>. HIDE DEF h
  <2>7. Range(handlers') = Range(handlers) \cup {h}
    BY <2>1, <2>2, <2>6, AppendRange
  <2>8. /\ s.state = NewSess.state /\ s.handling = NewSess.handling
        /\ s.intlvd = NewSess.intlvd /\ s.udp = NewSess.udp
        /\ s.buf = NewSess.buf /\ s.req = NewSess.req
        /\ s.streaming = NewSess.streaming /\ s.out = NewSess.out
    BY DEF NewSess
  <2>. HIDE DEF c, s, fd
  <2>9. sess'[c] = s /\ \A d \in Client : d # c => sess'[d] = sess[d]
    BY <2>1, <2>2, <2>3
  <2>10. SameButOut(c) /\ sess'[c].out = sess[c].out
    BY <2>4, <2>8, <2>9 DEF SameButOut
  <2>11. \A d, proc : Pending(d, proc)' = Pending(d, proc)
    <3>1. /\ pc # "ran" /\ UNCHANGED <<tasks, pc, ret, dtp>>
      BY DEF Accept, Take, timers
    <3>. QED BY <3>1, SamePending
  <2>. USE DEF h
  <2>12. AcceptStep(c)
    BY <2>1, <2>4, <2>5, <2>6, <2>7, <2>9, <2>10, <2>11 DEF AcceptStep, PendingSame
  <2>. QED BY <2>3, <2>12
<1>. QED BY <1>2, <1>3

LEMMA ReceiveKind ==
  ASSUME AnswerInv, TypeInv', NEW e \in batch, Receive(e)
  PROVE  \E c \in Client : ReceiveStep(c)
<1>. DEFINE c == Handler(e.fd).arg
<1>1. /\ c \in Client /\ cli[c].rx # <<>>
      /\ cli' = [cli EXCEPT ![c].rx = <<>>]
      /\ sess' = [sess EXCEPT ![c].buf = Head(cli[c].rx)]
      /\ CreateTask("req", c, 0)
  BY ReceiveOwn DEF AnswerInv
<1>. HIDE DEF c
<1>2. pc # "ran" /\ pc' # "ran" /\ UNCHANGED <<owner, list, handlers>> /\ Typed
  BY DEF Receive, Take, AnswerInv, OwnInv, TypeInv
<1>3. \A d, proc : /\ Pending(d, proc) = Count(tasks, d, proc)
                   /\ Pending(d, proc)' = Count(tasks', d, proc)
  BY <1>2 DEF Pending, Left, EndingTask, Count
<1>4. \A d, proc : Count(tasks', d, proc) = IF d = c /\ proc = "req"
                                            THEN Count(tasks, d, proc) + 1
                                            ELSE Count(tasks, d, proc)
  BY <1>1, <1>2, CreateCount
<1>5. /\ \A d : Pending(d, "req")' = IF d = c THEN Pending(d, "req") + 1
                                     ELSE Pending(d, "req")
      /\ \A d : Pending(d, "prefetch")' = Pending(d, "prefetch")
  BY <1>3, <1>4
<1>. QED BY <1>1, <1>2, <1>5 DEF ReceiveStep

LEMMA SendKind ==
  ASSUME NEW c \in Client, NEW m \in Request, Send(c, m) PROVE SendStep(c, m)
BY SamePending DEF Send, SendStep, PendingSame, timers, run

(* The six kinds of step.                                                  *)
LEMMA StepKinds ==
  ASSUME AnswerInv, [Next]_vars
  PROVE  \/ QuietStep
         \/ \E c \in Client, m \in Request : SendStep(c, m)
         \/ \E c \in Client : AcceptStep(c)
         \/ \E c \in Client : ReceiveStep(c)
         \/ \E c \in Client : DestroyStep(c)
         \/ \E c, s, outcome : Handling(c, s, outcome)
<1>1. TypeInv' /\ TypeInv
  BY NextOwned DEF AnswerInv, OwnInv
<1>2. CASE HandleRequest
  BY <1>1, <1>2, RequestIsHandling
<1>. QED BY <1>1, <1>2, Steps, ConnectIsQuiet, SendKind, LeaveIsQuiet,
        WaitingIsQuiet, AcceptKinds, HangupKinds, ReceiveKind,
        ReceiveFailsKinds, ConsumeKinds, FinishIsQuiet,
        PrefetchIsQuiet, DestroyTaskKinds

---------------------------------------------------------------------------
(* With one request out at a time, it is the last that was sent, wherever  *)
(* it is: unread, or in the session that waits to handle it.               *)
LastIs(c) ==
  /\ cli[c].owed <= 1
  /\ cli[c].rx # <<>> => cli[c].rx = <<cli[c].last>>
  /\ Pending(c, "req") # 0 => Current(c) = cli[c].last

OneRequest == \A c \in Client : LastIs(c)
LastInv    == AnswerInv /\ OneRequest /\ Outstanding = 1

Waiting(c) == cli[c].rx # <<>> \/ Pending(c, "req") # 0

(* What the sum says when a client waits for one answer at most.           *)
LEMMA SumOne ==
  \A l, p, q \in Nat, o \in Int : l + p + q <= o =>
    /\ o < 1 => l = 0 /\ p = 0
    /\ o <= 1 /\ p # 0 => p - 1 = 0 /\ l = 0
    /\ o <= 1 /\ l # 0 => p = 0
OBVIOUS

LEMMA OneLeft ==
  ASSUME AnswerInv, NEW c \in Client
  PROVE  /\ cli[c].owed < 1 => cli[c].rx = <<>> /\ Pending(c, "req") = 0
         /\ cli[c].owed <= 1 /\ Pending(c, "req") # 0 =>
              Pending(c, "req") - 1 = 0 /\ cli[c].rx = <<>>
         /\ cli[c].owed <= 1 /\ cli[c].rx # <<>> => Pending(c, "req") = 0
<1>1. /\ Len(cli[c].rx) \in Nat /\ cli[c].owed \in Int
      /\ Pending(c, "req") \in Nat /\ Queued(c) \in Nat
  BY CountTypes DEF AnswerInv, OwnInv, TypeInv
<1>2. Len(cli[c].rx) + Pending(c, "req") + Queued(c) <= cli[c].owed
  BY DEF AnswerInv, Answering, NothingExtra
<1>3. /\ cli[c].owed < 1 => Len(cli[c].rx) = 0 /\ Pending(c, "req") = 0
      /\ cli[c].owed <= 1 /\ Pending(c, "req") # 0 =>
           Pending(c, "req") - 1 = 0 /\ Len(cli[c].rx) = 0
      /\ cli[c].owed <= 1 /\ Len(cli[c].rx) # 0 => Pending(c, "req") = 0
  BY <1>1, <1>2, SumOne, Zenon
<1>4. Len(cli[c].rx) = 0 <=> cli[c].rx = <<>>
  <2>1. cli[c].rx \in Seq(Request)
    BY CliType DEF AnswerInv, OwnInv, TypeInv, Typed, NetTyped
  <2>. QED BY <2>1, EmptySeq
<1>. QED BY <1>3, <1>4, Zenon

(* From here to HandlingLast: one lemma for each kind of step, which keeps *)
(* the last request the only one.                                          *)
LEMMA QuietLast ==
  ASSUME LastInv, QuietStep PROVE OneRequest'
<1>. SUFFICES ASSUME NEW c \in Client PROVE LastIs(c)'
  BY DEF OneRequest
<1>1. QuietFor(c) /\ LastIs(c) /\ cli[c].owed \in Int
  BY CountTypes DEF QuietStep, LastInv, OneRequest, AnswerInv, OwnInv, TypeInv
<1>2. cli'[c].owed <= 1
  BY <1>1 DEF QuietFor, LastIs, Connects
<1>3. Current(c)' = Current(c)
  BY <1>1 DEF QuietFor, SameButOut, Current
<1>. QED BY <1>1, <1>2, <1>3 DEF QuietFor, LastIs, Connects

LEMMA SendLast ==
  ASSUME LastInv, NEW c \in Client, NEW m \in Request, SendStep(c, m)
  PROVE  /\ OneRequest' /\ cli'[c].last = m
         /\ <<cli[c].last, m>> \in Follows
         /\ \A d \in Client : d # c => cli'[d] = cli[d]
         /\ UNCHANGED <<sess, owner, list, handlers>>
<1>. DEFINE rx   == Append(cli[c].rx, m)
            owed == cli[c].owed + 1
<1>1. /\ cli \in [Client -> CliSet] /\ cli[c].owed \in Int
      /\ cli[c].owed < 1
  BY CountTypes DEF LastInv, AnswerInv, OwnInv, TypeInv, Typed, NetTyped,
     SendStep, Send
<1>2. cli' = [cli EXCEPT ![c] = [cli[c] EXCEPT !.rx = rx, !.owed = owed,
                                               !.last = m]]
  BY DEF SendStep, Send
<1>3. cli[c].rx = <<>> /\ Pending(c, "req") = 0
  BY <1>1, OneLeft DEF LastInv
<1>4. rx = <<m>> /\ owed <= 1
  BY <1>1, <1>3
<1>. HIDE DEF rx, owed
<1>5. /\ cli'[c].rx = rx /\ cli'[c].owed = owed /\ cli'[c].last = m
      /\ \A d \in Client : d # c => cli'[d] = cli[d]
  BY <1>1, <1>2 DEF CliSet
<1>6. UNCHANGED <<sess, owner, list, handlers>>
  BY DEF SendStep, Send, store
<1>7. \A d : Pending(d, "req")' = Pending(d, "req")
  BY DEF SendStep, PendingSame
<1>8. OneRequest'
  <2>. SUFFICES ASSUME NEW d \in Client PROVE LastIs(d)'
    BY DEF OneRequest
  <2>1. CASE d = c
    BY <1>3, <1>4, <1>5, <1>7, <2>1 DEF LastIs
  <2>2. CASE d # c
    BY <1>5, <1>6, <1>7, <2>2 DEF LastInv, OneRequest, LastIs, Current
  <2>. QED BY <2>1, <2>2
<1>. QED BY <1>5, <1>6, <1>8 DEF SendStep, Send

LEMMA AcceptLast ==
  ASSUME LastInv, NEW c \in Client, AcceptStep(c) PROVE OneRequest'
<1>. SUFFICES ASSUME NEW d \in Client PROVE LastIs(d)'
  BY DEF OneRequest
<1>1. LastIs(d)
  BY DEF LastInv, OneRequest
<1>2. Current(d)' = Current(d)
  BY DEF AcceptStep, SameButOut, Current
<1>3. Pending(d, "req")' = Pending(d, "req") /\ cli' = cli
  BY DEF AcceptStep, PendingSame
<1>. QED BY <1>1, <1>2, <1>3 DEF LastIs

(* What a request read does to the session: it was waiting for nothing.    *)
LEMMA ReceiveLast ==
  ASSUME LastInv, NEW c \in Client, ReceiveStep(c)
  PROVE  /\ OneRequest'
         /\ \A d \in Client : /\ cli'[d].last = cli[d].last
                              /\ sess'[d].intlvd = sess[d].intlvd
                              /\ sess'[d].udp = sess[d].udp
                              /\ sess'[d].state = sess[d].state
                              /\ sess'[d].handling = sess[d].handling
                              /\ sess'[d].streaming = sess[d].streaming
                              /\ d # c => cli'[d] = cli[d]
<1>. DEFINE b == Head(cli[c].rx)
<1>1. cli \in [Client -> CliSet] /\ sess \in [Client -> SessSet] /\ Typed
  BY DEF LastInv, AnswerInv, OwnInv, TypeInv, Typed, NetTyped, StoreTyped
<1>2. /\ cli[c].rx # <<>> /\ cli' = [cli EXCEPT ![c].rx = <<>>]
      /\ sess' = [sess EXCEPT ![c].buf = b]
  BY DEF ReceiveStep
<1>3. /\ LastIs(c) /\ b = cli[c].last
  BY <1>2 DEF LastInv, OneRequest, LastIs
<1>. HIDE DEF b
<1>4. /\ cli'[c].rx = <<>> /\ cli'[c].owed = cli[c].owed
      /\ cli'[c].last = cli[c].last
      /\ \A d \in Client : d # c => cli'[d] = cli[d]
  BY <1>1, <1>2 DEF CliSet
<1>5. \A d \in Client : d # c => sess'[d] = sess[d]
  BY <1>1, <1>2
<1>6. /\ sess'[c].buf = b /\ sess'[c].handling = sess[c].handling
      /\ sess'[c].intlvd = sess[c].intlvd /\ sess'[c].udp = sess[c].udp
      /\ sess'[c].state = sess[c].state
      /\ sess'[c].streaming = sess[c].streaming
  <2>1. sess'[c] = [sess[c] EXCEPT !.buf = b]
    BY <1>1, <1>2
  <2>. QED BY <1>1, <2>1 DEF SessSet
<1>7. sess[c].handling # "RETRY"
  <2>1. Pending(c, "req") = 0
    BY <1>2, <1>3, OneLeft DEF LastInv, LastIs
  <2>. QED BY <2>1 DEF LastInv, AnswerInv, Answering, RetryPending
<1>8. OneRequest'
  <2>. SUFFICES ASSUME NEW d \in Client PROVE LastIs(d)'
    BY DEF OneRequest
  <2>1. CASE d = c
    <3>1. Current(c)' = b
      BY <1>6, <1>7 DEF Current
    <3>. QED BY <1>3, <1>4, <2>1, <3>1 DEF LastIs
  <2>2. CASE d # c
    <3>1. Pending(d, "req")' = Pending(d, "req")
      BY <2>2 DEF ReceiveStep
    <3>2. LastIs(d) /\ cli'[d] = cli[d] /\ Current(d)' = Current(d)
      BY <1>4, <1>5, <2>2 DEF LastInv, OneRequest, Current
    <3>. QED BY <3>1, <3>2 DEF LastIs
  <2>. QED BY <2>1, <2>2
<1>. QED BY <1>4, <1>5, <1>6, <1>8

(* The other sessions, when one is destroyed.                              *)
LEMMA DestroyLast ==
  ASSUME LastInv, NEW c \in Client, DestroyStep(c)
  PROVE  /\ OneRequest'
         /\ sess'[c] = NewSess
         /\ \A d \in Client : d # c => /\ sess'[d] = sess[d]
                                       /\ cli'[d].last = cli[d].last
                                       /\ Waiting(d)' => Waiting(d)
<1>1. cli \in [Client -> CliSet]
  BY SMTT(60) DEF LastInv, AnswerInv, OwnInv, TypeInv, Typed, NetTyped
<1>2. /\ cli' = [d \in Client |->
                     IF d = c THEN Dropped(cli[d])
                     ELSE IF SocketOf(d) \cap Descriptors(c) # {}
                       THEN [cli[d] EXCEPT !.conn = "cut", !.rx = <<>>]
                     ELSE cli[d]]
      /\ sess'[c] = NewSess /\ \A d \in Client : d # c => sess'[d] = sess[d]
  BY DestroyEffect DEF LastInv, AnswerInv, DestroyStep
<1>3. cli'[c].rx = <<>> /\ cli'[c].owed <= 1
  <2>1. /\ cli'[c] = Dropped(cli[c]) /\ cli[c] \in CliSet /\ cli[c].owed <= 1
    BY <1>1, <1>2 DEF LastInv, OneRequest, LastIs
  <2>. QED BY <2>1, DroppedType
<1>4. ASSUME NEW d \in Client, d # c
      PROVE  /\ cli'[d].rx = cli[d].rx \/ cli'[d].rx = <<>>
             /\ cli'[d].owed = cli[d].owed /\ cli'[d].last = cli[d].last
  <2>1. /\ [cli[d] EXCEPT !.conn = "cut", !.rx = <<>>].rx = <<>>
        /\ [cli[d] EXCEPT !.conn = "cut", !.rx = <<>>].owed = cli[d].owed
        /\ [cli[d] EXCEPT !.conn = "cut", !.rx = <<>>].last = cli[d].last
    BY <1>1 DEF CliSet
  <2>. QED BY <1>2, <1>4, <2>1
<1>5. \A d : Pending(d, "req")' = IF d = c THEN 0 ELSE Pending(d, "req")
  BY DEF DestroyStep
<1>6. OneRequest'
  <2>. SUFFICES ASSUME NEW d \in Client PROVE LastIs(d)'
    BY DEF OneRequest
  <2>1. CASE d = c
    <3>1. Pending(c, "req")' = 0 /\ cli'[c].owed <= 1
      BY <1>3, <1>5
    <3>. QED BY <1>3, <2>1, <3>1 DEF LastIs
  <2>2. CASE d # c
    <3>1. LastIs(d) /\ Current(d)' = Current(d)
      BY <1>2, <2>2 DEF LastInv, OneRequest, Current
    <3>. QED BY <1>4, <1>5, <2>2, <3>1 DEF LastIs
  <2>. QED BY <2>1, <2>2
<1>. QED BY <1>2, <1>4, <1>5, <1>6 DEF Waiting

(* The request that is handled is the last one, and nothing is left of it  *)
(* afterwards unless it is retried.                                        *)
LEMMA HandlingLast ==
  ASSUME LastInv, NEW c, NEW s, NEW outcome, Handling(c, s, outcome)
  PROVE  /\ OneRequest'
         /\ c \in Client /\ c \in Listed /\ Current(c) = cli[c].last
         /\ Waiting(c) /\ (outcome # "RETRY" => ~Waiting(c)')
         /\ UNCHANGED <<cli, list>>
         /\ \A d \in Client : d # c => sess'[d] = sess[d]
         /\ \A d \in Client : d # c => Waiting(d)' = Waiting(d)
         /\ sess'[c].intlvd = s.intlvd /\ sess'[c].udp = s.udp
         /\ sess'[c].state = s.state /\ sess'[c].streaming = s.streaming
         /\ sess'[c].handling = IF outcome = "RETRY" THEN "RETRY" ELSE "INIT"
<1>1. /\ c \in Client /\ s \in SessSet /\ outcome \in Outcomes
      /\ Handled(c, s, outcome) /\ Typed /\ TypeInv
      /\ tasks # <<>> /\ c = tasks[1].arg
  BY DEF Handling, LastInv, AnswerInv, OwnInv, TypeInv
<1>2. TypeInv'
  BY <1>1, HandlingType
<1>3. /\ \A d : Pending(d, "req")' =
                  IF d = c /\ outcome # "RETRY" THEN Pending(d, "req") - 1
                  ELSE Pending(d, "req")
      /\ Pending(c, "req") > 0
  BY <1>1, <1>2, HandlingPending
<1>4. /\ UNCHANGED <<cli, list>> /\ \A d \in Client : d # c => sess'[d] = sess[d]
      /\ sess'[c].intlvd = s.intlvd /\ sess'[c].udp = s.udp
      /\ sess'[c].state = s.state /\ sess'[c].streaming = s.streaming
      /\ sess'[c].req = Current(c)
      /\ sess'[c].handling = IF outcome = "RETRY" THEN "RETRY" ELSE "INIT"
  BY <1>1, HandledEffect DEF net
<1>5. c \in Listed
  BY <1>1, FirstTaskType DEF LastInv, AnswerInv, OwnInv, Owned, TaskArgLive
<1>6. LastIs(c) /\ Pending(c, "req") \in Nat
  BY <1>1, CountTypes DEF LastInv, OneRequest
<1>7. Pending(c, "req") # 0 /\ Current(c) = cli[c].last
  BY <1>3, <1>6 DEF LastIs
<1>8. Pending(c, "req") - 1 = 0 /\ cli[c].rx = <<>>
  BY <1>1, <1>6, <1>7, OneLeft DEF LastInv, LastIs
<1>9. outcome # "RETRY" => Pending(c, "req")' = 0
  BY <1>3, <1>8
<1>10. outcome = "RETRY" => Current(c)' = Current(c)
  BY <1>4 DEF Current
<1>11. LastIs(c)'
  BY <1>4, <1>6, <1>7, <1>9, <1>10 DEF LastIs
<1>12. ASSUME NEW d \in Client, d # c
       PROVE  LastIs(d)' /\ Waiting(d)' = Waiting(d)
  <2>1. Pending(d, "req")' = Pending(d, "req")
    BY <1>3, <1>12
  <2>2. sess'[d] = sess[d] /\ cli' = cli /\ LastIs(d)
    BY <1>4, <1>12 DEF LastInv, OneRequest
  <2>3. Current(d)' = Current(d)
    BY <2>2 DEF Current
  <2>. QED BY <2>1, <2>2, <2>3 DEF LastIs, Waiting
<1>13. OneRequest'
  BY <1>11, <1>12 DEF OneRequest
<1>14. Waiting(c) /\ (outcome # "RETRY" => ~Waiting(c)')
  BY <1>4, <1>7, <1>8, <1>9 DEF Waiting
<1>. QED BY <1>1, <1>4, <1>5, <1>7, <1>12, <1>13, <1>14

LEMMA InitLast == Init => OneRequest
<1>. SUFFICES ASSUME Init, NEW c \in Client PROVE LastIs(c)
  BY DEF OneRequest
<1>1. cli[c].rx = <<>> /\ cli[c].owed = 0
  BY DEF Init, Offline
<1>2. AnswerInv
  BY InitTypeInv, InitOwned, InitAnswers DEF AnswerInv, OwnInv
<1>3. Pending(c, "req") = 0 /\ cli[c].owed <= 1
  BY <1>1, <1>2, OneLeft
<1>. QED BY <1>1, <1>3 DEF LastIs

(* No step breaks that.                                                    *)
LEMMA NextLast == LastInv /\ [Next]_vars => LastInv'
<1>. SUFFICES ASSUME LastInv, [Next]_vars PROVE OneRequest'
  BY NextAnswers DEF LastInv
<1>. QED BY StepKinds, QuietLast, SendLast, AcceptLast, ReceiveLast,
        DestroyLast, HandlingLast DEF LastInv

---------------------------------------------------------------------------
(* Every socket has a handler, which is called with its session.           *)
OpenHandled ==
  \A fd \in Fd, c \in Client : owner[fd] \in {Tcp(c), Udp(c)} =>
    \E h \in Range(handlers) : h.sd = fd /\ h.arg = c

(* Every RTP handler is of a track of a session on the list, which has not *)
(* been set up again and never will be.                                    *)
SetUpOnce(m, after) ==
  /\ {SetupOf[m], "setupTcp", "infoTcp"} \cap after = {}
  /\ \A f \in Follows : f[1] \in after \cup {SetupOf[m]} => f[2] \in after
After(m) == CHOOSE after \in SUBSET Requests : SetUpOnce(m, after)

SetUpBy(c, m) ==
  cli[c].last \in After(m) \/ (cli[c].last = SetupOf[m] /\ ~Waiting(c))

RtpOwned ==
  \A h \in Range(handlers) : h.proc = "rtp" =>
    /\ h.arg \in Listed /\ ~sess[h.arg].intlvd
    /\ \E m \in Track : h.sd = sess[h.arg].udp[m] /\ SetUpBy(h.arg, m)

SocketInv == LastInv /\ OpenHandled /\ RtpOwned /\ EachTrackSetUpOnce

LEMMA AfterSetUp ==
  ASSUME EachTrackSetUpOnce
  PROVE  \A m \in Track : SetUpOnce(m, After(m))
BY DEF EachTrackSetUpOnce, SetUpOnce, After

(* A track that was set up stays so while its client sends nothing.        *)
LEMMA SetUpStays ==
  ASSUME SocketInv, NEW d \in Client, NEW m \in Track, SetUpBy(d, m),
         cli'[d].last = cli[d].last, Waiting(d)' => Waiting(d)
  PROVE  SetUpBy(d, m)'
BY DEF SetUpBy

LEMMA TcpIsNotUdp ==
  ASSUME NEW c, NEW d
  PROVE  /\ Tcp(c) # Udp(d) /\ Tcp(c) # Unused /\ Udp(c) # Unused
         /\ Tcp(c) = Tcp(d) => c = d
         /\ Udp(c) = Udp(d) => c = d
BY DEF Tcp, Udp, Unused

(* A step that leaves sockets and handlers alone.                          *)
LEMMA KeptSockets ==
  ASSUME SocketInv, UNCHANGED <<owner, list, handlers>>,
         \A d \in Client : /\ sess'[d].intlvd = sess[d].intlvd
                           /\ sess'[d].udp = sess[d].udp,
         \A d \in Client, m \in Track :
           d \in Listed /\ SetUpBy(d, m) => SetUpBy(d, m)'
  PROVE  OpenHandled' /\ RtpOwned'
<1>1. Typed /\ Listed' = Listed
  BY DEF SocketInv, LastInv, AnswerInv, OwnInv, TypeInv, Listed
<1>2. \A h \in Range(handlers) : h.arg \in Client
  BY <1>1, HandlerValues
<1>3. OpenHandled'
  BY DEF SocketInv, OpenHandled, Tcp, Udp
<1>4. RtpOwned'
  <2>. SUFFICES ASSUME NEW h \in Range(handlers), h.proc = "rtp"
                PROVE  /\ h.arg \in Listed' /\ ~sess'[h.arg].intlvd
                       /\ \E m \in Track : /\ h.sd = sess'[h.arg].udp[m]
                                           /\ SetUpBy(h.arg, m)'
    BY DEF RtpOwned
  <2>1. /\ h.arg \in Client /\ h.arg \in Listed /\ ~sess[h.arg].intlvd
    BY <1>2 DEF SocketInv, RtpOwned
  <2>2. PICK m \in Track : h.sd = sess[h.arg].udp[m] /\ SetUpBy(h.arg, m)
    BY DEF SocketInv, RtpOwned
  <2>. QED BY <1>1, <2>1, <2>2
<1>. QED BY <1>3, <1>4

(* From here to HandlingSockets: one lemma for each kind of step, which    *)
(* keeps the sockets.                                                      *)
LEMMA QuietSockets ==
  ASSUME SocketInv, QuietStep PROVE OpenHandled' /\ RtpOwned'
<1>1. \A d \in Client : d \in Listed => /\ cli'[d].last = cli[d].last
                                        /\ Waiting(d)' => Waiting(d)
  BY DEF QuietStep, QuietFor, Waiting, Connects
<1>2. \A d \in Client, m \in Track :
        d \in Listed /\ SetUpBy(d, m) => SetUpBy(d, m)'
  BY <1>1, SetUpStays
<1>. QED BY <1>2, KeptSockets DEF QuietStep, QuietFor, SameButOut

LEMMA SendSockets ==
  ASSUME SocketInv, NEW c \in Client, NEW r \in Request, SendStep(c, r)
  PROVE  OpenHandled' /\ RtpOwned'
<1>1. /\ cli'[c].last = r /\ <<cli[c].last, r>> \in Follows
      /\ \A d \in Client : d # c => cli'[d] = cli[d]
      /\ UNCHANGED <<sess, owner, list, handlers>>
  BY SendLast DEF SocketInv
<1>2. \A d : Pending(d, "req")' = Pending(d, "req")
  BY DEF SendStep, PendingSame
<1>3. ASSUME NEW d \in Client, NEW m \in Track, SetUpBy(d, m)
      PROVE  SetUpBy(d, m)'
  <2>1. CASE d # c
    BY <1>1, <1>2, <1>3, <2>1 DEF SetUpBy, Waiting
  <2>2. CASE d = c
    <3>. DEFINE f == <<cli[c].last, r>>
    <3>1. f \in Follows /\ f[1] = cli[c].last /\ f[2] = r
      BY <1>1
    <3>2. cli[c].last \in After(m) \cup {SetupOf[m]}
      BY <1>3, <2>2 DEF SetUpBy
    <3>. HIDE DEF f
    <3>3. r \in After(m)
      BY <3>1, <3>2, AfterSetUp DEF SocketInv, SetUpOnce
    <3>. QED BY <1>1, <2>2, <3>3 DEF SetUpBy
  <2>. QED BY <2>1, <2>2
<1>. QED BY <1>1, <1>3, KeptSockets

LEMMA ReceiveSockets ==
  ASSUME SocketInv, NEW c \in Client, ReceiveStep(c)
  PROVE  OpenHandled' /\ RtpOwned'
<1>1. \A d \in Client : /\ cli'[d].last = cli[d].last
                        /\ sess'[d].intlvd = sess[d].intlvd
                        /\ sess'[d].udp = sess[d].udp
                        /\ d # c => cli'[d] = cli[d]
  BY ReceiveLast DEF SocketInv
<1>2. Waiting(c)
  BY DEF ReceiveStep, Waiting
<1>3. \A d \in Client : d # c => Pending(d, "req")' = Pending(d, "req")
  BY DEF ReceiveStep
<1>4. \A d \in Client : Waiting(d)' => Waiting(d)
  BY <1>1, <1>2, <1>3 DEF Waiting
<1>5. \A d \in Client, m \in Track : SetUpBy(d, m) => SetUpBy(d, m)'
  BY <1>1, <1>4, SetUpStays
<1>. QED BY <1>1, <1>5, KeptSockets DEF ReceiveStep

LEMMA AcceptSockets ==
  ASSUME SocketInv, NEW c \in Client, AcceptStep(c)
  PROVE  OpenHandled' /\ RtpOwned'
<1>1. PICK fd \in Fd :
        /\ owner' = [owner EXCEPT ![fd] = Tcp(c)]
        /\ Range(handlers') =
             Range(handlers) \cup {[sd |-> fd, proc |-> "rtsp", arg |-> c]}
  BY DEF AcceptStep
<1>. DEFINE h == [sd |-> fd, proc |-> "rtsp", arg |-> c]
<1>2. h.sd = fd /\ h.proc = "rtsp" /\ h.arg = c
      /\ Range(handlers') = Range(handlers) \cup {h}
  BY <1>1
<1>. HIDE DEF h
<1>3. /\ owner \in [Fd -> OwnerSet] /\ Typed
  BY DEF SocketInv, LastInv, AnswerInv, OwnInv, TypeInv, Typed, StoreTyped
<1>4. OpenHandled'
  <2>. SUFFICES ASSUME NEW e \in Fd, NEW d \in Client, owner'[e] \in {Tcp(d), Udp(d)}
                PROVE  \E g \in Range(handlers') : g.sd = e /\ g.arg = d
    BY DEF OpenHandled, Tcp, Udp
  <2>1. CASE e = fd
    <3>1. d = c
      BY <1>1, <1>3, <2>1, TcpIsNotUdp
    <3>. QED BY <1>2, <2>1, <3>1
  <2>2. CASE e # fd
    BY <1>1, <1>2, <1>3, <2>2 DEF SocketInv, OpenHandled
  <2>. QED BY <2>1, <2>2
<1>5. RtpOwned'
  <2>. SUFFICES ASSUME NEW g \in Range(handlers'), g.proc = "rtp"
                PROVE  /\ g.arg \in Listed' /\ ~sess'[g.arg].intlvd
                       /\ \E m \in Track : /\ g.sd = sess'[g.arg].udp[m]
                                           /\ SetUpBy(g.arg, m)'
    BY DEF RtpOwned
  <2>1. g \in Range(handlers) /\ g.arg \in Client
    BY <1>2, <1>3, HandlerValues
  <2>2. g.arg \in Listed /\ ~sess[g.arg].intlvd
    BY <2>1 DEF SocketInv, RtpOwned
  <2>3. PICK m \in Track : g.sd = sess[g.arg].udp[m] /\ SetUpBy(g.arg, m)
    BY <2>1 DEF SocketInv, RtpOwned
  <2>4. /\ sess'[g.arg] = sess[g.arg] /\ cli' = cli /\ g.arg \in Listed'
        /\ Pending(g.arg, "req")' = Pending(g.arg, "req")
    BY <2>1, <2>2 DEF AcceptStep, PendingSame
  <2>5. SetUpBy(g.arg, m)'
    BY <2>1, <2>3, <2>4 DEF SetUpBy, Waiting
  <2>. QED BY <2>2, <2>3, <2>4, <2>5
<1>. QED BY <1>4, <1>5

(* destroy_rtsp_sess takes the handlers of all the tracks.                 *)
LEMMA DestroySockets ==
  ASSUME SocketInv, NEW c \in Client, DestroyStep(c)
  PROVE  OpenHandled' /\ RtpOwned'
<1>1. /\ Listed' = Listed \ {c}
      /\ Range(handlers') = {h \in Range(handlers) : h.sd \notin Descriptors(c)}
      /\ owner' = [fd \in Fd |-> IF fd \in Descriptors(c) THEN Unused
                                 ELSE owner[fd]]
  BY DestroyEffect DEF SocketInv, LastInv, AnswerInv, DestroyStep
<1>2. \A d \in Client : d # c => /\ sess'[d] = sess[d]
                                 /\ cli'[d].last = cli[d].last
                                 /\ Waiting(d)' => Waiting(d)
  BY DestroyLast DEF SocketInv
<1>3. Typed /\ sess \in [Client -> SessSet]
  BY DEF SocketInv, LastInv, AnswerInv, OwnInv, TypeInv, Typed, StoreTyped
<1>4. OpenHandled'
  <2>. SUFFICES ASSUME NEW e \in Fd, NEW d \in Client, owner'[e] \in {Tcp(d), Udp(d)}
                PROVE  \E g \in Range(handlers') : g.sd = e /\ g.arg = d
    BY DEF OpenHandled, Tcp, Udp
  <2>1. e \notin Descriptors(c) /\ owner'[e] = owner[e]
    BY <1>1, TcpIsNotUdp
  <2>2. PICK g \in Range(handlers) : g.sd = e /\ g.arg = d
    BY <2>1 DEF SocketInv, OpenHandled
  <2>. QED BY <1>1, <2>1, <2>2
<1>5. RtpOwned'
  <2>. SUFFICES ASSUME NEW g \in Range(handlers'), g.proc = "rtp"
                PROVE  /\ g.arg \in Listed' /\ ~sess'[g.arg].intlvd
                       /\ \E m \in Track : /\ g.sd = sess'[g.arg].udp[m]
                                           /\ SetUpBy(g.arg, m)'
    BY DEF RtpOwned
  <2>1. g \in Range(handlers) /\ g.arg \in Client /\ g.sd \notin Descriptors(c)
    BY <1>1, <1>3, HandlerValues
  <2>2. g.arg \in Listed /\ ~sess[g.arg].intlvd
    BY <2>1 DEF SocketInv, RtpOwned
  <2>3. PICK m \in Track : g.sd = sess[g.arg].udp[m] /\ SetUpBy(g.arg, m)
    BY <2>1 DEF SocketInv, RtpOwned
  <2>4. g.arg # c
    <3>1. SUFFICES ASSUME g.arg = c PROVE FALSE
      OBVIOUS
    <3>2. sess[c].udp \in [Track -> Fd \cup {NoFd}]
      BY <1>3, SessType
    <3>3. g.sd \in Range(sess[c].udp)
      BY <2>3, <3>1, <3>2 DEF Range
    <3>. QED BY <2>1, <2>2, <3>1, <3>3 DEF Descriptors
  <2>5. SetUpBy(g.arg, m)'
    BY <1>2, <2>1, <2>3, <2>4, SetUpStays
  <2>. QED BY <1>1, <1>2, <2>1, <2>2, <2>3, <2>4, <2>5
<1>. QED BY <1>4, <1>5

(* A track is set up while it has no handler.                              *)
LEMMA HandlingSockets ==
  ASSUME SocketInv, NEW c, NEW s, NEW outcome, Handling(c, s, outcome)
  PROVE  OpenHandled' /\ RtpOwned'
<1>1. /\ c \in Client /\ c \in Listed /\ Current(c) = cli[c].last
      /\ Waiting(c) /\ (outcome # "RETRY" => ~Waiting(c)')
      /\ UNCHANGED <<cli, list>>
      /\ \A d \in Client : d # c => sess'[d] = sess[d]
      /\ \A d \in Client : d # c => Waiting(d)' = Waiting(d)
      /\ sess'[c].intlvd = s.intlvd /\ sess'[c].udp = s.udp
  BY HandlingLast DEF SocketInv
<1>2. /\ Typed /\ sess \in [Client -> SessSet] /\ owner \in [Fd -> OwnerSet]
      /\ handlers \in Seq(HandlerSet) /\ AddsSocket(c, s)
      /\ outcome = "RETRY" => Current(c) = "describe"
  BY DEF SocketInv, LastInv, AnswerInv, OwnInv, TypeInv, Typed, StoreTyped,
     Handling
<1>3. Listed' = Listed
  BY <1>1 DEF Listed
<1>4. \A h \in Range(handlers) : h.arg \in Client
  BY <1>2, HandlerValues
<1>5. sess[c].udp \in [Track -> Fd \cup {NoFd}]
  BY <1>1, <1>2, SessType
<1>6. \A m \in Track : SetUpOnce(m, After(m))
  BY AfterSetUp DEF SocketInv
<1>7. \A m \in Track : SetUpBy(c, m) => cli[c].last \in After(m)
  BY <1>1 DEF SetUpBy
<1>8. \A d \in Client, m \in Track : SetUpBy(d, m) => SetUpBy(d, m)'
  BY <1>1, <1>7 DEF SetUpBy
(* Old handlers keep their place, given that their track does.             *)
<1>9. ASSUME NEW h \in Range(handlers), h.proc = "rtp",
             h.arg = c => /\ ~s.intlvd
                          /\ \A m \in Track : SetUpBy(c, m) =>
                               s.udp[m] = sess[c].udp[m]
      PROVE  /\ h.arg \in Listed' /\ ~sess'[h.arg].intlvd
             /\ \E m \in Track : /\ h.sd = sess'[h.arg].udp[m]
                                 /\ SetUpBy(h.arg, m)'
  <2>1. h.arg \in Listed /\ ~sess[h.arg].intlvd /\ h.arg \in Client
    BY <1>4, <1>9 DEF SocketInv, RtpOwned
  <2>2. PICK m \in Track : h.sd = sess[h.arg].udp[m] /\ SetUpBy(h.arg, m)
    BY <1>9 DEF SocketInv, RtpOwned
  <2>3. ~sess'[h.arg].intlvd /\ h.sd = sess'[h.arg].udp[m]
    BY <1>1, <1>9, <2>1, <2>2
  <2>. QED BY <1>3, <1>8, <2>1, <2>2, <2>3
<1>10. ASSUME NEW h \in Range(handlers), h.proc = "rtp", h.arg = c
       PROVE  ~sess[c].intlvd /\ \E m \in Track : cli[c].last \in After(m)
  BY <1>7, <1>10 DEF SocketInv, RtpOwned
<1>11. CASE /\ UNCHANGED <<owner, handlers>>
            /\ \/ s.udp = sess[c].udp /\ (s.intlvd => sess[c].intlvd)
               \/ Current(c) \in {"setupTcp", "infoTcp"}
  <2>1. OpenHandled'
    BY <1>11 DEF SocketInv, OpenHandled, Tcp, Udp
  <2>2. ASSUME NEW h \in Range(handlers), h.proc = "rtp", h.arg = c
        PROVE  ~s.intlvd /\ s.udp = sess[c].udp
    <3>1. Current(c) \notin {"setupTcp", "infoTcp"}
      BY <1>1, <1>6, <1>10, <2>2 DEF SetUpOnce
    <3>. QED BY <1>10, <1>11, <2>2, <3>1
  <2>3. RtpOwned'
    BY <1>9, <1>11, <2>2 DEF RtpOwned
  <2>. QED BY <2>1, <2>3
<1>12. ASSUME NEW t \in Track, NEW fd \in Fd,
              Current(c) = SetupOf[t], ~s.intlvd,
              s.udp = [sess[c].udp EXCEPT ![t] = fd],
              owner[fd] = Unused, owner' = [owner EXCEPT ![fd] = Udp(c)],
              handlers' = Append(handlers,
                                 [sd |-> fd, proc |-> "rtp", arg |-> c])
       PROVE  OpenHandled' /\ RtpOwned'
  <2>. DEFINE g == [sd |-> fd, proc |-> "rtp", arg |-> c]
  <2>1. g \in HandlerSet /\ g.sd = fd /\ g.arg = c
    BY <1>1 DEF HandlerSet
  <2>2. handlers' = Append(handlers, g)
    BY <1>12
  <2>. HIDE DEF g
  <2>3. Range(handlers') = Range(handlers) \cup {g}
    BY <1>2, <2>1, <2>2, AppendRange
  <2>4. OpenHandled'
    <3>. SUFFICES ASSUME NEW e \in Fd, NEW d \in Client,
                         owner'[e] \in {Tcp(d), Udp(d)}
                  PROVE  \E h \in Range(handlers') : h.sd = e /\ h.arg = d
      BY DEF OpenHandled, Tcp, Udp
    <3>1. CASE e = fd
      <4>1. d = c
        BY <1>2, <1>12, <3>1, TcpIsNotUdp
      <4>. QED BY <2>1, <2>3, <3>1, <4>1
    <3>2. CASE e # fd
      BY <1>2, <1>12, <2>3, <3>2 DEF SocketInv, OpenHandled
    <3>. QED BY <3>1, <3>2
  <2>5. ASSUME NEW m \in Track, SetUpBy(c, m)
        PROVE  s.udp[m] = sess[c].udp[m]
    <3>1. m # t
      BY <1>1, <1>6, <1>7, <1>12, <2>5 DEF SetUpOnce
    <3>. QED BY <1>5, <1>12, <3>1
  <2>6. ~sess'[c].intlvd /\ fd = sess'[c].udp[t]
    BY <1>1, <1>5, <1>12
  <2>7. SetUpBy(c, t)'
    <3>1. outcome # "RETRY"
      BY <1>2, <1>12 DEF SetupOf, Track
    <3>. QED BY <1>1, <1>12, <3>1 DEF SetUpBy
  <2>8. RtpOwned'
    <3>. SUFFICES ASSUME NEW h \in Range(handlers'), h.proc = "rtp"
                  PROVE  /\ h.arg \in Listed' /\ ~sess'[h.arg].intlvd
                         /\ \E m \in Track : /\ h.sd = sess'[h.arg].udp[m]
                                             /\ SetUpBy(h.arg, m)'
      BY DEF RtpOwned
    <3>1. CASE h \in Range(handlers)
      BY <1>9, <1>12, <2>5, <3>1
    <3>2. CASE h = g
      BY <1>1, <1>3, <2>1, <2>6, <2>7, <3>2
    <3>. QED BY <2>3, <3>1, <3>2
  <2>. QED BY <2>4, <2>8
<1>. QED BY <1>2, <1>11, <1>12 DEF AddsSocket

LEMMA InitSockets == Init => OpenHandled /\ RtpOwned
<1>. SUFFICES ASSUME Init PROVE OpenHandled /\ RtpOwned
  OBVIOUS
<1>1. handlers = <<>> /\ \A fd \in Fd : owner[fd] \in {Stdin, Unused}
  BY DEF Init
<1>2. \A x : x \notin Range(<<>>)
  BY DEF Range
<1>3. \A c : Tcp(c) \notin {Stdin, Unused} /\ Udp(c) \notin {Stdin, Unused}
  BY DEF Tcp, Udp, Stdin, Unused
<1>. QED BY <1>1, <1>2, <1>3 DEF OpenHandled, RtpOwned

(* No step breaks that.                                                    *)
LEMMA NextSockets == SocketInv /\ [Next]_vars => SocketInv'
<1>. SUFFICES ASSUME SocketInv, [Next]_vars PROVE OpenHandled' /\ RtpOwned'
  BY NextLast DEF SocketInv, EachTrackSetUpOnce
<1>. QED BY StepKinds, QuietSockets, SendSockets, AcceptSockets, ReceiveSockets,
        DestroySockets, HandlingSockets DEF SocketInv, LastInv

LEMMA SocketsHold == EachTrackSetUpOnce /\ Spec => []SocketInv
<1>1. EachTrackSetUpOnce /\ Init => SocketInv
  BY InitTypeInv, InitOwned, InitAnswers, InitLast, InitSockets
     DEF AnswerInv, OwnInv, LastInv, SocketInv, EachTrackSetUpOnce
<1>2. SocketInv /\ [Next]_vars => SocketInv'
  BY NextSockets
<1>. QED BY <1>1, <1>2, PTL DEF Spec

(* Both kinds of handler are of sessions on the list.                      *)
LEMMA SocketInvHandlers == SocketInv => HandlerArgLive
<1>. SUFFICES ASSUME SocketInv, NEW i \in 1..Len(handlers)
              PROVE  handlers[i].arg \in Listed
  BY DEF HandlerArgLive
<1>1. handlers \in Seq(HandlerSet) /\ HandlersOwned
  BY DEF SocketInv, LastInv, AnswerInv, OwnInv, Owned, TypeInv, Typed, StoreTyped
<1>2. handlers[i] \in Range(handlers) /\ handlers[i] \in HandlerSet
  BY <1>1, SeqValues, ElementOfSeq
<1>3. handlers[i].proc \in {"rtsp", "rtp"}
  BY <1>2 DEF HandlerSet
<1>. QED BY <1>1, <1>2, <1>3 DEF SocketInv, RtpOwned, HandlersOwned

(* No socket handler is ever left for a session that was freed, provided   *)
(* that no track is set up twice: SETUP registers a handler and keeps its  *)
(* descriptor in the session, where the next SETUP of the track overwrites *)
(* it, and destroy_rtsp_sess deregisters what it finds there.              *)
THEOREM HandlersAreOfLiveSessions ==
  EachTrackSetUpOnce /\ Spec => []HandlerArgLive
BY SocketsHold, SocketInvHandlers, PTL

(* The handler of a connection is of the session of that connection, and   *)
(* an RTP handler of the socket that its session keeps for some track.     *)
HandlersOfSessions ==
  \A h \in Range(handlers) :
    /\ h.arg \in Listed
    /\ h.proc \in {"rtsp", "rtp"}
    /\ h.proc = "rtsp" => /\ h.sd = sess[h.arg].sd
                          /\ owner[h.sd] = Tcp(h.arg)
    /\ h.proc = "rtp" => /\ ~sess[h.arg].intlvd
                         /\ \E m \in Track : h.sd = sess[h.arg].udp[m]
                         /\ owner[h.sd] = Udp(h.arg)

(* What destroy_rtsp_sess would leave registered is not of the session.    *)
NoneLeftBehind ==
  \A c \in Listed : \A h \in Range(HandlersWithout(c)) : h.arg # c

(* Destroying a session takes off the handlers of its connection and of    *)
(* the sockets it keeps, so all of them.                                   *)
LEMMA AllAreTaken ==
  SocketInv /\ HandlersOfSessions => NoneLeftBehind
<1>. SUFFICES ASSUME SocketInv, HandlersOfSessions, NEW c \in Listed,
                     NEW h \in Range(HandlersWithout(c)), h.arg = c
              PROVE  FALSE
  BY DEF NoneLeftBehind
<1>1. OwnInv /\ list \in Seq(Client) /\ sess \in [Client -> SessSet]
  BY DEF SocketInv, LastInv, AnswerInv, OwnInv, TypeInv, Typed, StoreTyped
<1>2. c \in Client /\ sess[c] \in SessSet
  BY <1>1, SeqValues, ElementOfSeq DEF Listed
<1>3. h \in Range(handlers) /\ h.sd \notin Descriptors(c)
  BY <1>1, <1>2, HandlersLeft
<1>4. h.sd # sess[c].sd
  BY <1>3 DEF Descriptors
<1>5. ~sess[c].intlvd /\ \E m \in Track : h.sd = sess[c].udp[m]
  BY <1>3, <1>4 DEF HandlersOfSessions
<1>6. sess[c].udp \in [Track -> Fd \cup {NoFd}]
  BY <1>2, SessType
<1>7. h.sd \in Range(sess[c].udp)
  BY <1>5, <1>6 DEF Range
<1>. QED BY <1>3, <1>5, <1>7 DEF Descriptors

(* If each client sets a track up once: a session is on the list once, a   *)
(* descriptor has one handler, every handler is of the connection of the   *)
(* session it is called with or of a socket that this session keeps for a  *)
(* track, and destroying the session would leave none of its own.  Without *)
(* the condition a second SETUP overwrites the descriptors in the session, *)
(* and the handlers of the first stay behind when it is destroyed.         *)
THEOREM SessionsOwnTheirHandlers ==
  EachTrackSetUpOnce /\ Spec =>
    [](/\ OneSession /\ DistinctSds(handlers)
       /\ HandlersOfSessions /\ NoneLeftBehind)
<1>1. SocketInv => OneSession /\ DistinctSds(handlers) /\ HandlersOfSessions
  <2>. SUFFICES ASSUME SocketInv
                PROVE  OneSession /\ DistinctSds(handlers) /\ HandlersOfSessions
    OBVIOUS
  <2>1. OneSession /\ HandlersOwned /\ RtpOwned /\ Typed
    BY DEF SocketInv, LastInv, AnswerInv, OwnInv, Owned, TypeInv
  <2>2. \A h \in Range(handlers) : h.proc \in {"rtsp", "rtp"}
    BY <2>1, HandlerValues DEF HandlerSet
  <2>3. HandlersOfSessions
    BY <2>1, <2>2 DEF HandlersOwned, RtpOwned, HandlersOfSessions
  <2>. QED BY <2>1, <2>3 DEF HandlersOwned
<1>2. SocketInv => NoneLeftBehind
  BY <1>1, AllAreTaken
<1>. QED BY <1>1, <1>2, SocketsHold, PTL

(* Nor is a socket left open without one: what arrives on any socket goes  *)
(* to the session that owns it.                                            *)
THEOREM SocketsHaveHandlers ==
  EachTrackSetUpOnce /\ Spec => []SocketsAreHandled
<1>1. SocketInv => SocketsAreHandled
  <2>. SUFFICES ASSUME SocketInv, NEW fd \in Fd, IsOpen(fd)
                PROVE  \E c \in Listed : /\ owner[fd] \in {Tcp(c), Udp(c)}
                                         /\ HandlerIndex(handlers, fd) # 0
                                         /\ Handler(fd).arg = c
    BY DEF SocketsAreHandled
  <2>1. /\ handlers \in Seq(HandlerSet) /\ HandlersOwned /\ Typed
    BY DEF SocketInv, LastInv, AnswerInv, OwnInv, Owned, TypeInv, Typed,
       StoreTyped
  <2>2. PICK c \in Client : owner[fd] \in {Tcp(c), Udp(c)}
    BY DEF IsOpen
  <2>3. PICK h \in Range(handlers) : h.sd = fd /\ h.arg = c
    BY <2>2 DEF SocketInv, OpenHandled
  <2>4. PICK i \in 1..Len(handlers) : handlers[i] = h
    BY <2>1, SeqValues
  <2>5. /\ HandlerIndex(handlers, fd) \in 1..Len(handlers)
        /\ HandlerIndex(handlers, fd) # 0
        /\ handlers[HandlerIndex(handlers, fd)].sd = fd
    BY <2>1, <2>3, <2>4, HandlerIndexFinds
  <2>6. HandlerIndex(handlers, fd) = i
    BY <2>1, <2>3, <2>4, <2>5 DEF HandlersOwned, DistinctSds
  <2>7. Handler(fd) = h /\ c \in Listed
    BY <2>3, <2>4, <2>6, SocketInvHandlers DEF Handler, HandlerArgLive
  <2>. QED BY <2>2, <2>3, <2>5, <2>7
<1>. QED BY <1>1, SocketsHold, PTL

---------------------------------------------------------------------------
(* Once a track is set up, the stream runs and no description is asked for *)
(* that would stop it; and what plays has the task that fetches frames.    *)
NoMoreDescribe(since) ==
  /\ {"setupV", "setupA", "setupTcp"} \subseteq since
  /\ "describe" \notin since
  /\ \A f \in Follows : f[1] \in since => f[2] \in since
Since == CHOOSE since \in SUBSET Requests : NoMoreDescribe(since)

StreamsFor(c) ==
  /\ sess[c].state # "INIT" => sess[c].streaming /\ cli[c].last \in Since
  /\ sess[c].state = "PLAYING" =>
       /\ sess[c].handling = "INIT"
       /\ "other" \notin Frame => Pending(c, "prefetch") # 0

Streams   == \A c \in Client : StreamsFor(c)
StreamInv == LastInv /\ Streams /\ DescribedBeforeSetUp

LEMMA SinceSetUp ==
  ASSUME DescribedBeforeSetUp PROVE NoMoreDescribe(Since)
BY DEF DescribedBeforeSetUp, NoMoreDescribe, Since

(* From here to HandlingStreams: one lemma for each kind of step, which    *)
(* keeps the streams.                                                      *)
LEMMA QuietStreams ==
  ASSUME StreamInv, QuietStep PROVE Streams'
<1>. SUFFICES ASSUME NEW c \in Client PROVE StreamsFor(c)'
  BY DEF Streams
<1>1. QuietFor(c) /\ StreamsFor(c)
  BY DEF QuietStep, StreamInv, Streams
<1>. QED BY <1>1 DEF QuietFor, SameButOut, StreamsFor, Connects, NewSess, Pumping

LEMMA SendStreams ==
  ASSUME StreamInv, NEW c \in Client, NEW r \in Request, SendStep(c, r)
  PROVE  Streams'
<1>. SUFFICES ASSUME NEW d \in Client PROVE StreamsFor(d)'
  BY DEF Streams
<1>1. /\ cli'[c].last = r /\ <<cli[c].last, r>> \in Follows
      /\ \A e \in Client : e # c => cli'[e] = cli[e]
      /\ sess' = sess
  BY SendLast DEF StreamInv
<1>2. Pending(d, "prefetch")' = Pending(d, "prefetch")
  BY DEF SendStep, PendingSame
<1>3. StreamsFor(d)
  BY DEF StreamInv, Streams
<1>4. cli[d].last \in Since => cli'[d].last \in Since
  <2>. DEFINE f == <<cli[c].last, r>>
  <2>1. f \in Follows /\ f[1] = cli[c].last /\ f[2] = r
    BY <1>1
  <2>. HIDE DEF f
  <2>2. cli[c].last \in Since => r \in Since
    BY <2>1, SinceSetUp DEF StreamInv, NoMoreDescribe
  <2>. QED BY <1>1, <2>2
<1>. QED BY <1>1, <1>2, <1>3, <1>4 DEF StreamsFor

LEMMA AcceptStreams ==
  ASSUME StreamInv, NEW c \in Client, AcceptStep(c) PROVE Streams'
<1>. SUFFICES ASSUME NEW d \in Client PROVE StreamsFor(d)'
  BY DEF Streams
<1>1. Pending(d, "prefetch")' = Pending(d, "prefetch") /\ cli' = cli
  BY DEF AcceptStep, PendingSame
<1>2. StreamsFor(d)
  BY DEF StreamInv, Streams
<1>3. /\ sess'[d].state = sess[d].state /\ sess'[d].handling = sess[d].handling
      /\ sess'[d].streaming = sess[d].streaming
  BY DEF AcceptStep, SameButOut
<1>. QED BY <1>1, <1>2, <1>3 DEF StreamsFor

LEMMA ReceiveStreams ==
  ASSUME StreamInv, NEW c \in Client, ReceiveStep(c) PROVE Streams'
<1>. SUFFICES ASSUME NEW d \in Client PROVE StreamsFor(d)'
  BY DEF Streams
<1>1. Pending(d, "prefetch")' = Pending(d, "prefetch")
  BY DEF ReceiveStep
<1>2. StreamsFor(d)
  BY DEF StreamInv, Streams
<1>3. /\ sess'[d].state = sess[d].state /\ sess'[d].handling = sess[d].handling
      /\ sess'[d].streaming = sess[d].streaming /\ cli'[d].last = cli[d].last
  BY ReceiveLast DEF StreamInv
<1>. QED BY <1>1, <1>2, <1>3 DEF StreamsFor

LEMMA DestroyStreams ==
  ASSUME StreamInv, NEW c \in Client, DestroyStep(c) PROVE Streams'
<1>. SUFFICES ASSUME NEW d \in Client PROVE StreamsFor(d)'
  BY DEF Streams
<1>1. CASE d = c
  <2>1. sess'[d].state = "INIT"
    BY <1>1, DestroyLast DEF StreamInv, NewSess
  <2>. QED BY <2>1 DEF StreamsFor
<1>2. CASE d # c
  <2>1. Pending(d, "prefetch")' = Pending(d, "prefetch")
    BY <1>2 DEF DestroyStep
  <2>2. sess'[d] = sess[d] /\ cli'[d].last = cli[d].last
    BY <1>2, DestroyLast DEF StreamInv
  <2>3. StreamsFor(d)
    BY DEF StreamInv, Streams
  <2>. QED BY <2>1, <2>2, <2>3 DEF StreamsFor
<1>. QED BY <1>1, <1>2

(* SETUP starts the stream, PLAY the task, and DESCRIBE comes no more.     *)
LEMMA HandlingStreams ==
  ASSUME StreamInv, NEW c, NEW s, NEW outcome, Handling(c, s, outcome)
  PROVE  Streams'
<1>1. /\ c \in Client /\ Current(c) = cli[c].last /\ UNCHANGED cli
      /\ \A d \in Client : d # c => sess'[d] = sess[d]
      /\ sess'[c].state = s.state /\ sess'[c].streaming = s.streaming
      /\ sess'[c].handling = IF outcome = "RETRY" THEN "RETRY" ELSE "INIT"
  BY HandlingLast DEF StreamInv
<1>2. /\ Typed /\ TypeInv /\ TypeInv' /\ SetsState(c, s, outcome)
      /\ outcome = "RETRY" => Current(c) = "describe"
  BY HandlingType DEF StreamInv, LastInv, AnswerInv, OwnInv, TypeInv, Handling
<1>3. \A d : Pending(d, "prefetch")' = IF d = c /\ CreateTask("prefetch", c, 0)
                                       THEN Pending(d, "prefetch") + 1
                                       ELSE Pending(d, "prefetch")
  BY <1>2, HandlingPending
<1>4. ASSUME NEW d \in Client
      PROVE  Pending(d, "prefetch") \in Nat /\ StreamsFor(d)
  BY <1>2, PendingType DEF StreamInv, Streams
<1>5. ASSUME NEW d \in Client, d # c PROVE StreamsFor(d)'
  BY <1>1, <1>3, <1>4, <1>5 DEF StreamsFor
<1>6. StreamsFor(c)'
  <2>1. NoMoreDescribe(Since)
    BY SinceSetUp DEF StreamInv
  <2>2. s.state # "INIT" => s.streaming /\ cli[c].last \in Since
                            /\ cli[c].last # "describe"
    BY <1>1, <1>2, <1>4, <2>1 DEF SetsState, StreamsFor, NoMoreDescribe
  <2>3. s.state = "PLAYING" /\ "other" \notin Frame => Pending(c, "prefetch")' # 0
    <3>1. CASE sess[c].state = "PLAYING"
      BY <1>1, <1>3, <1>4, <3>1 DEF StreamsFor
    <3>2. CASE s.state = "PLAYING" /\ sess[c].state # "PLAYING"
      <4>1. CASE Current(c) \in {"setupV", "setupA", "setupTcp"}
        BY <1>2, <3>2, <4>1 DEF SetsState
      <4>2. CASE Current(c) \notin {"setupV", "setupA", "setupTcp"}
        <5>1. CreateTask("prefetch", c, 0)
          BY <1>2, <3>2, <4>2 DEF SetsState
        <5>. QED BY <1>1, <1>3, <1>4, <5>1
      <4>. QED BY <4>1, <4>2
    <3>. QED BY <3>1, <3>2
  <2>4. s.state # "INIT" => sess'[c].handling = "INIT"
    BY <1>1, <1>2, <2>2
  <2>. QED BY <1>1, <2>2, <2>3, <2>4 DEF StreamsFor
<1>. QED BY <1>5, <1>6 DEF Streams

LEMMA InitStreams == Init => Streams
<1>. SUFFICES ASSUME Init, NEW c \in Client PROVE StreamsFor(c)
  BY DEF Streams
<1>1. sess[c].state = "INIT"
  BY DEF Init, NewSess
<1>. QED BY <1>1 DEF StreamsFor

(* No step breaks that.                                                    *)
LEMMA NextStreams == StreamInv /\ [Next]_vars => StreamInv'
<1>. SUFFICES ASSUME StreamInv, [Next]_vars PROVE Streams'
  BY NextLast DEF StreamInv, DescribedBeforeSetUp
<1>. QED BY StepKinds, QuietStreams, SendStreams, AcceptStreams, ReceiveStreams,
        DestroyStreams, HandlingStreams DEF StreamInv, LastInv

LEMMA StreamsHold == DescribedBeforeSetUp /\ Spec => []StreamInv
<1>1. DescribedBeforeSetUp /\ Init => StreamInv
  BY InitTypeInv, InitOwned, InitAnswers, InitLast, InitStreams
     DEF AnswerInv, OwnInv, LastInv, StreamInv, DescribedBeforeSetUp
<1>2. StreamInv /\ [Next]_vars => StreamInv'
  BY NextStreams
<1>. QED BY <1>1, <1>2, PTL DEF Spec

(* A session that plays has a stream that was started and not stopped      *)
(* since, provided that its client asks for no description any more once   *)
(* it has set up a track: DESCRIBE stops the stream when it ends.          *)
THEOREM StreamsRunWhilePlaying ==
  DescribedBeforeSetUp /\ Spec => []PlayingIsStreaming
<1>1. StreamInv => PlayingIsStreaming
  <2>1. ASSUME NEW c \in Listed, StreamInv PROVE c \in Client
    BY <2>1, SeqValues, ElementOfSeq DEF StreamInv, LastInv, AnswerInv, OwnInv,
       TypeInv, Typed, StoreTyped, Listed
  <2>. QED BY <2>1 DEF StreamInv, Streams, StreamsFor, PlayingIsStreaming
<1>. QED BY <1>1, StreamsHold, PTL

(* And it has the task that fetches its frames, under the same condition   *)
(* and if the stream gives no frame of a type that prefetch_frm does not   *)
(* know: it ends when it gets one, when the session does not play, or      *)
(* handles a request that is being retried, and only PLAY creates another. *)
THEOREM PumpsRunWhilePlaying ==
  DescribedBeforeSetUp /\ "other" \notin Frame /\ Spec => []PlayingHasPump
<1>. SUFFICES ASSUME "other" \notin Frame
              PROVE  DescribedBeforeSetUp /\ Spec => []PlayingHasPump
  OBVIOUS
<1>1. StreamInv => PlayingHasPump
  <2>. SUFFICES ASSUME StreamInv, NEW c \in Listed, sess[c].state = "PLAYING"
                PROVE  TasksOf(c, "prefetch") \ EndingTask # {}
    BY DEF PlayingHasPump
  <2>1. c \in Client /\ Typed
    BY SeqValues, ElementOfSeq DEF StreamInv, LastInv, AnswerInv, OwnInv,
       TypeInv, Typed, StoreTyped, Listed
  <2>2. Pending(c, "prefetch") # 0
    BY <2>1 DEF StreamInv, Streams, StreamsFor
  <2>3. Left(c, "prefetch") # {}
    BY <2>1, <2>2, PendingType
  <2>. QED BY <2>3 DEF Left, TasksOf, Places
<1>. QED BY <1>1, StreamsHold, PTL
=============================================================================
