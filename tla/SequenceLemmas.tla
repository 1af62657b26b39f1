--------------------------- MODULE SequenceLemmas ---------------------------
(***************************************************************************)
(* Lemmas on numbers and sequences that the proofs about several           *)
(* components need.  Loops over lists are recursive functions on 0..n in   *)
(* the models; that such functions exist, and what they return, follows by *)
(* induction on a set of numbers.                                          *)
(***************************************************************************)
EXTENDS Integers, SequencesExt, SequenceSelection, SequenceTheorems, NaturalsInduction,
        WellFoundedInduction, TLAPS

(* f starts with v and goes from each value to the next by step.           *)
Recurs(f, n, v, step) ==
  f[0] = v /\ \A i \in 1..n : f[i] = step[i][f[i-1]]

(* k is the walk of Only along s.                                          *)
KeepsOnly(k, s, S) ==
  /\ k[0] = <<>>
  /\ \A i \in 1..Len(s) :
       k[i] = IF s[i] \in S THEN Append(k[i-1], s[i]) ELSE k[i-1]

LessOnNat == {p \in Nat \X Nat : p[1] < p[2]}

---------------------------------------------------------------------------
(* A nonempty set of naturals has a least element, and one that holds 0    *)
(* and the successor of each of its elements holds them all.               *)
LEMMA LeastNat ==
  ASSUME NEW T \in SUBSET Nat, T # {}
  PROVE  \E m \in T : \A k \in T : m <= k
<1>1. IsWellFoundedOn(LessOnNat, Nat)
  BY NatLessThanWellFounded DEF OpToRel, LessOnNat
<1>2. PICK m \in T : \A k \in T : ~ (<<k, m>> \in LessOnNat)
  BY <1>1, WFMin
<1>3. \A k \in T : ~ (k < m)
  BY <1>2 DEF LessOnNat
<1>. QED BY <1>3

(* Induction over a set of numbers.                                        *)
LEMMA NatSetInduction ==
  ASSUME NEW T \in SUBSET Nat, 0 \in T, \A n \in T : n + 1 \in T
  PROVE  T = Nat
<1>. SUFFICES ASSUME T # Nat PROVE FALSE
  OBVIOUS
<1>. DEFINE S == Nat \ T
<1>1. S \in SUBSET Nat /\ S # {}
  OBVIOUS
<1>. HIDE DEF S
<1>2. PICK m \in S : \A k \in S : m <= k
  BY <1>1, LeastNat
<1>3. m \in Nat /\ m \notin T
  BY <1>2 DEF S
<1>4. m # 0
  BY <1>3
<1>5. m - 1 \in Nat /\ ~ (m <= m - 1)
  BY <1>3, <1>4
<1>6. m - 1 \in T
  BY <1>2, <1>5 DEF S
<1>7. (m - 1) + 1 \in T
  BY <1>6
<1>. QED BY <1>3, <1>7

(* The same up to a bound, as a walk over a list goes.                     *)
LEMMA UptoInduction ==
  ASSUME NEW n \in Nat, NEW T \in SUBSET (0..n), 0 \in T,
         \A i \in 1..n : i - 1 \in T => i \in T
  PROVE  T = 0..n
<1>. DEFINE S == {m \in Nat : m <= n => m \in T}
<1>1. S \in SUBSET Nat /\ 0 \in S
  OBVIOUS
<1>2. ASSUME NEW m \in S PROVE m + 1 \in S
  <2>1. m + 1 <= n => /\ m + 1 \in 1..n /\ m \in T
                      /\ (m + 1) - 1 = m
    OBVIOUS
  <2>. QED BY <2>1
<1>3. S = Nat
  <2>. HIDE DEF S
  <2>. QED BY <1>1, <1>2, NatSetInduction
<1>4. \A m \in 0..n : m \in S
  <2>. HIDE DEF S
  <2>. QED BY <1>3
<1>5. \A m \in 0..n : m \in T
  BY <1>4
<1>. QED BY <1>5

(* A function on 0..n may be defined by its value at 0 and the step from   *)
(* each number to the next.                                                *)
LEMMA RecursionExists ==
  ASSUME NEW n \in Nat, NEW V, NEW v \in V, NEW step \in [1..n -> [V -> V]]
  PROVE  \E f \in [0..n -> V] : Recurs(f, n, v, step)
<1>. DEFINE Upto(m) == \E f \in [0..m -> V] : Recurs(f, m, v, step)
            T == {m \in Nat : m <= n => Upto(m)}
<1>1. 0 \in T
  <2>. DEFINE f == [i \in 0..0 |-> v]
  <2>1. f \in [0..0 -> V] /\ f[0] = v /\ \A i \in 1..0 : FALSE
    OBVIOUS
  <2>2. Upto(0)
    BY <2>1 DEF Recurs
  <2>. QED BY <2>2
<1>2. ASSUME NEW m \in T PROVE m + 1 \in T
  <2>. SUFFICES ASSUME m + 1 <= n PROVE Upto(m + 1)
    OBVIOUS
  <2>1. m \in Nat /\ m <= n
    OBVIOUS
  <2>2. PICK f \in [0..m -> V] : Recurs(f, m, v, step)
    BY <2>1
  <2>. DEFINE g == [i \in 0..m+1 |-> IF i <= m THEN f[i] ELSE step[i][f[m]]]
  <2>3. m + 1 \in 1..n /\ f[m] \in V
    BY <2>1
  <2>4. step[m+1][f[m]] \in V
    BY <2>3
  <2>5. g \in [0..m+1 -> V]
    BY <2>1, <2>4
  <2>6. g[0] = v
    BY <2>1, <2>2 DEF Recurs
  <2>7. \A i \in 1..m+1 : g[i] = step[i][g[i-1]]
    BY <2>1, <2>2 DEF Recurs
  <2>. QED BY <2>5, <2>6, <2>7 DEF Recurs
<1>3. T = Nat
  <2>. HIDE DEF T
  <2>1. T \in SUBSET Nat
    BY DEF T
  <2>. QED BY <1>1, <1>2, <2>1, NatSetInduction
<1>4. n \in T
  <2>. HIDE DEF T
  <2>. QED BY <1>3
<1>. QED BY <1>4

---------------------------------------------------------------------------
(* FlattenSeq joins the sequences one after the other.                     *)
LEMMA FlattenJoins ==
  ASSUME NEW E, NEW n \in Nat, NEW s \in [1..n -> Seq(E)]
  PROVE  \E g \in [0..n -> Seq(E)] :
           /\ g[0] = <<>>
           /\ \A i \in 1..n : g[i] = g[i-1] \o s[i]
           /\ FlattenSeq(s) = g[n]
<1>. DEFINE step == [i \in 1..n |-> [x \in Seq(E) |-> x \o s[i]]]
            Eq(f) == f = [i \in 1..n |-> IF i = 1 THEN s[i] ELSE f[i-1] \o s[i]]
            F == CHOOSE f : Eq(f)
<1>1. Len(s) = n /\ \A i \in 1..n : s[i] \in Seq(E)
  OBVIOUS
<1>2. step \in [1..n -> [Seq(E) -> Seq(E)]]
  <2>1. \A i \in 1..n : \A x \in Seq(E) : x \o s[i] \in Seq(E)
    BY <1>1
  <2>. QED BY <2>1
<1>3. PICK g \in [0..n -> Seq(E)] : Recurs(g, n, <<>>, step)
  <2>1. <<>> \in Seq(E)
    OBVIOUS
  <2>. HIDE DEF step
  <2>. QED BY <1>2, <2>1, RecursionExists
<1>4. g[0] = <<>> /\ \A i \in 1..n : g[i] = g[i-1] \o s[i]
  <2>1. \A i \in 1..n : g[i] = step[i][g[i-1]]
    <3>. HIDE DEF step
    <3>. QED BY <1>3 DEF Recurs
  <2>2. \A i \in 1..n : step[i][g[i-1]] = g[i-1] \o s[i]
    <3>1. \A i \in 1..n : g[i-1] \in Seq(E)
      OBVIOUS
    <3>. QED BY <3>1
  <2>3. g[0] = <<>>
    BY <1>3 DEF Recurs
  <2>. HIDE DEF step
  <2>. QED BY <2>1, <2>2, <2>3
<1>5. CASE n = 0
  <2>1. s = <<>>
    BY <1>1, <1>5
  <2>2. FlattenSeq(s) = s
    BY <1>1, <1>5, Zenon DEF FlattenSeq
  <2>3. FlattenSeq(s) = g[n]
    BY <1>4, <1>5, <2>1, <2>2, Zenon
  <2>. QED BY <1>4, <2>3, Zenon
<1>6. CASE n # 0
  <2>1. FlattenSeq(s) = F[n]
    BY <1>1, <1>6 DEF FlattenSeq
  <2>2. Eq([i \in 1..n |-> g[i]])
    <3>. DEFINE h == [i \in 1..n |-> g[i]]
    <3>1. \A i \in 1..n : h[i] = IF i = 1 THEN s[i] ELSE h[i-1] \o s[i]
      <4>. SUFFICES ASSUME NEW i \in 1..n
                    PROVE  h[i] = IF i = 1 THEN s[i] ELSE h[i-1] \o s[i]
        OBVIOUS
      <4>1. h[i] = g[i] /\ g[i] = g[i-1] \o s[i]
        BY <1>4
      <4>2. CASE i = 1
        <5>1. g[i-1] = <<>>
          BY <1>4, <4>2
        <5>2. <<>> \o s[i] = s[i]
          BY <1>1, ConcatEmptySeq, Zenon
        <5>3. h[i] = s[i]
          BY <4>1, <5>1, <5>2, Zenon
        <5>. QED BY <4>2, <5>3, Zenon
      <4>3. CASE i # 1
        <5>1. i - 1 \in 1..n /\ h[i-1] = g[i-1]
          BY <4>3
        <5>2. h[i] = h[i-1] \o s[i]
          BY <4>1, <5>1, Zenon
        <5>. QED BY <4>3, <5>2, Zenon
      <4>. QED BY <4>2, <4>3
    <3>2. h = [i \in 1..n |-> h[i]]
      OBVIOUS
    <3>. HIDE DEF h
    <3>3. h = [i \in 1..n |-> IF i = 1 THEN s[i] ELSE h[i-1] \o s[i]]
      BY <3>1, <3>2, Zenon
    <3>4. Eq(h)
      BY <3>3
    <3>. QED BY <3>4, Zenon DEF h
  <2>3. Eq(F)
    <3>. HIDE DEF Eq
    <3>. QED BY <2>2
  <2>. HIDE DEF F
  <2>4. \A i \in 1..n : F[i] = IF i = 1 THEN s[i] ELSE F[i-1] \o s[i]
    BY <2>3, Zenon
  <2>. DEFINE T == {i \in 0..n : i > 0 => F[i] = g[i]}
  <2>5. T \in SUBSET (0..n) /\ 0 \in T
    OBVIOUS
  <2>6. ASSUME NEW i \in 1..n, i - 1 \in T PROVE i \in T
    <3>1. g[i] = g[i-1] \o s[i] /\ F[i] = IF i = 1 THEN s[i] ELSE F[i-1] \o s[i]
      BY <1>4, <2>4
    <3>2. CASE i = 1
      <4>1. g[i-1] = <<>>
        BY <1>4, <3>2
      <4>2. <<>> \o s[i] = s[i]
        BY <1>1, ConcatEmptySeq, Zenon
      <4>3. F[i] = g[i]
        BY <3>1, <3>2, <4>1, <4>2, Zenon
      <4>. QED BY <4>3
    <3>3. CASE i # 1
      <4>1. F[i-1] = g[i-1]
        BY <2>6, <3>3
      <4>2. F[i] = g[i]
        BY <3>1, <3>3, <4>1, Zenon
      <4>. QED BY <4>2
    <3>. QED BY <3>2, <3>3
  <2>7. T = 0..n
    <3>. HIDE DEF T
    <3>. QED BY <2>5, <2>6, UptoInduction
  <2>8. F[n] = g[n]
    <3>1. n \in T
      <4>. HIDE DEF T
      <4>. QED BY <2>7
    <3>. QED BY <1>6, <3>1
  <2>9. FlattenSeq(s) = g[n]
    BY <2>1, <2>8, Zenon
  <2>. QED BY <1>4, <2>9, Zenon
<1>. QED BY <1>5, <1>6

---------------------------------------------------------------------------
(* Only is the end of a walk along the sequence.                           *)
LEMMA OnlyWalk ==
  ASSUME NEW E, NEW s \in Seq(E), NEW S
  PROVE  \E k \in [0..Len(s) -> Seq(E)] :
           KeepsOnly(k, s, S) /\ Only(s, S) = k[Len(s)]
<1>. DEFINE n == Len(s)
            step == [i \in 1..n |->
                       [x \in Seq(E) |->
                          IF s[i] \in S THEN Append(x, s[i]) ELSE x]]
            Eq(f) == f = [i \in 0..n |->
                            IF i = 0 THEN <<>>
                            ELSE IF s[i] \in S THEN Append(f[i-1], s[i])
                            ELSE f[i-1]]
            F == CHOOSE f : Eq(f)
<1>1. n \in Nat /\ \A i \in 1..n : s[i] \in E
  OBVIOUS
<1>2. step \in [1..n -> [Seq(E) -> Seq(E)]]
  <2>1. \A i \in 1..n : \A x \in Seq(E) :
          (IF s[i] \in S THEN Append(x, s[i]) ELSE x) \in Seq(E)
    BY <1>1
  <2>. HIDE DEF n
  <2>. QED BY <2>1
<1>3. PICK g \in [0..n -> Seq(E)] : Recurs(g, n, <<>>, step)
  <2>1. <<>> \in Seq(E)
    OBVIOUS
  <2>. HIDE DEF step, n
  <2>. QED BY <1>1, <1>2, <2>1, RecursionExists
<1>. HIDE DEF n
<1>4. g[0] = <<>>
  BY <1>3 DEF Recurs
<1>5. \A i \in 1..n : g[i] = IF s[i] \in S THEN Append(g[i-1], s[i]) ELSE g[i-1]
  <2>1. \A i \in 1..n : g[i] = step[i][g[i-1]]
    <3>. HIDE DEF step
    <3>. QED BY <1>3 DEF Recurs
  <2>2. \A i \in 1..n : g[i-1] \in Seq(E)
    BY <1>1
  <2>3. \A i \in 1..n : step[i][g[i-1]] =
          IF s[i] \in S THEN Append(g[i-1], s[i]) ELSE g[i-1]
    BY <2>2
  <2>. HIDE DEF step
  <2>. QED BY <2>1, <2>3, Zenon
<1>6. KeepsOnly(g, s, S)
  BY <1>4, <1>5, Zenon DEF KeepsOnly, n
<1>7. Only(s, S) = F[n]
  BY DEF Only, n
<1>8. Eq(g)
  <2>1. \A i \in 0..n : g[i] = IF i = 0 THEN <<>>
                               ELSE IF s[i] \in S THEN Append(g[i-1], s[i])
                               ELSE g[i-1]
    <3>. SUFFICES ASSUME NEW i \in 0..n
                  PROVE  g[i] = IF i = 0 THEN <<>>
                                ELSE IF s[i] \in S THEN Append(g[i-1], s[i])
                                ELSE g[i-1]
      OBVIOUS
    <3>1. i = 0 \/ i \in 1..n
      BY <1>1
    <3>2. CASE i = 0
      BY <1>4, <3>2, Zenon
    <3>3. CASE i # 0
      BY <1>5, <3>1, <3>3, Zenon
    <3>. QED BY <3>2, <3>3
  <2>2. g = [i \in 0..n |-> g[i]]
    OBVIOUS
  <2>. QED BY <2>1, <2>2, Zenon
<1>9. Eq(F)
  <2>. HIDE DEF Eq
  <2>. QED BY <1>8
<1>. HIDE DEF F
<1>10. \A i \in 0..n : F[i] = IF i = 0 THEN <<>>
                              ELSE IF s[i] \in S THEN Append(F[i-1], s[i])
                              ELSE F[i-1]
  BY <1>9, Zenon
<1>. DEFINE T == {i \in 0..n : F[i] = g[i]}
<1>11. T \in SUBSET (0..n) /\ 0 \in T
  <2>1. 0 \in 0..n
    BY <1>1
  <2>2. F[0] = g[0]
    BY <1>4, <1>10, <2>1, Zenon
  <2>. QED BY <2>1, <2>2
<1>12. ASSUME NEW i \in 1..n, i - 1 \in T PROVE i \in T
  <2>1. i \in 0..n /\ i # 0
    BY <1>1
  <2>2. F[i-1] = g[i-1]
    BY <1>12
  <2>3. F[i] = IF s[i] \in S THEN Append(F[i-1], s[i]) ELSE F[i-1]
    BY <1>10, <2>1, Zenon
  <2>4. g[i] = IF s[i] \in S THEN Append(g[i-1], s[i]) ELSE g[i-1]
    BY <1>5, Zenon
  <2>5. F[i] = g[i]
    BY <2>2, <2>3, <2>4
  <2>. QED BY <2>1, <2>5
<1>13. T = 0..n
  <2>. HIDE DEF T
  <2>. QED BY <1>1, <1>11, <1>12, UptoInduction
<1>14. F[n] = g[n]
  <2>1. n \in T
    <3>. HIDE DEF T
    <3>. QED BY <1>1, <1>13
  <2>. QED BY <2>1
<1>15. Only(s, S) = g[Len(s)]
  BY <1>7, <1>14, Zenon DEF n
<1>. QED BY <1>6, <1>15, Zenon DEF n

(* What Only gives is no longer, in S and from the sequence.               *)
LEMMA OnlyKeeps ==
  ASSUME NEW E, NEW s \in Seq(E), NEW S
  PROVE  /\ Only(s, S) \in Seq(E) /\ Len(Only(s, S)) <= Len(s)
         /\ \A j \in 1..Len(Only(s, S)) :
              /\ Only(s, S)[j] \in S
              /\ \E i \in 1..Len(s) : Only(s, S)[j] = s[i]
<1>1. PICK k \in [0..Len(s) -> Seq(E)] :
        KeepsOnly(k, s, S) /\ Only(s, S) = k[Len(s)]
  BY OnlyWalk
<1>2. Len(s) \in Nat /\ \A i \in 1..Len(s) : s[i] \in E
  OBVIOUS
<1>. DEFINE From(x) == x \in S /\ \E i \in 1..Len(s) : x = s[i]
            T == {i \in 0..Len(s) : /\ Len(k[i]) <= i
                                    /\ \A j \in 1..Len(k[i]) : From(k[i][j])}
<1>3. T \in SUBSET (0..Len(s)) /\ 0 \in T
  <2>1. k[0] = <<>>
    BY <1>1 DEF KeepsOnly
  <2>2. 0 \in 0..Len(s)
    BY <1>2
  <2>. HIDE DEF From
  <2>. QED BY <2>1, <2>2
<1>4. ASSUME NEW i \in 1..Len(s), i - 1 \in T PROVE i \in T
  <2>1. k[i] = IF s[i] \in S THEN Append(k[i-1], s[i]) ELSE k[i-1]
    BY <1>1 DEF KeepsOnly
  <2>2. i \in 0..Len(s) /\ k[i-1] \in Seq(E)
    BY <1>2, SMTT(60)
  <2>3. /\ Len(k[i-1]) <= i - 1
        /\ \A j \in 1..Len(k[i-1]) : From(k[i-1][j])
    <3>. HIDE DEF From
    <3>. QED BY <1>4
  <2>4. CASE s[i] \notin S
    <3>1. k[i] = k[i-1]
      BY <2>1, <2>4
    <3>2. Len(k[i]) <= i
      BY <2>2, <2>3, <3>1
    <3>3. \A j \in 1..Len(k[i]) : From(k[i][j])
      <4>. HIDE DEF From
      <4>. QED BY <2>3, <3>1
    <3>. HIDE DEF From
    <3>. QED BY <2>2, <3>2, <3>3
  <2>5. CASE s[i] \in S
    <3>1. k[i] = Append(k[i-1], s[i])
      BY <2>1, <2>5
    <3>2. From(s[i])
      BY <2>5
    <3>. HIDE DEF From
    <3>3. Len(k[i]) = Len(k[i-1]) + 1
      BY <1>2, <2>2, <3>1
    <3>4. \A j \in 1..Len(k[i]) : k[i][j] = s[i] \/ (j \in 1..Len(k[i-1]) /\ k[i][j] = k[i-1][j])
      BY <1>2, <2>2, <3>1, <3>3
    <3>5. \A j \in 1..Len(k[i]) : From(k[i][j])
      BY <2>3, <3>2, <3>4, Zenon
    <3>6. Len(k[i]) <= i
      BY <2>2, <2>3, <3>3
    <3>. QED BY <2>2, <3>5, <3>6
  <2>. QED BY <2>4, <2>5
<1>5. T = 0..Len(s)
  <2>. HIDE DEF T
  <2>. QED BY <1>2, <1>3, <1>4, UptoInduction
<1>6. Len(s) \in T
  <2>. HIDE DEF T
  <2>. QED BY <1>2, <1>5
<1>7. /\ Len(Only(s, S)) <= Len(s)
      /\ \A j \in 1..Len(Only(s, S)) : From(Only(s, S)[j])
  <2>. HIDE DEF From
  <2>. QED BY <1>1, <1>6
<1>8. Only(s, S) \in Seq(E)
  BY <1>1, <1>2
<1>. QED BY <1>7, <1>8, Zenon

(* It gives the whole sequence when all of it is in S ...                  *)
LEMMA OnlyAll ==
  ASSUME NEW E, NEW s \in Seq(E), NEW S, \A i \in 1..Len(s) : s[i] \in S
  PROVE  Only(s, S) = s
<1>1. PICK k \in [0..Len(s) -> Seq(E)] :
        KeepsOnly(k, s, S) /\ Only(s, S) = k[Len(s)]
  BY OnlyWalk
<1>2. Len(s) \in Nat /\ \A i \in 1..Len(s) : s[i] \in E
  OBVIOUS
<1>. DEFINE T == {i \in 0..Len(s) : /\ Len(k[i]) = i
                                    /\ \A j \in 1..i : k[i][j] = s[j]}
<1>3. T \in SUBSET (0..Len(s)) /\ 0 \in T
  <2>1. k[0] = <<>>
    BY <1>1 DEF KeepsOnly
  <2>. QED BY <1>2, <2>1
<1>4. ASSUME NEW i \in 1..Len(s), i - 1 \in T PROVE i \in T
  <2>1. k[i] = Append(k[i-1], s[i])
    BY <1>1 DEF KeepsOnly
  <2>2. i \in 0..Len(s) /\ k[i-1] \in Seq(E) /\ s[i] \in E
    BY <1>2
  <2>3. Len(k[i-1]) = i - 1 /\ \A j \in 1..(i-1) : k[i-1][j] = s[j]
    BY <1>4
  <2>4. Len(k[i]) = i
    BY <2>1, <2>2, <2>3
  <2>5. ASSUME NEW j \in 1..i PROVE k[i][j] = s[j]
    <3>1. CASE j = i
      BY <2>1, <2>2, <2>3, <3>1
    <3>2. CASE j # i
      <4>1. j \in 1..(i-1)
        BY <3>2
      <4>2. k[i][j] = k[i-1][j]
        BY <2>1, <2>2, <2>3, <4>1
      <4>. QED BY <2>3, <4>1, <4>2, Zenon
    <3>. QED BY <3>1, <3>2
  <2>. QED BY <2>2, <2>4, <2>5
<1>5. T = 0..Len(s)
  <2>. HIDE DEF T
  <2>. QED BY <1>2, <1>3, <1>4, UptoInduction
<1>6. Len(s) \in T
  <2>. HIDE DEF T
  <2>. QED BY <1>2, <1>5
<1>. DEFINE o == Only(s, S)
<1>7. o \in Seq(E) /\ Len(o) = Len(s) /\ \A j \in 1..Len(o) : o[j] = s[j]
  BY <1>1, <1>2, <1>6
<1>. HIDE DEF o
<1>8. o = s
  BY <1>7, SeqEqual
<1>. QED BY <1>8 DEF o

(* ... and nothing when none of it is.                                     *)
LEMMA OnlyNone ==
  ASSUME NEW E, NEW s \in Seq(E), NEW S, \A i \in 1..Len(s) : s[i] \notin S
  PROVE  Only(s, S) = <<>>
<1>1. Only(s, S) \in Seq(E)
  BY OnlyKeeps
<1>2. \A j \in 1..Len(Only(s, S)) :
        Only(s, S)[j] \in S /\ \E i \in 1..Len(s) : Only(s, S)[j] = s[i]
  BY OnlyKeeps
<1>3. \A j \in 1..Len(Only(s, S)) : FALSE
  BY <1>2, Zenon
<1>. DEFINE o == Only(s, S)
<1>4. o \in Seq(E) /\ \A j \in 1..Len(o) : FALSE
  BY <1>1, <1>3
<1>. HIDE DEF o
<1>5. o = <<>>
  <2>1. Len(o) \in Nat
    BY <1>4
  <2>2. Len(o) = 0
    BY <1>4, <2>1
  <2>. QED BY <1>4, <2>2, EmptySeq
<1>. QED BY <1>5 DEF o

(* Joining and appending change places.                                    *)
LEMMA ConcatAppend ==
  ASSUME NEW E, NEW x \in Seq(E), NEW y \in Seq(E), NEW e \in E
  PROVE  x \o Append(y, e) = Append(x \o y, e)
<1>. DEFINE a == x \o Append(y, e)
            b == Append(x \o y, e)
<1>1. Append(y, e) \in Seq(E) /\ x \o y \in Seq(E)
  OBVIOUS
<1>2. a \in Seq(E) /\ b \in Seq(E)
  BY <1>1
<1>3. Len(a) = Len(x) + Len(y) + 1 /\ Len(b) = Len(x) + Len(y) + 1
  BY <1>1
<1>4. \A i \in 1..Len(a) : a[i] = b[i]
  <2>. SUFFICES ASSUME NEW i \in 1..(Len(x) + Len(y) + 1) PROVE a[i] = b[i]
    BY <1>3
  <2>1. Len(x) \in Nat /\ Len(y) \in Nat
    OBVIOUS
  <2>2. CASE i <= Len(x)
    BY <1>1, <2>1, <2>2
  <2>3. CASE i > Len(x) /\ i <= Len(x) + Len(y)
    BY <1>1, <2>1, <2>3
  <2>4. CASE i = Len(x) + Len(y) + 1
    BY <1>1, <2>1, <2>4
  <2>. QED BY <2>1, <2>2, <2>3, <2>4
<1>. HIDE DEF a, b
<1>5. a = b
  BY <1>2, <1>3, <1>4, SeqEqual
<1>. QED BY <1>5 DEF a, b

(* What is kept of two sequences joined is what is kept of each.  (The     *)
(* sets need to agree only on what each sequence holds.)                   *)
LEMMA OnlyJoins ==
  ASSUME NEW E, NEW s \in Seq(E), NEW t \in Seq(E), NEW S, NEW A, NEW B,
         \A i \in 1..Len(s) : s[i] \in S <=> s[i] \in A,
         \A i \in 1..Len(t) : t[i] \in S <=> t[i] \in B
  PROVE  Only(s \o t, S) = Only(s, A) \o Only(t, B)
<1>. DEFINE u == s \o t
<1>1. /\ Len(s) \in Nat /\ Len(t) \in Nat /\ u \in Seq(E)
      /\ Len(u) = Len(s) + Len(t)
      /\ \A i \in 1..Len(s) : u[i] = s[i]
      /\ \A i \in 1..Len(t) : u[Len(s) + i] = t[i]
  OBVIOUS
<1>2. (\A i \in 1..Len(s) : s[i] \in E) /\ \A i \in 1..Len(t) : t[i] \in E
  OBVIOUS
<1>. HIDE DEF u
<1>3. PICK k \in [0..Len(u) -> Seq(E)] :
        KeepsOnly(k, u, S) /\ Only(u, S) = k[Len(u)]
  <2>1. u \in Seq(E)
    BY <1>1
  <2>. QED BY <2>1, OnlyWalk, Zenon
<1>4. PICK f \in [0..Len(s) -> Seq(E)] :
        KeepsOnly(f, s, A) /\ Only(s, A) = f[Len(s)]
  BY OnlyWalk
<1>5. PICK g \in [0..Len(t) -> Seq(E)] :
        KeepsOnly(g, t, B) /\ Only(t, B) = g[Len(t)]
  BY OnlyWalk
<1>. DEFINE T == {i \in 0..Len(s) : k[i] = f[i]}
<1>6. T \in SUBSET (0..Len(s)) /\ 0 \in T
  <2>1. k[0] = f[0]
    BY <1>3, <1>4 DEF KeepsOnly
  <2>. QED BY <1>1, <2>1
<1>7. ASSUME NEW i \in 1..Len(s), i - 1 \in T PROVE i \in T
  <2>1. i \in 1..Len(u) /\ i \in 0..Len(s) /\ u[i] = s[i]
    BY <1>1
  <2>2. k[i] = IF u[i] \in S THEN Append(k[i-1], u[i]) ELSE k[i-1]
    BY <1>3, <2>1 DEF KeepsOnly
  <2>3. f[i] = IF s[i] \in A THEN Append(f[i-1], s[i]) ELSE f[i-1]
    BY <1>4 DEF KeepsOnly
  <2>4. (s[i] \in S <=> s[i] \in A) /\ k[i-1] = f[i-1]
    BY <1>7
  <2>5. k[i] = f[i]
    BY <2>1, <2>2, <2>3, <2>4
  <2>. QED BY <2>1, <2>5
<1>8. T = 0..Len(s)
  <2>. HIDE DEF T
  <2>. QED BY <1>1, <1>6, <1>7, UptoInduction
<1>9. k[Len(s)] = f[Len(s)]
  <2>1. Len(s) \in T
    <3>. HIDE DEF T
    <3>. QED BY <1>1, <1>8
  <2>. QED BY <2>1
<1>. DEFINE U == {i \in 0..Len(t) : k[Len(s) + i] = f[Len(s)] \o g[i]}
<1>10. U \in SUBSET (0..Len(t)) /\ 0 \in U
  <2>0. Len(s) \in 0..Len(s)
    BY <1>1
  <2>1. g[0] = <<>> /\ f[Len(s)] \in Seq(E)
    BY <1>5, <2>0, Zenon DEF KeepsOnly
  <2>2. f[Len(s)] \o <<>> = f[Len(s)]
    BY <2>1, ConcatEmptySeq, Zenon
  <2>3. Len(s) + 0 = Len(s) /\ 0 \in 0..Len(t)
    BY <1>1
  <2>4. k[Len(s) + 0] = f[Len(s)] \o g[0]
    BY <1>9, <2>1, <2>2, <2>3, Zenon
  <2>. QED BY <2>3, <2>4
<1>11. ASSUME NEW i \in 1..Len(t), i - 1 \in U PROVE i \in U
  <2>1. /\ Len(s) + i \in 1..Len(u) /\ i \in 0..Len(t) /\ i - 1 \in 0..Len(t)
        /\ (Len(s) + i) - 1 = Len(s) + (i - 1)
    BY <1>1
  <2>2. u[Len(s) + i] = t[i] /\ t[i] \in E
    BY <1>1, <1>2
  <2>3. k[Len(s) + i] = IF t[i] \in S THEN Append(k[Len(s) + (i - 1)], t[i])
                        ELSE k[Len(s) + (i - 1)]
    <3>1. k[Len(s) + i] =
            IF u[Len(s) + i] \in S
            THEN Append(k[(Len(s) + i) - 1], u[Len(s) + i])
            ELSE k[(Len(s) + i) - 1]
      BY <1>3, <2>1, Zenon DEF KeepsOnly
    <3>. QED BY <2>1, <2>2, <3>1
  <2>4. g[i] = IF t[i] \in B THEN Append(g[i-1], t[i]) ELSE g[i-1]
    BY <1>5 DEF KeepsOnly
  <2>5. t[i] \in S <=> t[i] \in B
    OBVIOUS
  <2>6. k[Len(s) + (i - 1)] = f[Len(s)] \o g[i-1]
    BY <1>11
  <2>7. f[Len(s)] \in Seq(E) /\ g[i-1] \in Seq(E)
    <3>1. Len(s) \in 0..Len(s)
      BY <1>1
    <3>. QED BY <2>1, <3>1, Zenon
  <2>8. f[Len(s)] \o Append(g[i-1], t[i]) = Append(f[Len(s)] \o g[i-1], t[i])
    <3>1. t[i] \in E
      BY <2>2
    <3>2. \A x \in Seq(E) : \A y \in Seq(E) :
            x \o Append(y, t[i]) = Append(x \o y, t[i])
      BY <3>1, ConcatAppend, SMTT(60)
    <3>. QED BY <2>7, <3>2, Zenon
  <2>9. k[Len(s) + i] = f[Len(s)] \o g[i]
    BY <2>3, <2>4, <2>5, <2>6, <2>8
  <2>. QED BY <2>1, <2>9
<1>12. U = 0..Len(t)
  <2>. HIDE DEF U
  <2>. QED BY <1>1, <1>10, <1>11, UptoInduction
<1>13. k[Len(s) + Len(t)] = f[Len(s)] \o g[Len(t)]
  <2>1. Len(t) \in U
    <3>. HIDE DEF U
    <3>. QED BY <1>1, <1>12
  <2>. QED BY <2>1
<1>14. Only(u, S) = Only(s, A) \o Only(t, B)
  BY <1>1, <1>3, <1>4, <1>5, <1>13
<1>. QED BY <1>14 DEF u

(* Only looks at the set where the sequence is.                            *)
LEMMA OnlySame ==
  ASSUME NEW E, NEW s \in Seq(E), NEW S, NEW A,
         \A i \in 1..Len(s) : s[i] \in S <=> s[i] \in A
  PROVE  Only(s, S) = Only(s, A)
<1>1. PICK k \in [0..Len(s) -> Seq(E)] :
        KeepsOnly(k, s, S) /\ Only(s, S) = k[Len(s)]
  BY OnlyWalk
<1>2. PICK l \in [0..Len(s) -> Seq(E)] :
        KeepsOnly(l, s, A) /\ Only(s, A) = l[Len(s)]
  BY OnlyWalk
<1>. DEFINE n == Len(s)
            T == {i \in 0..n : k[i] = l[i]}
<1>3. n \in Nat /\ T \in SUBSET (0..n)
  OBVIOUS
<1>4. 0 \in T
  BY <1>1, <1>2, <1>3 DEF KeepsOnly
<1>5. ASSUME NEW i \in 1..n, i - 1 \in T PROVE i \in T
  <2>1. i \in 0..n /\ i \in 1..Len(s) /\ k[i-1] = l[i-1]
    BY <1>3, <1>5
  <2>2. k[i] = IF s[i] \in S THEN Append(k[i-1], s[i]) ELSE k[i-1]
    BY <1>1, <2>1, Zenon DEF KeepsOnly
  <2>3. l[i] = IF s[i] \in A THEN Append(l[i-1], s[i]) ELSE l[i-1]
    BY <1>2, <2>1, Zenon DEF KeepsOnly
  <2>4. s[i] \in S <=> s[i] \in A
    BY <2>1, Zenon
  <2>5. k[i] = l[i]
    BY <2>1, <2>2, <2>3, <2>4, Zenon
  <2>. QED BY <2>1, <2>5, Zenon
<1>6. T = 0..n
  <2>. HIDE DEF T
  <2>. QED BY <1>3, <1>4, <1>5, UptoInduction
<1>7. n \in T
  BY <1>3, <1>6
<1>. QED BY <1>1, <1>2, <1>7, Zenon DEF n

(* Appending adds to what is kept, or does not.                            *)
LEMMA OnlyAppend ==
  ASSUME NEW E, NEW s \in Seq(E), NEW e \in E, NEW S, NEW A,
         \A i \in 1..Len(s) : s[i] \in S <=> s[i] \in A
  PROVE  Only(Append(s, e), S) = IF e \in S THEN Append(Only(s, A), e)
                                 ELSE Only(s, A)
<1>. DEFINE one == <<e>>
<1>1. one \in Seq(E) /\ Len(one) = 1 /\ one[1] = e
  OBVIOUS
<1>2. Append(s, e) = s \o one
  BY AppendIsConcat, Zenon
<1>. HIDE DEF one
<1>3. Only(s, A) \in Seq(E)
  BY OnlyKeeps
<1>4. Only(s \o one, S) = Only(s, A) \o Only(one, S)
  <2>1. \A t \in Seq(E) : (\A i \in 1..Len(t) : t[i] \in S <=> t[i] \in S) =>
          Only(s \o t, S) = Only(s, A) \o Only(t, S)
    BY OnlyJoins
  <2>. QED BY <1>1, <2>1, Zenon
<1>5. CASE e \in S
  <2>1. \A i \in 1..Len(one) : one[i] \in S
    BY <1>1, <1>5
  <2>2. Only(one, S) = one
    BY <1>1, <2>1, OnlyAll
  <2>3. Append(Only(s, A), e) = Only(s, A) \o one
    BY <1>3, AppendIsConcat, Zenon DEF one
  <2>. QED BY <1>2, <1>4, <1>5, <2>2, <2>3, Zenon
<1>6. CASE e \notin S
  <2>1. \A i \in 1..Len(one) : one[i] \notin S
    BY <1>1, <1>6
  <2>2. Only(one, S) = <<>>
    BY <1>1, <2>1, OnlyNone
  <2>3. Only(s, A) \o <<>> = Only(s, A)
    BY <1>3, ConcatEmptySeq, Zenon
  <2>. QED BY <1>2, <1>4, <1>6, <2>2, <2>3, Zenon
<1>. QED BY <1>5, <1>6

(* FlattenSeq of one sequence more.                                        *)
LEMMA FlattenAppends ==
  ASSUME NEW E, NEW n \in Nat \ {0}, NEW s \in [1..n -> Seq(E)]
  PROVE  FlattenSeq(s) = FlattenSeq([i \in 1..n-1 |-> s[i]]) \o s[n]
<1>. DEFINE t == [i \in 1..n-1 |-> s[i]]
<1>1. n - 1 \in Nat /\ n \in Nat /\ t \in [1..n-1 -> Seq(E)]
  <2>1. n - 1 \in Nat /\ n \in Nat /\ \A i \in 1..n-1 : i \in 1..n
    OBVIOUS
  <2>. QED BY <2>1
<1>2. \A i \in 1..n-1 : t[i] = s[i]
  OBVIOUS
<1>. HIDE DEF t
<1>3. PICK g \in [0..n -> Seq(E)] :
        /\ g[0] = <<>>
        /\ \A i \in 1..n : g[i] = g[i-1] \o s[i]
        /\ FlattenSeq(s) = g[n]
  BY <1>1, FlattenJoins, ZenonT(90)
<1>4. PICK h \in [0..n-1 -> Seq(E)] :
        /\ h[0] = <<>>
        /\ \A i \in 1..n-1 : h[i] = h[i-1] \o t[i]
        /\ FlattenSeq(t) = h[n-1]
  BY <1>1, FlattenJoins, ZenonT(90)
<1>. DEFINE T == {i \in 0..n-1 : g[i] = h[i]}
<1>5. T \in SUBSET (0..n-1) /\ 0 \in T
  BY <1>1, <1>3, <1>4
<1>6. ASSUME NEW i \in 1..n-1, i - 1 \in T PROVE i \in T
  <2>1. i \in 0..n-1 /\ i \in 1..n
    BY <1>1
  <2>2. g[i-1] = h[i-1]
    BY <1>6
  <2>3. g[i] = g[i-1] \o s[i] /\ h[i] = h[i-1] \o s[i]
    BY <1>2, <1>3, <1>4, <2>1, Zenon
  <2>4. g[i] = h[i]
    BY <2>2, <2>3, Zenon
  <2>. QED BY <2>1, <2>4
<1>7. T = 0..n-1
  <2>. HIDE DEF T
  <2>. QED BY <1>1, <1>5, <1>6, UptoInduction
<1>8. g[n-1] = h[n-1]
  <2>1. n - 1 \in T
    <3>. HIDE DEF T
    <3>. QED BY <1>1, <1>7
  <2>. QED BY <2>1
<1>9. FlattenSeq(s) = FlattenSeq(t) \o s[n]
  <2>1. n \in 1..n
    BY <1>1
  <2>2. g[n] = g[n-1] \o s[n]
    BY <1>3, <2>1, Zenon
  <2>. QED BY <1>3, <1>4, <1>8, <2>2, Zenon
<1>. QED BY <1>9 DEF t

(* What \o, Append and SubSeq give, element by element.                    *)
LEMMA ConcatFacts ==
  ASSUME NEW E, NEW x \in Seq(E), NEW y \in Seq(E)
  PROVE  /\ x \o y \in Seq(E) /\ Len(x \o y) = Len(x) + Len(y)
         /\ \A p \in 1..Len(x) : (x \o y)[p] = x[p]
         /\ \A k \in 1..Len(y) : (x \o y)[Len(x) + k] = y[k]
OBVIOUS

LEMMA AppendFacts ==
  ASSUME NEW E, NEW x \in Seq(E), NEW e \in E
  PROVE  /\ Append(x, e) \in Seq(E) /\ Len(Append(x, e)) = Len(x) + 1
         /\ \A p \in 1..Len(x) : Append(x, e)[p] = x[p]
         /\ Append(x, e)[Len(x) + 1] = e
OBVIOUS

LEMMA PieceFacts ==
  ASSUME NEW E, NEW s \in Seq(E), NEW a \in 1..Len(s)+1, NEW b \in a-1..Len(s)
  PROVE  /\ SubSeq(s, a, b) \in Seq(E) /\ Len(SubSeq(s, a, b)) = b - a + 1
         /\ \A j \in 1..b - a + 1 : SubSeq(s, a, b)[j] = s[a + j - 1]
<1>1. a \in Int /\ b \in Int /\ Len(s) \in Nat /\ \A i \in a..b : i \in 1..Len(s)
  OBVIOUS
<1>2. \A i \in a..b : s[i] \in E
  BY <1>1
<1>3. /\ SubSeq(s, a, b) \in Seq(E)
      /\ Len(SubSeq(s, a, b)) = IF a <= b THEN b - a + 1 ELSE 0
      /\ \A j \in 1..b - a + 1 : SubSeq(s, a, b)[j] = s[a + j - 1]
  BY <1>1, <1>2, SubSeqProperties
<1>4. (IF a <= b THEN b - a + 1 ELSE 0) = b - a + 1
  BY <1>1
<1>. QED BY <1>3, <1>4, Zenon

(* Two sequences with the same elements are the same.                      *)
LEMMA SameElements ==
  ASSUME NEW E, NEW F, NEW x \in Seq(E), NEW y \in Seq(F), Len(x) = Len(y),
         \A j \in 1..Len(x) : x[j] = y[j]
  PROVE  x = y
OBVIOUS
=============================================================================
