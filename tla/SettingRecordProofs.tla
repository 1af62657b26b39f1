------------------------ MODULE SettingRecordProofs ------------------------
(***************************************************************************)
(* Proofs about SettingRecord.  What is written is the records of the      *)
(* names one after the other, and what is read is sorted into the names    *)
(* again: OfLines and LinesOfNames say that each undoes the other.  The    *)
(* two invariants of the runs rest on that, on the counts being right, and *)
(* on no loop that removes a surplus having anything to do after a load.   *)
(***************************************************************************)
EXTENDS SettingRecord, SequenceLemmas

Record == [name : Name, time : Time, nth : Nat]

ByName(s) ==
  \A i, j \in 1..Len(s) : i <= j => s[i].name <= s[j].name

---------------------------------------------------------------------------
(* In what is sorted by name the records up to a name are followed by      *)
(* those of the next.                                                      *)
LEMMA NextNameFollows ==
  ASSUME NEW s \in Seq(Record), ByName(s), NEW m \in Nat
  PROVE  Only(s, {r \in Record : r.name <= m + 1}) =
           Only(s, {r \in Record : r.name <= m}) \o OfName(m + 1, s)
<1>. DEFINE P == {r \in Record : r.name <= m + 1}
            Q == {r \in Record : r.name <= m}
            R == {r \in Range(s) : r.name = m + 1}
<1>1. Len(s) \in Nat /\ \A i \in 1..Len(s) : s[i] \in Record
  OBVIOUS
<1>2. \A i \in 1..Len(s) : s[i].name \in Int
  BY <1>1 DEF Record, Name
<1>3. \A i \in 1..Len(s) : /\ s[i] \in P <=> s[i].name <= m + 1
                           /\ s[i] \in Q <=> s[i].name <= m
                           /\ s[i] \in R <=> s[i].name = m + 1
  <2>1. \A i \in 1..Len(s) : s[i] \in Range(s)
    BY DEF Range
  <2>. QED BY <1>1, <2>1
<1>4. OfName(m + 1, s) = Only(s, R)
  BY DEF OfName
<1>. HIDE DEF P, Q, R
<1>5. PICK k \in [0..Len(s) -> Seq(Record)] :
        KeepsOnly(k, s, P) /\ Only(s, P) = k[Len(s)]
  BY OnlyWalk
<1>6. PICK f \in [0..Len(s) -> Seq(Record)] :
        KeepsOnly(f, s, Q) /\ Only(s, Q) = f[Len(s)]
  BY OnlyWalk
<1>7. PICK g \in [0..Len(s) -> Seq(Record)] :
        KeepsOnly(g, s, R) /\ Only(s, R) = g[Len(s)]
  BY OnlyWalk
<1>. DEFINE T == {i \in 0..Len(s) :
                    /\ k[i] = f[i] \o g[i]
                    /\ (\A j \in 1..i : s[j].name <= m) => g[i] = <<>>}
<1>8. T \in SUBSET (0..Len(s)) /\ 0 \in T
  <2>1. k[0] = <<>> /\ f[0] = <<>> /\ g[0] = <<>>
    BY <1>5, <1>6, <1>7 DEF KeepsOnly
  <2>2. 0 \in 0..Len(s)
    BY <1>1
  <2>3. <<>> \o <<>> = <<>>
    OBVIOUS
  <2>. QED BY <2>1, <2>2, <2>3
<1>9. ASSUME NEW i \in 1..Len(s), i - 1 \in T PROVE i \in T
  <2>1. /\ i \in 0..Len(s) /\ s[i] \in Record /\ s[i].name \in Int
        /\ f[i-1] \in Seq(Record) /\ g[i-1] \in Seq(Record)
    <3>1. i \in 0..Len(s) /\ i - 1 \in 0..Len(s)
      BY <1>1
    <3>. QED BY <1>1, <1>2, <3>1, Zenon
  <2>2. /\ k[i] = IF s[i].name <= m + 1 THEN Append(k[i-1], s[i]) ELSE k[i-1]
        /\ f[i] = IF s[i].name <= m THEN Append(f[i-1], s[i]) ELSE f[i-1]
        /\ g[i] = IF s[i].name = m + 1 THEN Append(g[i-1], s[i]) ELSE g[i-1]
    BY <1>3, <1>5, <1>6, <1>7 DEF KeepsOnly
  <2>3. /\ k[i-1] = f[i-1] \o g[i-1]
        /\ (\A j \in 1..(i-1) : s[j].name <= m) => g[i-1] = <<>>
    BY <1>9
  <2>4. CASE s[i].name <= m
    <3>1. \A j \in 1..(i-1) : s[j].name <= m
      <4>1. \A j \in 1..(i-1) : j \in 1..Len(s) /\ j <= i
        BY <1>1
      <4>2. \A j \in 1..(i-1) : s[j].name <= s[i].name
        BY <4>1 DEF ByName
      <4>. QED BY <1>2, <2>1, <2>4, <4>1, <4>2, SMTT(60)
    <3>2. g[i-1] = <<>>
      BY <2>3, <3>1
    <3>3. g[i] = <<>>
      BY <2>1, <2>2, <2>4, <3>2
    <3>4. k[i-1] = f[i-1]
      BY <2>1, <2>3, <3>2, ConcatEmptySeq
    <3>5. k[i] = f[i]
      BY <2>1, <2>2, <2>4, <3>4, SMTT(60)
    <3>6. f[i] \in Seq(Record)
      BY <2>1
    <3>7. k[i] = f[i] \o g[i]
      BY <3>3, <3>5, <3>6, ConcatEmptySeq
    <3>. QED BY <2>1, <3>3, <3>7
  <2>5. CASE s[i].name = m + 1
    <3>1. /\ k[i] = Append(k[i-1], s[i]) /\ f[i] = f[i-1]
          /\ g[i] = Append(g[i-1], s[i])
      BY <2>2, <2>5
    <3>2. f[i-1] \o Append(g[i-1], s[i]) = Append(f[i-1] \o g[i-1], s[i])
      BY <2>1, ConcatAppend, SMTT(60)
    <3>3. k[i] = f[i] \o g[i]
      BY <2>3, <3>1, <3>2, Zenon
    <3>4. ~ (\A j \in 1..i : s[j].name <= m)
      BY <2>5
    <3>. QED BY <2>1, <3>3, <3>4
  <2>6. CASE s[i].name > m + 1
    <3>1. k[i] = k[i-1] /\ f[i] = f[i-1] /\ g[i] = g[i-1]
      BY <2>1, <2>2, <2>6, SMTT(60)
    <3>2. k[i] = f[i] \o g[i]
      BY <2>3, <3>1, Zenon
    <3>3. ~ (\A j \in 1..i : s[j].name <= m)
      BY <2>1, <2>6
    <3>. QED BY <2>1, <3>2, <3>3
  <2>7. s[i].name <= m \/ s[i].name = m + 1 \/ s[i].name > m + 1
    BY <2>1
  <2>. QED BY <2>4, <2>5, <2>6, <2>7, Zenon
<1>10. T = 0..Len(s)
  <2>. HIDE DEF T
  <2>. QED BY <1>1, <1>8, <1>9, UptoInduction
<1>11. k[Len(s)] = f[Len(s)] \o g[Len(s)]
  <2>1. Len(s) \in T
    <3>. HIDE DEF T
    <3>. QED BY <1>1, <1>10
  <2>. QED BY <2>1
<1>12. Only(s, P) = Only(s, Q) \o OfName(m + 1, s)
  BY <1>4, <1>5, <1>6, <1>7, <1>11, Zenon
<1>. QED BY <1>12 DEF P, Q

(* What is sorted by name is its names' records one after the other.       *)
LEMMA LinesOfNames ==
  ASSUME NEW s \in Seq(Record), ByName(s)
  PROVE  FlattenSeq([n \in Name |-> OfName(n, s)]) = s
<1>. DEFINE part == [n \in Name |-> OfName(n, s)]
            Q(m) == {r \in Record : r.name <= m}
<1>1. Names \in Nat /\ Name = 1..Names
  BY SizesAssumption DEF Name
<1>2. Len(s) \in Nat /\ \A i \in 1..Len(s) : s[i] \in Record
  OBVIOUS
<1>3. \A i \in 1..Len(s) : s[i].name \in 1..Names
  BY <1>1, <1>2 DEF Record
<1>4. part \in [1..Names -> Seq(Record)]
  <2>1. \A n \in Name : OfName(n, s) \in Seq(Record)
    BY OnlyKeeps DEF OfName
  <2>. QED BY <1>1, <2>1
<1>5. \A i \in 1..Names : part[i] = OfName(i, s)
  BY <1>1
<1>. HIDE DEF part
<1>6. PICK g \in [0..Names -> Seq(Record)] :
        /\ g[0] = <<>>
        /\ \A i \in 1..Names : g[i] = g[i-1] \o part[i]
        /\ FlattenSeq(part) = g[Names]
  BY <1>1, <1>4, FlattenJoins, ZenonT(90)
<1>. DEFINE T == {i \in 0..Names : g[i] = Only(s, Q(i))}
<1>7. T \in SUBSET (0..Names) /\ 0 \in T
  <2>1. \A i \in 1..Len(s) : s[i] \notin Q(0)
    BY <1>1, <1>3
  <2>2. Only(s, Q(0)) = <<>>
    <3>. HIDE DEF Q
    <3>. QED BY <2>1, OnlyNone
  <2>3. 0 \in 0..Names
    BY <1>1
  <2>. HIDE DEF Q
  <2>. QED BY <1>6, <2>2, <2>3
<1>8. ASSUME NEW i \in 1..Names, i - 1 \in T PROVE i \in T
  <2>1. i \in 0..Names /\ i - 1 \in Nat /\ (i - 1) + 1 = i
    BY <1>1
  <2>2. Only(s, Q((i - 1) + 1)) = Only(s, Q(i - 1)) \o OfName((i - 1) + 1, s)
    BY <2>1, NextNameFollows
  <2>. HIDE DEF Q
  <2>3. Only(s, Q(i)) = Only(s, Q(i - 1)) \o OfName(i, s)
    BY <2>1, <2>2
  <2>4. g[i-1] = Only(s, Q(i - 1))
    BY <1>8
  <2>5. g[i] = Only(s, Q(i))
    <3>1. g[i] = g[i-1] \o part[i] /\ part[i] = OfName(i, s)
      BY <1>5, <1>6, Zenon
    <3>. QED BY <2>3, <2>4, <3>1, Zenon
  <2>. QED BY <2>1, <2>5
<1>9. T = 0..Names
  <2>. HIDE DEF T
  <2>. QED BY <1>1, <1>7, <1>8, UptoInduction
<1>10. g[Names] = Only(s, Q(Names))
  <2>1. Names \in T
    <3>. HIDE DEF T
    <3>. QED BY <1>1, <1>9
  <2>. HIDE DEF Q
  <2>. QED BY <2>1
<1>11. Only(s, Q(Names)) = s
  <2>1. \A i \in 1..Len(s) : s[i] \in Q(Names)
    BY <1>1, <1>2, <1>3
  <2>. HIDE DEF Q
  <2>. QED BY <2>1, OnlyAll
<1>12. FlattenSeq(part) = s
  BY <1>6, <1>10, <1>11, Zenon
<1>. QED BY <1>12 DEF part

(* The names' records one after the other are sorted by name, and sorting  *)
(* them into the names gives each its records.                             *)
LEMMA OfLines ==
  ASSUME NEW R \in [Name -> Seq(Record)],
         \A n \in Name : \A i \in 1..Len(R[n]) : R[n][i].name = n,
         NEW L, L = FlattenSeq([n \in Name |-> R[n]])
  PROVE  /\ L \in Seq(Record) /\ ByName(L)
         /\ \A n \in Name : OfName(n, L) = R[n]
         /\ \A j \in 1..Len(L) : \E n \in Name : \E i \in 1..Len(R[n]) : L[j] = R[n][i]
<1>. DEFINE Of(n) == {r \in Record : r.name = n}
            From(x) == \E n \in Name : \E i \in 1..Len(R[n]) : x = R[n][i]
<1>1. Names \in Nat /\ Name = 1..Names /\ [n \in Name |-> R[n]] = R
  BY SizesAssumption DEF Name
<1>2. \A n \in Name : R[n] \in Seq(Record) /\ Len(R[n]) \in Nat
  OBVIOUS
<1>3. L = FlattenSeq(R) /\ R \in [1..Names -> Seq(Record)]
  BY <1>1, Zenon
<1>4. PICK g \in [0..Names -> Seq(Record)] :
        /\ g[0] = <<>>
        /\ \A i \in 1..Names : g[i] = g[i-1] \o R[i]
        /\ FlattenSeq(R) = g[Names]
  <2>1. Names \in Nat /\ R \in [1..Names -> Seq(Record)]
    BY <1>1, <1>3, Zenon
  <2>. QED BY <2>1, FlattenJoins, ZenonT(90)
<1>5. \A i \in 0..Names : g[i] \in Seq(Record) /\ Len(g[i]) \in Nat
  OBVIOUS
<1>. DEFINE Sorted(i) == /\ ByName(g[i])
                         /\ \A j \in 1..Len(g[i]) : From(g[i][j]) /\ g[i][j].name <= i
            Parts(i) == \A n \in Name : Only(g[i], Of(n)) = IF n <= i THEN R[n] ELSE <<>>
            T == {i \in 0..Names : Sorted(i) /\ Parts(i)}
<1>6. T \in SUBSET (0..Names) /\ 0 \in T
  <2>1. 0 \in 0..Names /\ g[0] = <<>> /\ \A j \in 1..Len(<<>>) : FALSE
    BY <1>1, <1>4
  <2>2. Sorted(0)
    <3>. HIDE DEF From
    <3>. QED BY <2>1 DEF ByName
  <2>3. ASSUME NEW n \in Name
        PROVE  Only(g[0], Of(n)) = IF n <= 0 THEN R[n] ELSE <<>>
    <3>1. ~ (n <= 0)
      BY <1>1
    <3>2. Only(g[0], Of(n)) = <<>>
      <4>1. g[0] \in Seq(Record) /\ \A j \in 1..Len(g[0]) : g[0][j] \notin Of(n)
        BY <1>5, <2>1
      <4>. HIDE DEF Of
      <4>. QED BY <4>1, OnlyNone
    <3>. QED BY <3>1, <3>2, Zenon
  <2>4. Parts(0)
    <3>. HIDE DEF Of
    <3>. QED BY <2>3
  <2>. HIDE DEF Sorted, Parts
  <2>. QED BY <2>1, <2>2, <2>4
<1>7. ASSUME NEW i \in 1..Names, i - 1 \in T PROVE i \in T
  <2>1. i \in 0..Names /\ i - 1 \in 0..Names /\ i \in Name /\ i \in Nat
    BY <1>1
  <2>2. Sorted(i - 1) /\ Parts(i - 1)
    <3>. HIDE DEF Sorted, Parts
    <3>. QED BY <1>7
  <2>. DEFINE a == g[i-1]
              b == R[i]
  <2>3. a \in Seq(Record) /\ b \in Seq(Record) /\ g[i] = a \o b
    BY <1>2, <1>4, <1>5, <2>1, Zenon
  <2>4. \A j \in 1..Len(b) : b[j].name = i /\ From(b[j])
    BY <2>1
  <2>5. /\ ByName(a)
        /\ \A j \in 1..Len(a) : From(a[j]) /\ a[j].name <= i - 1
    <3>. HIDE DEF From
    <3>. QED BY <2>2
  <2>6. \A n \in Name : Only(a, Of(n)) = IF n <= i - 1 THEN R[n] ELSE <<>>
    <3>. HIDE DEF Of
    <3>. QED BY <2>2
  <2>7. \A j \in 1..Len(b) : b[j] \in Record
    BY <2>3
  <2>8. \A j \in 1..Len(a) : a[j] \in Record /\ a[j].name \in Int
    <3>1. \A j \in 1..Len(a) : a[j] \in Record
      BY <2>3
    <3>. QED BY <1>1, <3>1, SMTT(60) DEF Record
  <2>. HIDE DEF a, b, From
  <2>9. Sorted(i)
    <3>1. \A j \in 1..Len(g[i]) :
            \/ j \in 1..Len(a) /\ g[i][j] = a[j]
            \/ /\ j > Len(a) /\ j - Len(a) \in 1..Len(b)
               /\ g[i][j] = b[j - Len(a)]
      BY <2>3
    <3>2. \A j \in 1..Len(g[i]) : From(g[i][j]) /\ g[i][j].name <= i
      <4>1. ASSUME NEW j \in 1..Len(g[i]) PROVE From(g[i][j]) /\ g[i][j].name <= i
        <5>1. CASE j \in 1..Len(a) /\ g[i][j] = a[j]
          <6>1. From(a[j]) /\ a[j].name <= i - 1 /\ a[j].name \in Int
            BY <2>5, <2>8, <5>1, Zenon
          <6>. QED BY <2>1, <5>1, <6>1
        <5>2. CASE j - Len(a) \in 1..Len(b) /\ g[i][j] = b[j - Len(a)]
          <6>1. From(g[i][j]) /\ g[i][j].name = i
            BY <2>4, <5>2, Zenon
          <6>. QED BY <2>1, <6>1
        <5>. QED BY <3>1, <5>1, <5>2, Zenon
      <4>. QED BY <4>1
    <3>3. ASSUME NEW j \in 1..Len(g[i]), NEW k \in 1..Len(g[i]), j <= k
          PROVE  g[i][j].name <= g[i][k].name
      <4>1. CASE k \in 1..Len(a) /\ g[i][k] = a[k]
        <5>1. j \in 1..Len(a) /\ g[i][j] = a[j]
          <6>1. j \in 1..Len(a) /\ ~ (j > Len(a))
            BY <2>3, <3>3, <4>1
          <6>. QED BY <3>1, <6>1, Zenon
        <5>2. a[j].name <= a[k].name
          BY <2>5, <3>3, <4>1, <5>1, Zenon DEF ByName
        <5>. QED BY <4>1, <5>1, <5>2, Zenon
      <4>2. CASE k - Len(a) \in 1..Len(b) /\ g[i][k] = b[k - Len(a)]
        <5>1. g[i][k].name = i
          BY <2>4, <4>2, Zenon
        <5>2. g[i][j].name <= i
          BY <3>2, Zenon
        <5>. QED BY <5>1, <5>2, Zenon
      <4>. QED BY <3>1, <4>1, <4>2, Zenon
    <3>4. ByName(g[i])
      BY <3>3 DEF ByName
    <3>. QED BY <3>2, <3>4, Zenon
  <2>10. Parts(i)
    <3>. SUFFICES ASSUME NEW n \in Name
                  PROVE  Only(g[i], Of(n)) = IF n <= i THEN R[n] ELSE <<>>
      OBVIOUS
    <3>1. n \in Nat
      BY <1>1
    <3>2. Only(g[i], Of(n)) = Only(a, Of(n)) \o Only(b, Of(n))
      <4>. HIDE DEF Of
      <4>1. Only(a \o b, Of(n)) = Only(a, Of(n)) \o Only(b, Of(n))
        BY <2>3, OnlyJoins
      <4>. QED BY <2>3, <4>1, Zenon
    <3>3. CASE n = i
      <4>1. ~ (n <= i - 1) /\ n <= i
        BY <2>1, <3>3
      <4>2. Only(a, Of(n)) = <<>>
        <5>. HIDE DEF Of
        <5>. QED BY <2>6, <4>1, Zenon
      <4>3. Only(b, Of(n)) = b
        <5>1. \A j \in 1..Len(b) : b[j] \in Of(n)
          BY <2>4, <2>7, <3>3
        <5>. HIDE DEF Of
        <5>. QED BY <2>3, <5>1, OnlyAll
      <4>4. <<>> \o b = b /\ b = R[n]
        <5>1. <<>> \o b = b
          BY <2>3, ConcatEmptySeq, Zenon
        <5>. QED BY <3>3, <5>1 DEF b
      <4>. HIDE DEF Of
      <4>. QED BY <3>2, <4>1, <4>2, <4>3, <4>4, Zenon
    <3>4. CASE n # i
      <4>1. n <= i <=> n <= i - 1
        BY <2>1, <3>1, <3>4
      <4>2. Only(b, Of(n)) = <<>>
        <5>1. \A j \in 1..Len(b) : b[j] \notin Of(n)
          BY <2>4, <3>4
        <5>. HIDE DEF Of
        <5>. QED BY <2>3, <5>1, OnlyNone
      <4>3. Only(a, Of(n)) \in Seq(Record)
        <5>. HIDE DEF Of
        <5>. QED BY <2>3, OnlyKeeps
      <4>. HIDE DEF Of
      <4>4. Only(a, Of(n)) \o <<>> = Only(a, Of(n))
        BY <4>3, ConcatEmptySeq, Zenon
      <4>5. Only(g[i], Of(n)) = Only(a, Of(n))
        BY <3>2, <4>2, <4>4, Zenon
      <4>6. Only(a, Of(n)) = IF n <= i - 1 THEN R[n] ELSE <<>>
        BY <2>6, Zenon
      <4>. QED BY <4>1, <4>5, <4>6
    <3>. QED BY <3>3, <3>4
  <2>. HIDE DEF Sorted, Parts
  <2>. QED BY <2>1, <2>9, <2>10
<1>8. T = 0..Names
  <2>. HIDE DEF T
  <2>. QED BY <1>1, <1>6, <1>7, UptoInduction
<1>9. Sorted(Names) /\ Parts(Names)
  <2>1. Names \in T
    <3>. HIDE DEF T
    <3>. QED BY <1>1, <1>8
  <2>. HIDE DEF Sorted, Parts
  <2>. QED BY <2>1
<1>10. g[Names] = L /\ L \in Seq(Record)
  <2>1. Names \in 0..Names
    BY <1>1
  <2>. QED BY <1>3, <1>4, <1>5, <2>1, Zenon
<1>11. ByName(L) /\ \A j \in 1..Len(L) : From(L[j])
  <2>. HIDE DEF From, Parts
  <2>. QED BY <1>9, <1>10, Zenon
<1>12. ASSUME NEW n \in Name PROVE OfName(n, L) = R[n]
  <2>1. n <= Names
    BY <1>1
  <2>2. Only(L, Of(n)) = R[n]
    <3>. HIDE DEF Of, Sorted
    <3>. QED BY <1>9, <1>10, <2>1, Zenon
  <2>. DEFINE B == {r \in Range(L) : r.name = n}
  <2>3. \A j \in 1..Len(L) : L[j] \in B <=> L[j] \in Of(n)
    <3>0. L \in Seq(Record)
      BY <1>10
    <3>1. \A j \in 1..Len(L) : L[j] \in Record
      BY <3>0
    <3>2. DOMAIN L = 1..Len(L)
      BY <3>0
    <3>3. \A j \in 1..Len(L) : L[j] \in Range(L)
      BY <3>2, Zenon DEF Range
    <3>. QED BY <3>1, <3>3
  <2>4. Only(L, B) = Only(L, Of(n))
    <3>. HIDE DEF Of, B
    <3>. QED BY <1>10, <2>3, OnlySame
  <2>. QED BY <2>2, <2>4, Zenon DEF OfName
<1>. QED BY <1>10, <1>11, <1>12

(* A prefix of what is sorted is sorted and holds no more of a name.       *)
LEMMA PrefixHolds ==
  ASSUME NEW s \in Seq(Record), ByName(s), NEW p \in Prefixes(s)
  PROVE  /\ p \in Seq(Record) /\ ByName(p) /\ IsPrefix(p, s)
         /\ \A n \in Name : Len(OfName(n, p)) <= Len(OfName(n, s))
         /\ \A j \in 1..Len(p) : j \in 1..Len(s) /\ p[j] = s[j]
<1>1. PICK l \in 0..Len(s) : p = SubSeq(s, 1, l)
  BY Zenon DEF Prefixes
<1>. DEFINE q == SubSeq(s, l + 1, Len(s))
<1>2. Len(s) \in Nat /\ l \in Nat /\ l <= Len(s) /\ \A i \in 1..Len(s) : s[i] \in Record
  OBVIOUS
<1>3. p \in Seq(Record) /\ Len(p) = l /\ \A j \in 1..l : p[j] = s[j]
  <2>1. \A i \in 1..l : i \in 1..Len(s)
    BY <1>2
  <2>2. \A i \in 1..l : s[i] \in Record
    BY <1>2, <2>1
  <2>3. /\ SubSeq(s, 1, l) \in Seq(Record)
        /\ Len(SubSeq(s, 1, l)) = IF 1 <= l THEN l - 1 + 1 ELSE 0
        /\ \A j \in 1..(l - 1 + 1) : SubSeq(s, 1, l)[j] = s[1 + j - 1]
    BY <1>2, <2>2, SubSeqProperties
  <2>4. l - 1 + 1 = l /\ \A j \in 1..l : 1 + j - 1 = j
    BY <1>2
  <2>5. (IF 1 <= l THEN l ELSE 0) = l
    BY <1>2
  <2>. QED BY <1>1, <2>3, <2>4, <2>5
<1>4. q \in Seq(Record)
  <2>1. \A i \in (l+1)..Len(s) : i \in 1..Len(s)
    BY <1>2
  <2>2. \A i \in (l+1)..Len(s) : s[i] \in Record
    BY <1>2, <2>1
  <2>. QED BY <1>2, <2>2, SubSeqProperties
<1>5. p \o q = s
  <2>1. /\ 1 \in 1..(Len(s) + 1) /\ l \in (1 - 1)..Len(s) /\ Len(s) \in l..Len(s)
    BY <1>2
  <2>2. SubSeq(s, 1, l) \o SubSeq(s, l+1, Len(s)) = SubSeq(s, 1, Len(s))
    BY <2>1, ConcatAdjacentSubSeq
  <2>3. SubSeq(s, 1, Len(s)) = s
    BY SubSeqFull
  <2>. QED BY <1>1, <2>2, <2>3, Zenon
<1>6. \A j \in 1..Len(p) : j \in 1..Len(s) /\ p[j] = s[j]
  BY <1>2, <1>3
<1>7. ByName(p)
  BY <1>6, Zenon DEF ByName
<1>8. IsPrefix(p, s)
  <2>1. SubSeq(p, 1, Len(p)) = p
    BY <1>3, SubSeqFull
  <2>2. Len(p) <= Len(s)
    BY <1>2, <1>3
  <2>. QED BY <1>1, <1>3, <2>1, <2>2, Zenon DEF IsPrefix
<1>. HIDE DEF q
<1>9. ASSUME NEW n \in Name PROVE Len(OfName(n, p)) <= Len(OfName(n, s))
  <2>. DEFINE S == {r \in Range(s) : r.name = n}
              A == {r \in Range(p) : r.name = n}
  <2>1. /\ DOMAIN p = 1..Len(p) /\ DOMAIN s = 1..Len(s)
    BY <1>3
  <2>2. \A i \in 1..Len(p) : p[i] \in Range(p) /\ p[i] \in Range(s)
    BY <1>6, <2>1, Zenon DEF Range
  <2>3. \A i \in 1..Len(p) : p[i] \in S <=> p[i] \in A
    BY <2>2
  <2>. HIDE DEF S, A
  <2>4. Only(p \o q, S) = Only(p, A) \o Only(q, S)
    <3>1. \A i \in 1..Len(q) : q[i] \in S <=> q[i] \in S
      OBVIOUS
    <3>. QED BY <1>3, <1>4, <2>3, <3>1, OnlyJoins
  <2>5. Only(p, A) \in Seq(Record) /\ Only(q, S) \in Seq(Record)
    BY <1>3, <1>4, OnlyKeeps
  <2>6. Len(Only(p, A)) <= Len(Only(p, A) \o Only(q, S))
    <3>1. \A x, y \in Seq(Record) : Len(x) <= Len(x \o y)
      OBVIOUS
    <3>. QED BY <2>5, <3>1, Zenon
  <2>7. OfName(n, p) = Only(p, A) /\ OfName(n, s) = Only(s, S)
    BY Zenon DEF OfName, A, S
  <2>. QED BY <1>5, <2>4, <2>6, <2>7, Zenon
<1>. QED BY <1>3, <1>6, <1>7, <1>8, <1>9

(* What is loaded of a name, and what is left without a time.              *)
LEMMA OfNameHolds ==
  ASSUME NEW s \in Seq(Record), NEW n
  PROVE  /\ OfName(n, s) \in Seq(Record)
         /\ \A j \in 1..Len(OfName(n, s)) :
              /\ OfName(n, s)[j].name = n
              /\ \E i \in 1..Len(s) : OfName(n, s)[j] = s[i]
<1>. DEFINE S == {r \in Range(s) : r.name = n}
<1>1. \A r \in S : r.name = n
  OBVIOUS
<1>. HIDE DEF S
<1>2. OfName(n, s) = Only(s, S)
  BY Zenon DEF OfName, S
<1>3. /\ Only(s, S) \in Seq(Record)
      /\ \A j \in 1..Len(Only(s, S)) :
           /\ Only(s, S)[j] \in S
           /\ \E i \in 1..Len(s) : Only(s, S)[j] = s[i]
  BY OnlyKeeps
<1>. QED BY <1>1, <1>2, <1>3, Zenon

LEMMA WithoutHolds ==
  ASSUME NEW s \in Seq(Record), NEW some
  PROVE  /\ Without(some, s) \in Seq(Record) /\ Len(Without(some, s)) <= Len(s)
         /\ \A j \in 1..Len(Without(some, s)) : \E i \in 1..Len(s) : Without(some, s)[j] = s[i]
<1>. DEFINE S == Range(s) \ some
<1>1. Without(some, s) = Only(s, S)
  BY Zenon DEF Without
<1>. HIDE DEF S
<1>2. /\ Only(s, S) \in Seq(Record) /\ Len(Only(s, S)) <= Len(s)
      /\ \A j \in 1..Len(Only(s, S)) : \E i \in 1..Len(s) : Only(s, S)[j] = s[i]
  BY OnlyKeeps
<1>. QED BY <1>1, <1>2, Zenon

(* Some record has the earliest time.                                      *)
LEMMA EarliestIsATime ==
  ASSUME NEW s \in Seq(Record), s # <<>>
  PROVE  Earliest(s) \in Time
<1>. DEFINE Ts == {s[i].time : i \in 1..Len(s)}
<1>1. Len(s) \in Nat /\ Len(s) # 0 /\ \A i \in 1..Len(s) : s[i] \in Record
  BY EmptySeq
<1>2. \A i \in 1..Len(s) : s[i].time \in Time
  BY <1>1 DEF Record
<1>3. Ts \in SUBSET Nat /\ Ts # {} /\ Ts \subseteq Time
  <2>1. 1 \in 1..Len(s)
    BY <1>1
  <2>. QED BY <1>2, <2>1, TimeAssumption
<1>4. \E t \in Ts : \A k \in Ts : t <= k
  <2>. HIDE DEF Ts
  <2>. QED BY <1>3, LeastNat
<1>5. \E t \in Ts : \A i \in 1..Len(s) : t <= s[i].time
  BY <1>4
<1>6. Earliest(s) = CHOOSE t \in Ts : \A i \in 1..Len(s) : t <= s[i].time
  BY DEF Earliest
<1>. HIDE DEF Ts
<1>7. Earliest(s) \in Ts
  BY <1>5, <1>6, Zenon
<1>. QED BY <1>3, <1>7

---------------------------------------------------------------------------
Named(R) ==
  /\ R \in [Name -> Seq(Record)]
  /\ \A n \in Name : \A i \in 1..Len(R[n]) : R[n][i].name = n

Stat == [count : Int, earliest : Time]

TypeInv ==
  /\ Named(records)
  /\ stats \in [Name -> SUBSET Stat]
  /\ file \in Seq(Record) /\ ByName(file)
  /\ saved \in Seq(Record)
  /\ pc \in {"down", "idle", "trimming", "saving", "stuck"}
  /\ resetFlag \in BOOLEAN /\ locked \in BOOLEAN
  /\ fresh \in BOOLEAN /\ torn \in BOOLEAN
  /\ sets \in Nat /\ loads \in Nat /\ erased \in Nat

LEMMA LinesAreSorted ==
  ASSUME Named(records)
  PROVE  /\ Lines \in Seq(Record) /\ ByName(Lines)
         /\ \A n \in Name : OfName(n, Lines) = records[n]
         /\ \A j \in 1..Len(Lines) :
              \E n \in Name : \E i \in 1..Len(records[n]) : Lines[j] = records[n][i]
<1>1. records \in [Name -> Seq(Record)]
  BY DEF Named
<1>2. \A n \in Name : \A i \in 1..Len(records[n]) : records[n][i].name = n
  BY DEF Named
<1>3. Lines = FlattenSeq([n \in Name |-> records[n]])
  BY DEF Lines
<1>4. \A L : L = FlattenSeq([n \in Name |-> records[n]]) =>
        /\ L \in Seq(Record) /\ ByName(L)
        /\ \A n \in Name : OfName(n, L) = records[n]
        /\ \A j \in 1..Len(L) : \E n \in Name : \E i \in 1..Len(records[n]) : L[j] = records[n][i]
  BY <1>1, <1>2, OfLines
<1>. QED BY <1>3, <1>4, ZenonT(90)

LEMMA TypeInit == Init => TypeInv
<1>. SUFFICES ASSUME Init PROVE TypeInv
  OBVIOUS
<1>1. <<>> \in Seq(Record) /\ Len(<<>>) = 0 /\ \A i \in 1..Len(<<>>) : FALSE
  OBVIOUS
<1>2. Named(records)
  <2>1. \A n \in Name : records[n] = <<>>
    BY DEF Init
  <2>2. records \in [Name -> Seq(Record)]
    BY <1>1 DEF Init
  <2>. QED BY <1>1, <2>1, <2>2, Zenon DEF Named
<1>3. stats \in [Name -> SUBSET Stat]
  BY DEF Init
<1>4. file \in Seq(Record) /\ ByName(file) /\ saved \in Seq(Record)
  BY <1>1 DEF Init, ByName
<1>. QED BY <1>2, <1>3, <1>4 DEF TypeInv, Init

(* One record's name added, or its records replaced by fewer.              *)
LEMMA NamedExcept ==
  ASSUME NEW R, Named(R), NEW n \in Name, NEW s \in Seq(Record),
         \A i \in 1..Len(s) : s[i].name = n
  PROVE  Named([R EXCEPT ![n] = s])
<1>. DEFINE Q == [R EXCEPT ![n] = s]
<1>1. R \in [Name -> Seq(Record)] /\ \A m \in Name : \A i \in 1..Len(R[m]) : R[m][i].name = m
  BY DEF Named
<1>2. Q \in [Name -> Seq(Record)]
  BY <1>1
<1>3. \A m \in Name : Q[m] = IF m = n THEN s ELSE R[m]
  BY <1>1
<1>. HIDE DEF Q
<1>4. ASSUME NEW m \in Name, NEW i \in 1..Len(Q[m]) PROVE Q[m][i].name = m
  <2>1. CASE m = n
    <3>1. Q[m] = s
      BY <1>3, <2>1, Zenon
    <3>. QED BY <2>1, <3>1, Zenon
  <2>2. CASE m # n
    <3>1. Q[m] = R[m]
      BY <1>3, <2>2, Zenon
    <3>. QED BY <1>1, <3>1, Zenon
  <2>. QED BY <2>1, <2>2
<1>5. Named(Q)
  BY <1>2, <1>4 DEF Named
<1>. QED BY <1>5 DEF Q

(* What a turn of the loop leaves of a name.                               *)
LEMMA TrimTypes ==
  ASSUME TypeInv, NEW n \in Name, Trim(n)
  PROVE  \E s \in stats[n], rest \in Seq(Record) :
           /\ s \in Stat /\ s.count > MaxRecords
           /\ Len(rest) <= Len(records[n])
           /\ \A j \in 1..Len(rest) : \E i \in 1..Len(records[n]) : rest[j] = records[n][i]
           /\ records' = [records EXCEPT ![n] = rest]
           /\ stats' = [stats EXCEPT ![n] =
                {[count |-> s.count - (Len(records[n]) - Len(rest)),
                  earliest |-> IF rest = <<>> THEN s.earliest
                               ELSE Earliest(rest)]}]
<1>1. records \in [Name -> Seq(Record)] /\ stats \in [Name -> SUBSET Stat]
  BY DEF TypeInv, Named
<1>2. records[n] \in Seq(Record) /\ stats[n] \in SUBSET Stat
  BY <1>1
<1>3. PICK s \in stats[n] : \E going \in SUBSET At(s.earliest, records[n]) :
        LET rest == Without(going, records[n])
        IN  /\ s.count > MaxRecords
            /\ records' = [records EXCEPT ![n] = rest]
            /\ stats' = [stats EXCEPT ![n] =
                 {[count |-> s.count - (Len(records[n]) - Len(rest)),
                   earliest |-> IF rest = <<>> THEN s.earliest
                                ELSE Earliest(rest)]}]
  BY Zenon DEF Trim
<1>4. PICK going \in SUBSET At(s.earliest, records[n]) :
        LET rest == Without(going, records[n])
        IN  /\ s.count > MaxRecords
            /\ records' = [records EXCEPT ![n] = rest]
            /\ stats' = [stats EXCEPT ![n] =
                 {[count |-> s.count - (Len(records[n]) - Len(rest)),
                   earliest |-> IF rest = <<>> THEN s.earliest
                                ELSE Earliest(rest)]}]
  BY <1>3, Zenon
<1>. DEFINE rest == Without(going, records[n])
<1>5. /\ s \in Stat
      /\ rest \in Seq(Record) /\ Len(rest) <= Len(records[n])
      /\ \A j \in 1..Len(rest) : \E i \in 1..Len(records[n]) : rest[j] = records[n][i]
  BY <1>2, WithoutHolds, SMTT(60)
<1>6. /\ s.count > MaxRecords
      /\ records' = [records EXCEPT ![n] = rest]
      /\ stats' = [stats EXCEPT ![n] =
           {[count |-> s.count - (Len(records[n]) - Len(rest)),
             earliest |-> IF rest = <<>> THEN s.earliest
                          ELSE Earliest(rest)]}]
  BY <1>4, Zenon
<1>. HIDE DEF rest
<1>. QED BY <1>5, <1>6, Zenon

LEMMA TypeNext == TypeInv /\ [Next]_vars => TypeInv'
<1>. SUFFICES ASSUME TypeInv, [Next]_vars PROVE TypeInv'
  OBVIOUS
<1>. USE DEF TypeInv
<1>0. <<>> \in Seq(Record) /\ ByName(<<>>) /\ Named([n \in Name |-> <<>>])
  <2>1. <<>> \in Seq(Record) /\ \A i \in 1..Len(<<>>) : FALSE
    OBVIOUS
  <2>2. \A n \in Name : [m \in Name |-> <<>>][n] = <<>>
    OBVIOUS
  <2>3. [n \in Name |-> <<>>] \in [Name -> Seq(Record)]
    BY <2>1
  <2>4. Named([n \in Name |-> <<>>])
    BY <2>1, <2>2, <2>3, Zenon DEF Named
  <2>. QED BY <2>1, <2>4 DEF ByName
<1>1. CASE Load
  <2>1. records' = [n \in Name |-> OfName(n, file)]
    BY <1>1 DEF Load
  <2>2. \A n \in Name : OfName(n, file) \in Seq(Record) /\ \A j \in 1..Len(OfName(n, file)) : OfName(n, file)[j].name = n
    BY OfNameHolds
  <2>3. records' \in [Name -> Seq(Record)] /\ \A n \in Name : records'[n] = OfName(n, file)
    <3>. DEFINE o(n) == OfName(n, file)
    <3>1. \A n \in Name : o(n) \in Seq(Record)
      BY <2>2
    <3>2. records' = [n \in Name |-> o(n)]
      BY <2>1
    <3>. HIDE DEF o
    <3>3. records' \in [Name -> Seq(Record)] /\ \A n \in Name : records'[n] = o(n)
      BY <3>1, <3>2
    <3>. QED BY <3>3 DEF o
  <2>4. Named(records)'
    BY <2>2, <2>3, Zenon DEF Named
  <2>5. stats' \in [Name -> SUBSET Stat]
    <3>1. stats' = [n \in Name |-> Counted(records'[n])]
      BY <1>1 DEF Load
    <3>2. ASSUME NEW r \in Seq(Record) PROVE Counted(r) \in SUBSET Stat
      <4>1. CASE r = <<>>
        BY <4>1 DEF Counted
      <4>2. CASE r # <<>>
        <5>1. Earliest(r) \in Time
          BY <4>2, EarliestIsATime
        <5>2. Len(r) \in Int
          OBVIOUS
        <5>3. Counted(r) = {[count |-> Len(r), earliest |-> Earliest(r)]}
          BY <4>2 DEF Counted
        <5>. QED BY <5>1, <5>2, <5>3 DEF Stat
      <4>. QED BY <4>1, <4>2
    <3>3. \A n \in Name : Counted(records'[n]) \in SUBSET Stat
      BY <2>3, <3>2
    <3>. DEFINE c(n) == Counted(records'[n])
    <3>4. (\A n \in Name : c(n) \in SUBSET Stat) /\ stats' = [n \in Name |-> c(n)]
      BY <3>1, <3>3
    <3>. HIDE DEF c
    <3>. QED BY <3>4
  <2>6. /\ pc' \in {"down", "idle", "trimming", "saving", "stuck"}
        /\ loads' \in Nat /\ sets' \in Nat /\ erased' \in Nat
    BY <1>1 DEF Load
  <2>7. /\ resetFlag' \in BOOLEAN /\ locked' \in BOOLEAN
        /\ fresh' \in BOOLEAN /\ torn' \in BOOLEAN
    BY <1>1, Zenon DEF Load
  <2>8. file' = file /\ saved' = saved
    BY <1>1 DEF Load
  <2>9. file' \in Seq(Record) /\ ByName(file') /\ saved' \in Seq(Record)
    BY <2>8, Zenon
  <2>. QED BY <2>4, <2>5, <2>6, <2>7, <2>9, Zenon
<1>2. ASSUME NEW n \in Name, Trim(n) PROVE TypeInv'
  <2>1. PICK s \in stats[n], rest \in Seq(Record) :
           /\ s \in Stat /\ s.count > MaxRecords
           /\ Len(rest) <= Len(records[n])
           /\ \A j \in 1..Len(rest) : \E i \in 1..Len(records[n]) : rest[j] = records[n][i]
           /\ records' = [records EXCEPT ![n] = rest]
           /\ stats' = [stats EXCEPT ![n] =
                {[count |-> s.count - (Len(records[n]) - Len(rest)),
                  earliest |-> IF rest = <<>> THEN s.earliest
                               ELSE Earliest(rest)]}]
    <3>1. TypeInv
      OBVIOUS
    <3>. HIDE DEF TypeInv
    <3>. QED BY <1>2, <3>1, TrimTypes, Zenon
  <2>. DEFINE st == [count |-> s.count - (Len(records[n]) - Len(rest)),
                     earliest |-> IF rest = <<>> THEN s.earliest ELSE Earliest(rest)]
  <2>2. /\ s \in Stat /\ rest \in Seq(Record)
        /\ \A j \in 1..Len(rest) : \E i \in 1..Len(records[n]) : rest[j] = records[n][i]
        /\ records' = [records EXCEPT ![n] = rest]
        /\ stats' = [stats EXCEPT ![n] = {st}]
    BY <2>1, Zenon
  <2>3. \A j \in 1..Len(rest) : rest[j].name = n
    <3>1. \A i \in 1..Len(records[n]) : records[n][i].name = n
      BY Zenon DEF Named
    <3>2. \A j \in 1..Len(rest) : \E i \in 1..Len(records[n]) : rest[j] = records[n][i]
      BY <2>2, Zenon
    <3>. HIDE DEF TypeInv
    <3>. QED BY <3>1, <3>2, Zenon
  <2>4. Named(records')
    <3>1. Named([records EXCEPT ![n] = rest])
      BY <2>2, <2>3, NamedExcept
    <3>. QED BY <2>2, <3>1, Zenon
  <2>5. st \in Stat
    <3>1. s.count - (Len(records[n]) - Len(rest)) \in Int
      <4>1. records[n] \in Seq(Record)
        BY DEF Named
      <4>2. Len(records[n]) \in Int /\ Len(rest) \in Int /\ s.count \in Int
        BY <2>2, <4>1 DEF Stat
      <4>. QED BY <4>2
    <3>2. (IF rest = <<>> THEN s.earliest ELSE Earliest(rest)) \in Time
      <4>1. s.earliest \in Time
        BY <2>2 DEF Stat
      <4>. QED BY <2>2, <4>1, EarliestIsATime
    <3>. QED BY <3>1, <3>2 DEF Stat
  <2>. HIDE DEF st
  <2>6. stats' \in [Name -> SUBSET Stat]
    BY <2>2, <2>5
  <2>7. UNCHANGED <<file, saved, pc, sets, loads, erased, resetFlag, locked, fresh, torn>>
    BY <1>2 DEF Trim, history
  <2>8. /\ file' \in Seq(Record) /\ ByName(file') /\ saved' \in Seq(Record)
        /\ pc' \in {"down", "idle", "trimming", "saving", "stuck"}
        /\ sets' \in Nat /\ loads' \in Nat /\ erased' \in Nat
        /\ resetFlag' \in BOOLEAN /\ locked' \in BOOLEAN
        /\ fresh' \in BOOLEAN /\ torn' \in BOOLEAN
    BY <2>7, Zenon
  <2>. QED BY <2>4, <2>6, <2>8, Zenon
<1>3. ASSUME NEW n \in Name, NEW t \in Time, Set(n, t) PROVE TypeInv'
  <2>. DEFINE r == [name |-> n, time |-> t, nth |-> sets']
              st == IF stats[n] = {} THEN {[count |-> 1, earliest |-> t]}
                    ELSE {[count |-> s.count + 1,
                           earliest |-> IF s.earliest > t THEN t ELSE s.earliest] : s \in stats[n]}
  <2>1. sets' \in Nat /\ r \in Record /\ r.name = n
    BY <1>3 DEF Set, Record
  <2>2. records' = [records EXCEPT ![n] = Append(records[n], r)]
    BY <1>3 DEF Set
  <2>3. stats' = [stats EXCEPT ![n] = st]
    BY <1>3 DEF Set
  <2>. HIDE DEF r
  <2>4. records[n] \in Seq(Record) /\ \A i \in 1..Len(records[n]) : records[n][i].name = n
    BY DEF Named
  <2>. DEFINE a == Append(records[n], r)
  <2>5. a \in Seq(Record) /\ \A i \in 1..Len(a) : a[i].name = n
    <3>1. /\ a \in Seq(Record) /\ Len(a) = Len(records[n]) + 1
          /\ \A i \in 1..Len(records[n]) : a[i] = records[n][i]
          /\ a[Len(records[n]) + 1] = r
      BY <2>1, <2>4, AppendProperties
    <3>2. \A i \in 1..Len(a) : i \in 1..Len(records[n]) \/ i = Len(records[n]) + 1
      BY <2>4, <3>1
    <3>. HIDE DEF a
    <3>. QED BY <2>1, <2>4, <3>1, <3>2, Zenon
  <2>. HIDE DEF a
  <2>6. Named(records')
    <3>1. Named([records EXCEPT ![n] = a])
      BY <2>5, NamedExcept
    <3>. QED BY <2>2, <3>1, Zenon DEF a
  <2>7. st \in SUBSET Stat
    <3>1. CASE stats[n] = {}
      BY <3>1 DEF Stat
    <3>2. CASE stats[n] # {}
      <4>1. \A s \in stats[n] : s \in Stat
        OBVIOUS
      <4>2. \A s \in stats[n] : [count |-> s.count + 1,
                 earliest |-> IF s.earliest > t THEN t ELSE s.earliest] \in Stat
        BY <4>1 DEF Stat
      <4>. QED BY <3>2, <4>2
    <3>. QED BY <3>1, <3>2
  <2>. HIDE DEF st
  <2>8. stats' \in [Name -> SUBSET Stat]
    BY <2>3, <2>7
  <2>9. /\ pc' \in {"down", "idle", "trimming", "saving", "stuck"}
        /\ loads' \in Nat /\ sets' \in Nat /\ erased' \in Nat
    BY <1>3, <2>1 DEF Set
  <2>10. /\ resetFlag' \in BOOLEAN /\ locked' \in BOOLEAN
         /\ fresh' \in BOOLEAN /\ torn' \in BOOLEAN
    BY <1>3, Zenon DEF Set
  <2>11. file' = file /\ saved' = saved
    BY <1>3 DEF Set
  <2>12. file' \in Seq(Record) /\ ByName(file') /\ saved' \in Seq(Record)
    BY <2>11, Zenon
  <2>. QED BY <2>6, <2>8, <2>9, <2>10, <2>12, Zenon
<1>4. CASE Trimmed
  <2>1. UNCHANGED <<records, stats, file, saved, sets, loads, erased, resetFlag, locked, fresh, torn>> /\ pc' = "idle"
    BY <1>4 DEF Trimmed, memory, history
  <2>. QED BY <2>1, Zenon
<1>5. CASE Save
  <2>1. UNCHANGED <<records, stats, sets, loads, erased, resetFlag, fresh>>
    BY <1>5 DEF Save, memory
  <2>2. \/ file' = file /\ saved' = saved /\ torn' = torn
        \/ file' = <<>> /\ saved' = Lines /\ torn' = TRUE
    BY <1>5 DEF Save
  <2>3. locked' = locked \/ locked' = TRUE
    BY <1>5 DEF Save
  <2>4. pc' = pc \/ pc' = "stuck" \/ pc' = "saving"
    BY <1>5 DEF Save
  <2>5. Lines \in Seq(Record)
    BY LinesAreSorted
  <2>6. /\ file' \in Seq(Record) /\ ByName(file') /\ saved' \in Seq(Record)
        /\ torn' \in BOOLEAN
    BY <1>0, <2>2, <2>5, Zenon
  <2>7. pc' \in {"down", "idle", "trimming", "saving", "stuck"}
    BY <2>4
  <2>8. locked' \in BOOLEAN
    BY <2>3, Zenon
  <2>. QED BY <2>1, <2>6, <2>7, <2>8, Zenon
<1>6. CASE SaveEnds
  <2>1. /\ UNCHANGED <<records, stats, sets, loads, erased, resetFlag, locked, fresh, saved>>
        /\ file' = Lines /\ torn' = FALSE /\ pc' = "idle"
    BY <1>6 DEF SaveEnds, memory
  <2>2. Lines \in Seq(Record) /\ ByName(Lines)
    BY LinesAreSorted
  <2>. QED BY <2>1, <2>2, Zenon
<1>7. CASE ReSet
  <2>1. /\ UNCHANGED <<records, stats, sets, loads>>
        /\ file' = <<>> /\ saved' = <<>> /\ torn' = FALSE /\ fresh' = FALSE
        /\ erased' = sets
    BY <1>7 DEF ReSet, memory
  <2>2. pc' = "stuck" \/ pc' = pc
    BY <1>7 DEF ReSet
  <2>3. (resetFlag' = resetFlag /\ locked' = locked) \/ (resetFlag' = TRUE /\ locked' \in BOOLEAN)
    BY <1>7, Zenon DEF ReSet
  <2>4. pc' \in {"down", "idle", "trimming", "saving", "stuck"}
    BY <2>2
  <2>5. resetFlag' \in BOOLEAN /\ locked' \in BOOLEAN
    BY <2>3, Zenon
  <2>. QED BY <1>0, <2>1, <2>4, <2>5, Zenon
<1>8. CASE Crash
  <2>1. /\ UNCHANGED <<sets, loads, fresh, saved, torn, erased>>
        /\ pc' = "down" /\ resetFlag' = FALSE /\ locked' = FALSE
        /\ records' = [n \in Name |-> <<>>] /\ stats' = [n \in Name |-> {}]
    BY <1>8 DEF Crash, history
  <2>2. file' \in Prefixes(Lines) \/ file' = file
    BY <1>8, Zenon DEF Crash
  <2>3. file' \in Seq(Record) /\ ByName(file')
    <3>1. Lines \in Seq(Record) /\ ByName(Lines)
      BY LinesAreSorted
    <3>2. \A p \in Prefixes(Lines) : p \in Seq(Record) /\ ByName(p)
      BY <3>1, PrefixHolds
    <3>. QED BY <2>2, <3>2, Zenon
  <2>4. Named(records')
    BY <1>0, <2>1, Zenon
  <2>5. stats' \in [Name -> SUBSET Stat]
    BY <2>1
  <2>. QED BY <2>1, <2>3, <2>4, <2>5, Zenon
<1>9. CASE UNCHANGED vars
  BY <1>9, Zenon DEF vars, memory, history
<1>. HIDE DEF TypeInv
<1>. QED BY <1>1, <1>2, <1>3, <1>4, <1>5, <1>6, <1>7, <1>8, <1>9, Zenon DEF Next

(* Every state is of the model's types; the file is sorted by name.        *)
THEOREM TypesHold == Spec => []TypeInv
<1>1. Init => TypeInv
  BY TypeInit
<1>2. TypeInv /\ [Next]_vars => TypeInv'
  BY TypeNext
<1>. QED BY <1>1, <1>2, PTL DEF Spec

---------------------------------------------------------------------------
(* What a name's count says, and that no more than MaxRecords are kept     *)
(* when set has returned, written, and read again.  So the loop that       *)
(* removes the surplus has nothing to do after a load.                     *)
Within == \A n \in Name : Len(records[n]) <= MaxRecords

CountInv ==
  /\ \A n \in Name : /\ stats[n] = {} => records[n] = <<>>
                     /\ \A s \in stats[n] : s.count = Len(records[n])
  /\ \A n \in Name : Len(OfName(n, file)) <= MaxRecords
  /\ pc \in {"idle", "saving"} => Within
  /\ pc = "trimming" /\ fresh => Within

(* The file is what was to be written or, when the writing was cut off, a  *)
(* part of it; so is what was read of it.                                  *)
Begun(s) == IsPrefix(s, saved) /\ (torn \/ s = saved)

SaveInv ==
  /\ Begun(file)
  /\ pc = "saving" => saved = Lines /\ torn
  /\ fresh /\ pc \in {"trimming", "idle"} => Begun(Lines)

(* No record from before a reset is in the file, or in the memory as long  *)
(* as that may be written.                                                 *)
ResetInv ==
  /\ ResetIsFinal
  /\ erased <= sets
  /\ pc = "saving" => ~resetFlag
  /\ pc \in {"idle", "trimming", "saving"} /\ ~resetFlag =>
       \A n \in Name : \A i \in 1..Len(records[n]) : records[n][i].nth > erased

LEMMA PrefixOfItself ==
  ASSUME NEW s \in Seq(Record)
  PROVE  IsPrefix(s, s) /\ IsPrefix(<<>>, s)
<1>1. Len(<<>>) = 0 /\ 0 <= Len(s) /\ Len(s) <= Len(s)
  OBVIOUS
<1>2. SubSeq(<<>>, 1, 0) = <<>> /\ SubSeq(s, 1, 0) = <<>>
  <2>1. 0 \in Int /\ 1 \in Int /\ 0 < 1
    OBVIOUS
  <2>. QED BY <2>1, SubSeqEmpty
<1>3. IsPrefix(s, s)
  BY <1>1, Zenon DEF IsPrefix
<1>4. IsPrefix(<<>>, s)
  BY <1>1, <1>2 DEF IsPrefix
<1>. QED BY <1>3, <1>4

---------------------------------------------------------------------------
LEMMA CountInit == Init => CountInv
<1>. SUFFICES ASSUME Init PROVE CountInv
  OBVIOUS
<1>1. MaxRecords \in Nat
  BY SizesAssumption
<1>2. \A n \in Name : Len(OfName(n, file)) <= MaxRecords
  <2>1. file \in Seq(Record) /\ \A i \in 1..Len(file) : FALSE
    BY DEF Init
  <2>2. \A n \in Name : OfName(n, file) = <<>>
    <3>1. \A S : Only(file, S) = <<>>
      BY <2>1, OnlyNone
    <3>. QED BY <3>1, Zenon DEF OfName
  <2>. QED BY <1>1, <2>2
<1>. QED BY <1>2 DEF Init, CountInv

LEMMA CountNext == TypeInv /\ CountInv /\ [Next]_vars => CountInv'
<1>. SUFFICES ASSUME TypeInv, CountInv, [Next]_vars PROVE CountInv'
  OBVIOUS
<1>. DEFINE Counts == \A n \in Name : /\ stats[n] = {} => records[n] = <<>>
                                      /\ \A s \in stats[n] : s.count = Len(records[n])
            InFile == \A n \in Name : Len(OfName(n, file)) <= MaxRecords
<1>0. /\ Counts /\ InFile
      /\ pc \in {"idle", "saving"} => Within
      /\ pc = "trimming" /\ fresh => Within
  BY DEF CountInv
<1>t. /\ MaxRecords \in Nat
      /\ records \in [Name -> Seq(Record)] /\ stats \in [Name -> SUBSET Stat]
      /\ file \in Seq(Record) /\ ByName(file) /\ Named(records)
  BY SizesAssumption DEF TypeInv, Named
<1>1. CASE Load
  <2>1. /\ records' = [n \in Name |-> OfName(n, file)] /\ file' = file
        /\ stats' = [n \in Name |-> Counted(records'[n])]
        /\ pc' = "trimming"
    BY <1>1 DEF Load
  <2>2. \A n \in Name : records'[n] = OfName(n, file) /\ stats'[n] = Counted(records'[n])
    BY <2>1, Zenon
  <2>3. Within'
    BY <1>0, <2>2, Zenon DEF Within
  <2>4. Counts'
    <3>1. \A r : /\ Counted(r) = {} => r = <<>>
                 /\ \A s \in Counted(r) : s.count = Len(r)
      <4>. SUFFICES ASSUME NEW r
                    PROVE  /\ Counted(r) = {} => r = <<>>
                           /\ \A s \in Counted(r) : s.count = Len(r)
        OBVIOUS
      <4>1. CASE r = <<>>
        <5>1. Counted(r) = {}
          BY <4>1, Zenon DEF Counted
        <5>. QED BY <4>1, <5>1
      <4>2. CASE r # <<>>
        <5>. DEFINE c == [count |-> Len(r), earliest |-> Earliest(r)]
        <5>1. Counted(r) = {c}
          BY <4>2, Zenon DEF Counted
        <5>2. c.count = Len(r)
          OBVIOUS
        <5>. HIDE DEF c
        <5>. QED BY <5>1, <5>2
      <4>. QED BY <4>1, <4>2
    <3>. QED BY <2>2, <3>1, Zenon
  <2>5. InFile'
    BY <1>0, <2>1, Zenon
  <2>. HIDE DEF Counts, InFile
  <2>6. ~ (pc' \in {"idle", "saving"})
    BY <2>1
  <2>. QED BY <2>3, <2>4, <2>5, <2>6, Zenon DEF CountInv, Counts, InFile
<1>2. ASSUME NEW n \in Name, Trim(n) PROVE CountInv'
  <2>1. PICK s \in stats[n], rest \in Seq(Record) :
           /\ s \in Stat /\ s.count > MaxRecords
           /\ Len(rest) <= Len(records[n])
           /\ \A j \in 1..Len(rest) : \E i \in 1..Len(records[n]) : rest[j] = records[n][i]
           /\ records' = [records EXCEPT ![n] = rest]
           /\ stats' = [stats EXCEPT ![n] =
                {[count |-> s.count - (Len(records[n]) - Len(rest)),
                  earliest |-> IF rest = <<>> THEN s.earliest
                               ELSE Earliest(rest)]}]
    BY <1>2, TrimTypes, Zenon
  <2>. DEFINE st == [count |-> s.count - (Len(records[n]) - Len(rest)),
                     earliest |-> IF rest = <<>> THEN s.earliest ELSE Earliest(rest)]
  <2>2. /\ s.count > MaxRecords /\ rest \in Seq(Record)
        /\ records' = [records EXCEPT ![n] = rest]
        /\ stats' = [stats EXCEPT ![n] = {st}]
    BY <2>1, Zenon
  <2>3. s.count = Len(records[n]) /\ Len(records[n]) \in Nat
    <3>1. s.count = Len(records[n])
      BY <1>0
    <3>2. records[n] \in Seq(Record)
      BY <1>t
    <3>. QED BY <3>1, <3>2
  <2>4. st.count = Len(rest)
    <3>1. Len(rest) \in Nat
      BY <2>2
    <3>2. st.count = s.count - (Len(records[n]) - Len(rest))
      OBVIOUS
    <3>. HIDE DEF st
    <3>. QED BY <2>3, <3>1, <3>2
  <2>. HIDE DEF st
  <2>5. \A m \in Name : /\ records'[m] = IF m = n THEN rest ELSE records[m]
                        /\ stats'[m] = IF m = n THEN {st} ELSE stats[m]
    BY <1>t, <2>2
  <2>6. Counts'
    <3>. SUFFICES ASSUME NEW m \in Name
                  PROVE  /\ stats'[m] = {} => records'[m] = <<>>
                         /\ \A x \in stats'[m] : x.count = Len(records'[m])
      OBVIOUS
    <3>1. CASE m = n
      <4>1. records'[m] = rest /\ stats'[m] = {st}
        BY <2>5, <3>1, Zenon
      <4>. QED BY <2>4, <4>1
    <3>2. CASE m # n
      <4>1. records'[m] = records[m] /\ stats'[m] = stats[m]
        BY <2>5, <3>2, Zenon
      <4>. QED BY <1>0, <4>1, Zenon
    <3>. QED BY <3>1, <3>2
  <2>7. pc' = "trimming" /\ pc = "trimming" /\ file' = file /\ fresh' = fresh
    BY <1>2 DEF Trim, history
  <2>8. ~ Within
    BY <1>t, <2>2, <2>3 DEF Within
  <2>9. InFile'
    BY <1>0, <2>7, Zenon
  <2>10. ~ fresh'
    BY <1>0, <2>7, <2>8, Zenon
  <2>11. ~ (pc' \in {"idle", "saving"})
    BY <2>7
  <2>. HIDE DEF Counts, InFile
  <2>. QED BY <2>6, <2>9, <2>10, <2>11, Zenon DEF CountInv, Counts, InFile
<1>3. ASSUME NEW n \in Name, NEW t \in Time, Set(n, t) PROVE CountInv'
  <2>. DEFINE r == [name |-> n, time |-> t, nth |-> sets']
              st == IF stats[n] = {} THEN {[count |-> 1, earliest |-> t]}
                    ELSE {[count |-> s.count + 1,
                           earliest |-> IF s.earliest > t THEN t ELSE s.earliest] : s \in stats[n]}
  <2>1. /\ records' = [records EXCEPT ![n] = Append(records[n], r)]
        /\ stats' = [stats EXCEPT ![n] = st]
        /\ pc' = "trimming" /\ fresh' = FALSE /\ file' = file
    BY <1>3 DEF Set
  <2>2. records[n] \in Seq(Record)
    BY <1>t
  <2>. HIDE DEF r
  <2>3. Len(Append(records[n], r)) = Len(records[n]) + 1 /\ Len(records[n]) \in Nat
    BY <2>2
  <2>4. st # {} /\ \A x \in st : x.count = Len(records[n]) + 1
    <3>1. /\ stats[n] = {} => records[n] = <<>>
          /\ \A s \in stats[n] : s.count = Len(records[n])
      BY <1>0
    <3>2. CASE stats[n] = {}
      <4>1. Len(records[n]) = 0
        BY <3>1, <3>2
      <4>. QED BY <3>2, <4>1
    <3>3. CASE stats[n] # {}
      <4>. DEFINE up(s) == [count |-> s.count + 1,
                            earliest |-> IF s.earliest > t THEN t ELSE s.earliest]
      <4>1. st = {up(s) : s \in stats[n]}
        BY <3>3
      <4>2. \A s : up(s).count = s.count + 1
        OBVIOUS
      <4>. HIDE DEF up, st
      <4>3. st # {}
        BY <3>3, <4>1
      <4>4. \A x \in st : \E s \in stats[n] : x = up(s)
        BY <4>1
      <4>. QED BY <3>1, <4>2, <4>3, <4>4, Zenon
    <3>. QED BY <3>2, <3>3
  <2>. DEFINE a == Append(records[n], r)
  <2>5. Len(a) = Len(records[n]) + 1
    BY <2>3
  <2>. HIDE DEF st, a
  <2>6. \A m \in Name : /\ records'[m] = IF m = n THEN a ELSE records[m]
                        /\ stats'[m] = IF m = n THEN st ELSE stats[m]
    BY <1>t, <2>1 DEF a
  <2>7. Counts'
    <3>. SUFFICES ASSUME NEW m \in Name
                  PROVE  /\ stats'[m] = {} => records'[m] = <<>>
                         /\ \A x \in stats'[m] : x.count = Len(records'[m])
      OBVIOUS
    <3>1. CASE m = n
      <4>1. records'[m] = a /\ stats'[m] = st
        BY <2>6, <3>1, Zenon
      <4>. QED BY <2>4, <2>5, <4>1, Zenon
    <3>2. CASE m # n
      <4>1. records'[m] = records[m] /\ stats'[m] = stats[m]
        BY <2>6, <3>2, Zenon
      <4>. QED BY <1>0, <4>1, Zenon
    <3>. QED BY <3>1, <3>2
  <2>8. InFile'
    BY <1>0, <2>1, Zenon
  <2>9. ~ fresh'
    BY <2>1, Zenon
  <2>10. ~ (pc' \in {"idle", "saving"})
    BY <2>1
  <2>. HIDE DEF Counts, InFile
  <2>. QED BY <2>7, <2>8, <2>9, <2>10, Zenon DEF CountInv, Counts, InFile
<1>4. CASE Trimmed
  <2>1. /\ UNCHANGED <<records, stats, file, fresh>> /\ pc' = "idle"
        /\ \A n \in Name : \A s \in stats[n] : s.count <= MaxRecords
    BY <1>4 DEF Trimmed, memory, history
  <2>2. Within
    <3>. SUFFICES ASSUME NEW n \in Name PROVE Len(records[n]) <= MaxRecords
      BY DEF Within
    <3>1. CASE stats[n] = {}
      <4>1. records[n] = <<>>
        BY <1>0, <3>1, Zenon
      <4>. QED BY <1>t, <4>1
    <3>2. CASE stats[n] # {}
      <4>1. PICK s \in stats[n] : TRUE
        BY <3>2
      <4>2. s.count = Len(records[n]) /\ s.count <= MaxRecords
        BY <1>0, <2>1, Zenon
      <4>. QED BY <4>2
    <3>. QED BY <3>1, <3>2
  <2>3. ~ (pc' = "trimming")
    BY <2>1
  <2>4. Counts' /\ InFile' /\ Within'
    BY <1>0, <2>1, <2>2, Zenon DEF Within
  <2>. HIDE DEF Counts, InFile
  <2>. QED BY <2>3, <2>4, Zenon DEF CountInv, Counts, InFile
<1>5. CASE Save
  <2>1. /\ UNCHANGED <<records, stats>> /\ pc = "idle" /\ (file' = file \/ file' = <<>>)
        /\ pc' # "trimming"
    BY <1>5 DEF Save, memory
  <2>2. InFile'
    <3>1. \A n \in Name : OfName(n, <<>>) = <<>>
      <4>1. <<>> \in Seq(Record) /\ \A i \in 1..Len(<<>>) : FALSE
        OBVIOUS
      <4>2. \A S : Only(<<>>, S) = <<>>
        BY <4>1, OnlyNone
      <4>. QED BY <4>2, Zenon DEF OfName
    <3>2. Len(<<>>) <= MaxRecords
      BY <1>t
    <3>. QED BY <1>0, <2>1, <3>1, <3>2, Zenon
  <2>3. Within /\ Counts'
    <3>1. Within
      BY <1>0, <2>1
    <3>. QED BY <1>0, <2>1, <3>1, Zenon
  <2>4. Within'
    BY <2>1, <2>3, Zenon DEF Within
  <2>. HIDE DEF Counts, InFile
  <2>. QED BY <2>1, <2>2, <2>3, <2>4, Zenon DEF CountInv, Counts, InFile
<1>6. CASE SaveEnds
  <2>1. /\ UNCHANGED <<records, stats>> /\ pc = "saving" /\ file' = Lines
        /\ pc' # "trimming"
    BY <1>6 DEF SaveEnds, memory
  <2>2. Within
    BY <1>0, <2>1
  <2>3. InFile'
    <3>1. \A n \in Name : OfName(n, Lines) = records[n]
      BY <1>t, LinesAreSorted
    <3>. QED BY <2>1, <2>2, <3>1, Zenon DEF Within
  <2>4. Within' /\ Counts'
    BY <1>0, <2>1, <2>2, Zenon DEF Within
  <2>. HIDE DEF Counts, InFile
  <2>. QED BY <2>1, <2>3, <2>4, Zenon DEF CountInv, Counts, InFile
<1>7. CASE ReSet
  <2>1. /\ UNCHANGED <<records, stats>> /\ pc = "idle" /\ file' = <<>>
        /\ pc' # "trimming"
    BY <1>7 DEF ReSet, memory
  <2>2. InFile'
    <3>1. \A n \in Name : OfName(n, <<>>) = <<>>
      <4>1. <<>> \in Seq(Record) /\ \A i \in 1..Len(<<>>) : FALSE
        OBVIOUS
      <4>2. \A S : Only(<<>>, S) = <<>>
        BY <4>1, OnlyNone
      <4>. QED BY <4>2, Zenon DEF OfName
    <3>2. Len(<<>>) <= MaxRecords
      BY <1>t
    <3>. QED BY <2>1, <3>1, <3>2, Zenon
  <2>3. Within
    BY <1>0, <2>1
  <2>4. Within' /\ Counts'
    BY <1>0, <2>1, <2>3, Zenon DEF Within
  <2>. HIDE DEF Counts, InFile
  <2>. QED BY <2>1, <2>2, <2>4, Zenon DEF CountInv, Counts, InFile
<1>8. CASE Crash
  <2>1. /\ pc' = "down"
        /\ records' = [n \in Name |-> <<>>] /\ stats' = [n \in Name |-> {}]
        /\ file' \in IF pc = "saving" THEN Prefixes(Lines) ELSE {file}
    BY <1>8 DEF Crash
  <2>2. Counts'
    <3>1. \A n \in Name : records'[n] = <<>> /\ stats'[n] = {}
      BY <2>1
    <3>. QED BY <3>1
  <2>3. InFile'
    <3>1. CASE pc = "saving"
      <4>1. Lines \in Seq(Record) /\ ByName(Lines) /\ \A n \in Name : OfName(n, Lines) = records[n]
        BY <1>t, LinesAreSorted
      <4>2. file' \in Prefixes(Lines)
        BY <2>1, <3>1
      <4>3. file' \in Seq(Record) /\ \A n \in Name : Len(OfName(n, file')) <= Len(OfName(n, Lines))
        BY <4>1, <4>2, PrefixHolds
      <4>4. Within
        BY <1>0, <3>1
      <4>5. ASSUME NEW n \in Name PROVE Len(OfName(n, file')) <= MaxRecords
        <5>1. OfName(n, file') \in Seq(Record) /\ records[n] \in Seq(Record)
          BY <1>t, <4>3, OfNameHolds
        <5>2. Len(OfName(n, file')) <= Len(records[n]) /\ Len(records[n]) <= MaxRecords
          BY <4>1, <4>3, <4>4, Zenon DEF Within
        <5>3. Len(OfName(n, file')) \in Nat /\ Len(records[n]) \in Nat
          BY <5>1
        <5>. QED BY <1>t, <5>2, <5>3
      <4>. QED BY <4>5
    <3>2. CASE pc # "saving"
      BY <1>0, <2>1, <3>2, Zenon
    <3>. QED BY <3>1, <3>2
  <2>4. pc' # "trimming" /\ ~ (pc' \in {"idle", "saving"})
    BY <2>1
  <2>. HIDE DEF Counts, InFile
  <2>. QED BY <2>2, <2>3, <2>4, Zenon DEF CountInv, Counts, InFile
<1>9. CASE UNCHANGED vars
  <2>1. UNCHANGED <<records, stats, file, pc, fresh>>
    BY <1>9 DEF vars, memory, history
  <2>2. Counts' /\ InFile' /\ Within' = Within
    BY <1>0, <2>1, Zenon DEF Within
  <2>. HIDE DEF Counts, InFile
  <2>. QED BY <1>0, <2>1, <2>2, Zenon DEF CountInv, Counts, InFile
<1>. QED BY <1>1, <1>2, <1>3, <1>4, <1>5, <1>6, <1>7, <1>8, <1>9, Zenon DEF Next

---------------------------------------------------------------------------
LEMMA SaveInit == Init => SaveInv
<1>. SUFFICES ASSUME Init PROVE SaveInv
  OBVIOUS
<1>1. IsPrefix(<<>>, <<>>)
  <2>1. <<>> \in Seq(Record)
    OBVIOUS
  <2>. QED BY <2>1, PrefixOfItself
<1>2. file = saved /\ saved = <<>> /\ ~ fresh /\ pc # "saving"
  BY DEF Init
<1>. QED BY <1>1, <1>2, Zenon DEF SaveInv, Begun

LEMMA SaveNext == TypeInv /\ CountInv /\ SaveInv /\ [Next]_vars => SaveInv'
<1>. SUFFICES ASSUME TypeInv, CountInv, SaveInv, [Next]_vars PROVE SaveInv'
  OBVIOUS
<1>t. /\ file \in Seq(Record) /\ ByName(file) /\ saved \in Seq(Record)
      /\ Named(records)
  BY DEF TypeInv
<1>s. /\ Begun(file)
      /\ pc = "saving" => saved = Lines /\ torn
      /\ fresh /\ pc \in {"trimming", "idle"} => Begun(Lines)
  BY DEF SaveInv
<1>l. /\ Lines \in Seq(Record) /\ ByName(Lines)
      /\ \A p \in Prefixes(Lines) : IsPrefix(p, Lines)
      /\ IsPrefix(Lines, Lines) /\ IsPrefix(<<>>, Lines) /\ IsPrefix(<<>>, <<>>)
  <2>1. Lines \in Seq(Record) /\ ByName(Lines) /\ <<>> \in Seq(Record)
    BY <1>t, LinesAreSorted
  <2>2. \A p \in Prefixes(Lines) : IsPrefix(p, Lines)
    BY <2>1, PrefixHolds
  <2>3. \A q \in Seq(Record) : IsPrefix(q, q) /\ IsPrefix(<<>>, q)
    BY PrefixOfItself
  <2>. QED BY <2>1, <2>2, <2>3, Zenon
<1>1. CASE Load
  <2>1. /\ records' = [n \in Name |-> OfName(n, file)]
        /\ UNCHANGED <<file, saved, torn>> /\ pc' = "trimming"
    BY <1>1 DEF Load
  <2>2. Lines' = FlattenSeq([n \in Name |-> records'[n]])
    BY DEF Lines
  <2>3. records' = [n \in Name |-> records'[n]]
    BY <2>1
  <2>4. Lines' = FlattenSeq([n \in Name |-> OfName(n, file)])
    BY <2>1, <2>2, <2>3, Zenon
  <2>5. Lines' = file
    BY <1>t, <2>4, LinesOfNames
  <2>6. Begun(file)' /\ Begun(Lines)'
    BY <1>s, <2>1, <2>5, Zenon DEF Begun
  <2>7. pc' # "saving"
    BY <2>1
  <2>. QED BY <2>6, <2>7, Zenon DEF SaveInv
<1>2. ASSUME NEW n \in Name, Trim(n) PROVE SaveInv'
  <2>1. UNCHANGED <<file, saved, torn, fresh>> /\ pc = "trimming" /\ pc' = "trimming"
    BY <1>2 DEF Trim, history
  <2>2. ~ Within
    <3>1. PICK s \in stats[n] : s.count > MaxRecords
      <4>1. \E s \in stats[n], rest \in Seq(Record) : s.count > MaxRecords
        BY <1>2, TrimTypes, Zenon
      <4>. QED BY <4>1
    <3>2. s.count = Len(records[n])
      BY DEF CountInv
    <3>3. Len(records[n]) \in Nat /\ MaxRecords \in Nat
      <4>1. records[n] \in Seq(Record)
        BY <1>t DEF Named
      <4>. QED BY <4>1, SizesAssumption
    <3>. QED BY <3>1, <3>2, <3>3 DEF Within
  <2>3. ~ fresh'
    BY <2>1, <2>2, Zenon DEF CountInv
  <2>4. Begun(file)'
    BY <1>s, <2>1, Zenon DEF Begun
  <2>5. pc' # "saving"
    BY <2>1
  <2>. QED BY <2>3, <2>4, <2>5, Zenon DEF SaveInv
<1>3. ASSUME NEW n \in Name, NEW t \in Time, Set(n, t) PROVE SaveInv'
  <2>1. UNCHANGED <<file, saved, torn>> /\ fresh' = FALSE /\ pc' = "trimming"
    BY <1>3 DEF Set
  <2>2. Begun(file)'
    BY <1>s, <2>1, Zenon DEF Begun
  <2>3. pc' # "saving" /\ ~ fresh'
    BY <2>1
  <2>. QED BY <2>2, <2>3, Zenon DEF SaveInv
<1>4. CASE Trimmed
  <2>1. /\ UNCHANGED <<records, file, saved, torn, fresh>>
        /\ pc = "trimming" /\ pc' = "idle"
    BY <1>4 DEF Trimmed, memory, history
  <2>2. Lines' = Lines
    BY <2>1 DEF Lines
  <2>3. Begun(file)' /\ (fresh' => Begun(Lines)')
    BY <1>s, <2>1, <2>2 DEF Begun
  <2>4. pc' # "saving"
    BY <2>1
  <2>. QED BY <2>3, <2>4, Zenon DEF SaveInv
<1>5. CASE Save
  <2>1. pc = "idle" /\ UNCHANGED <<records, fresh>>
    BY <1>5 DEF Save, memory
  <2>2. Lines' = Lines
    BY <2>1 DEF Lines
  <2>3. CASE pc' # "saving"
    <3>1. UNCHANGED <<file, saved, torn>> /\ (pc' = pc \/ pc' = "stuck")
      BY <1>5, <2>3 DEF Save
    <3>2. Begun(file)'
      BY <1>s, <3>1, Zenon DEF Begun
    <3>3. fresh' /\ pc' \in {"trimming", "idle"} => Begun(Lines)'
      BY <1>s, <2>1, <2>2, <3>1 DEF Begun
    <3>. QED BY <2>3, <3>2, <3>3, Zenon DEF SaveInv
  <2>4. CASE pc' = "saving"
    <3>1. file' = <<>> /\ saved' = Lines /\ torn' = TRUE
      BY <1>5, <2>1, <2>4 DEF Save
    <3>2. Begun(file)'
      BY <1>l, <3>1, Zenon DEF Begun
    <3>3. ~ (pc' \in {"trimming", "idle"})
      BY <2>4
    <3>. QED BY <2>2, <3>1, <3>2, <3>3, Zenon DEF SaveInv
  <2>. QED BY <2>3, <2>4
<1>6. CASE SaveEnds
  <2>1. /\ pc = "saving" /\ pc' = "idle" /\ file' = Lines /\ torn' = FALSE
        /\ UNCHANGED <<records, saved, fresh>>
    BY <1>6 DEF SaveEnds, memory
  <2>2. Lines' = Lines
    BY <2>1 DEF Lines
  <2>3. saved' = Lines
    BY <1>s, <2>1
  <2>4. Begun(file)' /\ Begun(Lines)'
    BY <1>l, <2>1, <2>2, <2>3, Zenon DEF Begun
  <2>5. pc' # "saving"
    BY <2>1
  <2>. QED BY <2>4, <2>5, Zenon DEF SaveInv
<1>7. CASE ReSet
  <2>1. /\ file' = <<>> /\ saved' = <<>> /\ fresh' = FALSE /\ pc' # "saving"
    BY <1>7 DEF ReSet
  <2>2. Begun(file)'
    BY <1>l, <2>1, Zenon DEF Begun
  <2>. QED BY <2>1, <2>2, Zenon DEF SaveInv
<1>8. CASE Crash
  <2>1. /\ file' \in IF pc = "saving" THEN Prefixes(Lines) ELSE {file}
        /\ UNCHANGED <<saved, torn>> /\ pc' = "down"
    BY <1>8 DEF Crash, history
  <2>2. Begun(file)'
    <3>1. CASE pc = "saving"
      <4>1. file' \in Prefixes(Lines) /\ saved = Lines /\ torn
        BY <1>s, <2>1, <3>1
      <4>. QED BY <1>l, <2>1, <4>1, Zenon DEF Begun
    <3>2. CASE pc # "saving"
      <4>1. file' = file
        BY <2>1, <3>2
      <4>. QED BY <1>s, <2>1, <4>1, Zenon DEF Begun
    <3>. QED BY <3>1, <3>2
  <2>3. pc' # "saving" /\ ~ (pc' \in {"trimming", "idle"})
    BY <2>1
  <2>. QED BY <2>2, <2>3, Zenon DEF SaveInv
<1>9. CASE UNCHANGED vars
  <2>1. UNCHANGED <<records, file, saved, torn, fresh, pc>>
    BY <1>9 DEF vars, memory, history
  <2>2. Lines' = Lines
    BY <2>1 DEF Lines
  <2>. QED BY <1>s, <2>1, <2>2, Zenon DEF SaveInv, Begun
<1>. QED BY <1>1, <1>2, <1>3, <1>4, <1>5, <1>6, <1>7, <1>8, <1>9, Zenon DEF Next

(* A process that has loaded and changed nothing yet has in memory what    *)
(* the last save wrote: all of it, or the lines that reached the disk when *)
(* the save was cut off.                                                   *)
THEOREM SavedIsLoadedAgain == Spec => []SavedIsLoaded
<1>1. Init => TypeInv /\ CountInv /\ SaveInv
  BY TypeInit, CountInit, SaveInit
<1>2. (TypeInv /\ CountInv /\ SaveInv) /\ [Next]_vars => (TypeInv /\ CountInv /\ SaveInv)'
  BY TypeNext, CountNext, SaveNext
<1>3. SaveInv => SavedIsLoaded
  BY DEF SaveInv, SavedIsLoaded, Begun
<1>. QED BY <1>1, <1>2, <1>3, PTL DEF Spec

---------------------------------------------------------------------------
LEMMA ResetInit == Init => ResetInv
<1>. SUFFICES ASSUME Init PROVE ResetInv
  OBVIOUS
<1>1. file = <<>> /\ erased = 0 /\ sets = 0 /\ pc = "down"
  BY DEF Init
<1>2. ResetIsFinal
  BY <1>1 DEF ResetIsFinal
<1>. QED BY <1>1, <1>2 DEF ResetInv

LEMMA ResetNext == TypeInv /\ ResetInv /\ [Next]_vars => ResetInv'
<1>. SUFFICES ASSUME TypeInv, ResetInv, [Next]_vars PROVE ResetInv'
  OBVIOUS
<1>. DEFINE New(R) == \A n \in Name : \A i \in 1..Len(R[n]) : R[n][i].nth > erased
            Writable == pc \in {"idle", "trimming", "saving"} /\ ~ resetFlag
<1>r. /\ \A i \in 1..Len(file) : file[i].nth > erased
      /\ erased <= sets
      /\ pc = "saving" => ~ resetFlag
      /\ Writable => New(records)
  BY DEF ResetInv, ResetIsFinal
<1>t. /\ file \in Seq(Record) /\ Named(records) /\ sets \in Nat /\ erased \in Nat
      /\ records \in [Name -> Seq(Record)]
  BY DEF TypeInv, Named
<1>l. /\ Lines \in Seq(Record) /\ ByName(Lines)
      /\ New(records) => \A i \in 1..Len(Lines) : Lines[i].nth > erased
  <2>1. /\ Lines \in Seq(Record) /\ ByName(Lines)
        /\ \A j \in 1..Len(Lines) :
              \E n \in Name : \E i \in 1..Len(records[n]) : Lines[j] = records[n][i]
    BY <1>t, LinesAreSorted
  <2>2. ASSUME New(records), NEW j \in 1..Len(Lines) PROVE Lines[j].nth > erased
    <3>1. PICK n \in Name : \E i \in 1..Len(records[n]) : Lines[j] = records[n][i]
      BY <2>1, Zenon
    <3>. QED BY <2>2, <3>1, Zenon
  <2>. QED BY <2>1, <2>2
<1>1. CASE Load
  <2>1. /\ records' = [n \in Name |-> OfName(n, file)]
        /\ UNCHANGED <<file, sets, erased>> /\ pc' = "trimming"
    BY <1>1 DEF Load
  <2>2. \A n \in Name : records'[n] = OfName(n, file)
    BY <2>1, Zenon
  <2>3. \A n \in Name : \A j \in 1..Len(OfName(n, file)) :
          \E i \in 1..Len(file) : OfName(n, file)[j] = file[i]
    BY <1>t, OfNameHolds
  <2>4. ASSUME NEW n \in Name, NEW j \in 1..Len(records'[n])
        PROVE  records'[n][j].nth > erased'
    <3>0. records'[n] = OfName(n, file)
      BY <2>2, Zenon
    <3>1. PICK i \in 1..Len(file) : records'[n][j] = file[i]
      <4>1. j \in 1..Len(OfName(n, file))
        BY <3>0
      <4>2. \E i \in 1..Len(file) : OfName(n, file)[j] = file[i]
        BY <2>3, <4>1, Zenon
      <4>. QED BY <3>0, <4>2, Zenon
    <3>2. file[i].nth > erased
      BY <1>r, Zenon
    <3>. QED BY <2>1, <3>1, <3>2, Zenon
  <2>5. ResetIsFinal' /\ erased' <= sets' /\ pc' # "saving"
    <3>1. ResetIsFinal'
      BY <1>r, <2>1, Zenon DEF ResetIsFinal
    <3>. QED BY <1>r, <2>1, <3>1
  <2>. QED BY <2>4, <2>5, Zenon DEF ResetInv
<1>2. ASSUME NEW n \in Name, Trim(n) PROVE ResetInv'
  <2>1. PICK s \in stats[n], rest \in Seq(Record) :
           /\ \A j \in 1..Len(rest) : \E i \in 1..Len(records[n]) : rest[j] = records[n][i]
           /\ records' = [records EXCEPT ![n] = rest]
    <3>1. \E s \in stats[n], rest \in Seq(Record) :
           /\ s \in Stat /\ s.count > MaxRecords
           /\ Len(rest) <= Len(records[n])
           /\ \A j \in 1..Len(rest) : \E i \in 1..Len(records[n]) : rest[j] = records[n][i]
           /\ records' = [records EXCEPT ![n] = rest]
           /\ stats' = [stats EXCEPT ![n] =
                {[count |-> s.count - (Len(records[n]) - Len(rest)),
                  earliest |-> IF rest = <<>> THEN s.earliest
                               ELSE Earliest(rest)]}]
      BY <1>2, TrimTypes, Zenon
    <3>. QED BY <3>1, Zenon
  <2>2. /\ \A j \in 1..Len(rest) : \E i \in 1..Len(records[n]) : rest[j] = records[n][i]
        /\ records' = [records EXCEPT ![n] = rest]
    BY <2>1, Zenon
  <2>3. \A m \in Name : records'[m] = IF m = n THEN rest ELSE records[m]
    BY <1>t, <2>2
  <2>4. /\ UNCHANGED <<file, sets, erased, resetFlag>>
        /\ pc = "trimming" /\ pc' = "trimming"
    BY <1>2 DEF Trim, history
  <2>5. ASSUME Writable', NEW m \in Name, NEW j \in 1..Len(records'[m])
        PROVE  records'[m][j].nth > erased'
    <3>1. New(records)
      BY <1>r, <2>4, <2>5
    <3>2. CASE m = n
      <4>1. records'[m] = rest
        BY <2>3, <3>2, Zenon
      <4>2. PICK i \in 1..Len(records[n]) : rest[j] = records[n][i]
        BY <2>2, <4>1, Zenon
      <4>3. records[n][i].nth > erased
        BY <3>1, Zenon
      <4>. QED BY <2>4, <4>1, <4>2, <4>3, Zenon
    <3>3. CASE m # n
      <4>1. records'[m] = records[m]
        BY <2>3, <3>3, Zenon
      <4>2. records[m][j].nth > erased
        BY <3>1, <4>1, Zenon
      <4>. QED BY <2>4, <4>1, <4>2, Zenon
    <3>. QED BY <3>2, <3>3
  <2>6. ResetIsFinal' /\ erased' <= sets' /\ pc' # "saving"
    <3>1. ResetIsFinal'
      BY <1>r, <2>4, Zenon DEF ResetIsFinal
    <3>. QED BY <1>r, <2>4, <3>1
  <2>. QED BY <2>5, <2>6, Zenon DEF ResetInv
<1>3. ASSUME NEW n \in Name, NEW t \in Time, Set(n, t) PROVE ResetInv'
  <2>. DEFINE r == [name |-> n, time |-> t, nth |-> sets']
              a == Append(records[n], r)
  <2>1. /\ records' = [records EXCEPT ![n] = a]
        /\ UNCHANGED <<file, erased, resetFlag>> /\ sets' = sets + 1
        /\ pc = "idle" /\ pc' = "trimming"
    BY <1>3 DEF Set
  <2>2. r.nth = sets' /\ sets' > erased
    BY <1>r, <1>t, <2>1
  <2>. HIDE DEF r
  <2>3. records[n] \in Seq(Record)
    BY <1>t
  <2>4. \A j \in 1..Len(a) : \/ a[j] = r
                             \/ j \in 1..Len(records[n]) /\ a[j] = records[n][j]
    BY <2>3
  <2>. HIDE DEF a
  <2>5. \A m \in Name : records'[m] = IF m = n THEN a ELSE records[m]
    BY <1>t, <2>1
  <2>6. ASSUME Writable', NEW m \in Name, NEW j \in 1..Len(records'[m])
        PROVE  records'[m][j].nth > erased'
    <3>1. New(records)
      BY <1>r, <2>1, <2>6
    <3>2. CASE m = n
      <4>1. records'[m] = a
        BY <2>5, <3>2, Zenon
      <4>2. a[j] = r \/ (j \in 1..Len(records[n]) /\ a[j] = records[n][j])
        BY <2>4, <4>1, Zenon
      <4>3. CASE a[j] = r
        BY <2>1, <2>2, <4>1, <4>3, Zenon
      <4>4. CASE j \in 1..Len(records[n]) /\ a[j] = records[n][j]
        <5>1. records[n][j].nth > erased
          BY <3>1, <4>4, Zenon
        <5>. QED BY <2>1, <4>1, <4>4, <5>1, Zenon
      <4>. QED BY <4>2, <4>3, <4>4
    <3>3. CASE m # n
      <4>1. records'[m] = records[m]
        BY <2>5, <3>3, Zenon
      <4>2. records[m][j].nth > erased
        BY <3>1, <4>1, Zenon
      <4>. QED BY <2>1, <4>1, <4>2, Zenon
    <3>. QED BY <3>2, <3>3
  <2>7. ResetIsFinal' /\ erased' <= sets' /\ pc' # "saving"
    <3>1. ResetIsFinal'
      BY <1>r, <2>1, Zenon DEF ResetIsFinal
    <3>. QED BY <1>r, <1>t, <2>1, <3>1
  <2>. QED BY <2>6, <2>7, Zenon DEF ResetInv
<1>4. CASE Trimmed
  <2>1. /\ UNCHANGED <<records, file, sets, erased, resetFlag>>
        /\ pc = "trimming" /\ pc' = "idle"
    BY <1>4 DEF Trimmed, memory, history
  <2>. QED BY <1>r, <2>1 DEF ResetInv, ResetIsFinal
<1>5. CASE Save
  <2>1. /\ UNCHANGED <<records, sets, erased, resetFlag>> /\ ~ resetFlag
        /\ pc = "idle" /\ (file' = file \/ file' = <<>>)
    BY <1>5 DEF Save, memory
  <2>2. ResetIsFinal'
    <3>1. CASE file' = file
      BY <1>r, <2>1, <3>1, Zenon DEF ResetIsFinal
    <3>2. CASE file' = <<>>
      BY <3>2 DEF ResetIsFinal
    <3>. QED BY <2>1, <3>1, <3>2
  <2>3. New(records)
    BY <1>r, <2>1
  <2>4. New(records)' /\ erased' <= sets' /\ ~ resetFlag'
    BY <1>r, <2>1, <2>3, Zenon
  <2>. QED BY <2>2, <2>4, Zenon DEF ResetInv
<1>6. CASE SaveEnds
  <2>1. /\ UNCHANGED <<records, sets, erased, resetFlag>>
        /\ pc = "saving" /\ pc' = "idle" /\ file' = Lines
    BY <1>6 DEF SaveEnds, memory
  <2>2. New(records)
    BY <1>r, <2>1
  <2>3. ResetIsFinal'
    BY <1>l, <2>1, <2>2, Zenon DEF ResetIsFinal
  <2>4. New(records)' /\ erased' <= sets' /\ pc' # "saving"
    <3>1. New(records)'
      BY <2>1, <2>2, Zenon
    <3>. HIDE DEF New
    <3>. QED BY <1>r, <2>1, <3>1
  <2>. QED BY <2>3, <2>4, Zenon DEF ResetInv
<1>7. CASE ReSet
  <2>1. /\ file' = <<>> /\ erased' = sets /\ sets' = sets /\ pc = "idle"
        /\ (pc' = "stuck" \/ (resetFlag' = TRUE /\ pc' = "idle"))
    BY <1>7 DEF ReSet
  <2>2. ResetIsFinal'
    BY <2>1 DEF ResetIsFinal
  <2>3. pc' # "saving" /\ ~ Writable' /\ erased' <= sets'
    BY <1>t, <2>1
  <2>. QED BY <2>2, <2>3, Zenon DEF ResetInv
<1>8. CASE Crash
  <2>1. /\ file' \in IF pc = "saving" THEN Prefixes(Lines) ELSE {file}
        /\ UNCHANGED <<sets, erased>> /\ pc' = "down"
    BY <1>8 DEF Crash, history
  <2>2. ResetIsFinal'
    <3>1. CASE pc = "saving"
      <4>1. New(records)
        BY <1>r, <3>1
      <4>2. file' \in Prefixes(Lines)
        BY <2>1, <3>1
      <4>3. \A j \in 1..Len(file') : j \in 1..Len(Lines) /\ file'[j] = Lines[j]
        BY <1>l, <4>2, PrefixHolds
      <4>4. \A j \in 1..Len(file') : file'[j].nth > erased
        BY <1>l, <4>1, <4>3, Zenon
      <4>. QED BY <2>1, <4>4, Zenon DEF ResetIsFinal
    <3>2. CASE pc # "saving"
      <4>1. file' = file
        BY <2>1, <3>2
      <4>. QED BY <1>r, <2>1, <4>1, Zenon DEF ResetIsFinal
    <3>. QED BY <3>1, <3>2
  <2>3. pc' # "saving" /\ ~ (pc' \in {"idle", "trimming", "saving"}) /\ erased' <= sets'
    BY <1>r, <2>1
  <2>. QED BY <2>2, <2>3, Zenon DEF ResetInv
<1>9. CASE UNCHANGED vars
  <2>1. UNCHANGED <<records, file, sets, erased, resetFlag, pc>>
    BY <1>9 DEF vars, memory, history
  <2>. QED BY <1>r, <2>1, Zenon DEF ResetInv, ResetIsFinal
<1>. QED BY <1>1, <1>2, <1>3, <1>4, <1>5, <1>6, <1>7, <1>8, <1>9, Zenon DEF Next

(* What was recorded before a reset is never in the file again, although   *)
(* it stays in memory and set goes on adding to it.                        *)
THEOREM ResetRecordsStayAway == Spec => []ResetIsFinal
<1>1. Init => TypeInv /\ ResetInv
  BY TypeInit, ResetInit
<1>2. (TypeInv /\ ResetInv) /\ [Next]_vars => (TypeInv /\ ResetInv)'
  BY TypeNext, ResetNext
<1>3. ResetInv => ResetIsFinal
  BY DEF ResetInv
<1>. QED BY <1>1, <1>2, <1>3, PTL DEF Spec
=============================================================================
