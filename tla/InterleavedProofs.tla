------------------------- MODULE InterleavedProofs -------------------------
(***************************************************************************)
(* Proofs about Interleaved, for any streams of well-formed messages, any  *)
(* size of the header and of the smallest answer.  Whatever recv has cut,  *)
(* what is still to be looked at is the end of the stream; where that      *)
(* begins in a message tells what must have been kept and handed over.     *)
(***************************************************************************)
EXTENDS Interleaved, SequenceLemmas

Pair == Nat \X Nat

Joined(m) == FlattenSeq([i \in 1..m |-> Message(i)])
All       == Joined(Len(stream))
Sent(m)   == PacketsOf([i \in 1..m |-> Message(i)])

After(b) == IF b[2] < stream[b[1]].len THEN <<b[1], b[2] + 1>>
            ELSE <<b[1] + 1, 1>>

(* The byte after the first p of the stream.                               *)
At(p) == IF p < Len(All) THEN All[p + 1] ELSE <<Len(stream) + 1, 1>>

---------------------------------------------------------------------------
(* What the assumptions say of a message of the stream.                    *)
LEMMA MessageFacts ==
  ASSUME stream \in Streams
  PROVE  /\ Len(stream) \in Nat /\ DOMAIN stream = 1..Len(stream)
         /\ Packets \subseteq 1..Len(stream) /\ Answers \subseteq 1..Len(stream)
         /\ \A i \in 1..Len(stream) :
              /\ stream[i].len \in Nat \ {0} /\ stream[i].dollars \in SUBSET Nat
              /\ i \in Packets \/ i \in Answers
              /\ ~ (i \in Packets /\ i \in Answers)
              /\ i \in Packets => 1 \in stream[i].dollars /\ stream[i].len >= HeaderSize
              /\ i \in Answers => /\ stream[i].dollars = {}
                                  /\ stream[i].len \in stream[i].ends
                                  /\ stream[i].len >= MinAnswer
<1>1. stream \in Seq(MessageRecord) /\ \A i \in 1..Len(stream) : WellFormed(stream[i])
  BY StreamsAssumption
<1>2. Len(stream) \in Nat /\ DOMAIN stream = 1..Len(stream)
  BY <1>1
<1>3. ASSUME NEW i \in 1..Len(stream)
      PROVE  /\ stream[i].len \in Nat \ {0} /\ stream[i].dollars \in SUBSET Nat
             /\ i \in Packets \/ i \in Answers
             /\ ~ (i \in Packets /\ i \in Answers)
             /\ i \in Packets => 1 \in stream[i].dollars /\ stream[i].len >= HeaderSize
             /\ i \in Answers => /\ stream[i].dollars = {}
                                 /\ stream[i].len \in stream[i].ends
                                 /\ stream[i].len >= MinAnswer
  <2>1. stream[i] \in MessageRecord /\ WellFormed(stream[i])
    BY <1>1
  <2>2. /\ stream[i].len \in Nat /\ stream[i].dollars \in SUBSET Nat
        /\ stream[i].kind = "packet" \/ stream[i].kind = "answer"
    BY <2>1 DEF MessageRecord, Kinds
  <2>3. /\ i \in Packets <=> stream[i].kind = "packet"
        /\ i \in Answers <=> stream[i].kind = "answer"
    BY <1>2 DEF Packets, Answers
  <2>. QED BY <2>1, <2>2, <2>3, SizeAssumption DEF WellFormed
<1>4. Packets \subseteq 1..Len(stream) /\ Answers \subseteq 1..Len(stream)
  BY <1>2 DEF Packets, Answers
<1>. QED BY <1>2, <1>3, <1>4

LEMMA MessageIs ==
  ASSUME stream \in Streams, NEW i \in 1..Len(stream)
  PROVE  /\ Message(i) \in Seq(Pair) /\ Len(Message(i)) = stream[i].len
         /\ \A k \in 1..stream[i].len : Message(i)[k] = <<i, k>>
<1>. DEFINE n == stream[i].len
            M == [k \in 1..n |-> <<i, k>>]
<1>1. n \in Nat \ {0} /\ i \in Nat
  BY MessageFacts
<1>2. Message(i) = M
  BY DEF Message
<1>. HIDE DEF n
<1>3. \A k \in 1..n : <<i, k>> \in Pair
  BY <1>1 DEF Pair
<1>4. M \in Seq(Pair) /\ Len(M) = n /\ \A k \in 1..n : M[k] = <<i, k>>
  BY <1>1, <1>3
<1>. QED BY <1>2, <1>4, Zenon DEF n

LEMMA ListIs ==
  ASSUME stream \in Streams, NEW m \in 0..Len(stream)
  PROVE  /\ [i \in 1..m |-> Message(i)] \in [1..m -> Seq(Pair)]
         /\ [i \in 1..m |-> Message(i)] \in Seq(Seq(Pair))
         /\ Len([i \in 1..m |-> Message(i)]) = m
         /\ m \in Nat
         /\ \A i \in 1..m : i \in 1..Len(stream)
<1>1. Len(stream) \in Nat /\ m \in Nat
  BY MessageFacts
<1>2. \A i \in 1..m : i \in 1..Len(stream)
  BY <1>1
<1>. DEFINE l == [i \in 1..m |-> Message(i)]
<1>3. \A i \in 1..m : Message(i) \in Seq(Pair)
  BY <1>2, MessageIs
<1>4. l \in [1..m -> Seq(Pair)]
  BY <1>3
<1>. HIDE DEF l
<1>5. l \in Seq(Seq(Pair)) /\ Len(l) = m
  BY <1>1, <1>4
<1>. QED BY <1>1, <1>2, <1>4, <1>5, Zenon DEF l

(* One message more.                                                       *)
LEMMA JoinedStep ==
  ASSUME stream \in Streams
  PROVE  /\ Joined(0) = <<>>
         /\ \A m \in 1..Len(stream) : Joined(m) = Joined(m - 1) \o Message(m)
<1>1. Joined(0) = <<>>
  <2>1. [i \in 1..0 |-> Message(i)] = <<>>
    OBVIOUS
  <2>2. Len(<<>>) = 0
    OBVIOUS
  <2>. QED BY <2>1, <2>2, Zenon DEF Joined, FlattenSeq
<1>2. ASSUME NEW m \in 1..Len(stream) PROVE Joined(m) = Joined(m - 1) \o Message(m)
  <2>. DEFINE s == [i \in 1..m |-> Message(i)]
  <2>1. m \in 0..Len(stream) /\ m \in Nat \ {0}
    BY MessageFacts
  <2>2. s \in [1..m -> Seq(Pair)]
    BY <2>1, ListIs
  <2>3. s[m] = Message(m) /\ \A i \in 1..m-1 : s[i] = Message(i)
    BY <2>1
  <2>4. [i \in 1..m-1 |-> s[i]] = [i \in 1..m-1 |-> Message(i)]
    BY <2>3
  <2>. HIDE DEF s
  <2>5. FlattenSeq(s) = FlattenSeq([i \in 1..m-1 |-> s[i]]) \o s[m]
    BY <2>1, <2>2, FlattenAppends
  <2>6. Joined(m) = FlattenSeq(s)
    BY Zenon DEF Joined, s
  <2>7. Joined(m - 1) = FlattenSeq([i \in 1..m-1 |-> Message(i)])
    BY Zenon DEF Joined
  <2>. QED BY <2>3, <2>4, <2>5, <2>6, <2>7, Zenon
<1>. QED BY <1>1, <1>2

(* The bytes of the first m messages, one after the other.                 *)
Bytes(J, m) ==
  /\ J \in Seq(Pair)
  /\ \A p \in 1..Len(J) : J[p][1] \in 1..m /\ J[p][2] \in 1..stream[J[p][1]].len
  /\ \A p \in 1..Len(J)-1 : J[p + 1] = After(J[p])
  /\ m = 0 => Len(J) = 0
  /\ m > 0 => /\ Len(J) > 0 /\ J[1] = <<1, 1>>
              /\ J[Len(J)] = <<m, stream[m].len>>

LEMMA JoinedBytes ==
  ASSUME stream \in Streams
  PROVE  \A m \in 0..Len(stream) : Bytes(Joined(m), m)
<1>. DEFINE n == Len(stream)
            T == {m \in 0..n : Bytes(Joined(m), m)}
<1>0. n \in Nat
  BY MessageFacts
<1>1. T \in SUBSET (0..n) /\ 0 \in T
  <2>1. Joined(0) = <<>>
    BY JoinedStep
  <2>2. Bytes(<<>>, 0)
    BY DEF Bytes
  <2>. QED BY <1>0, <2>1, <2>2
<1>2. ASSUME NEW m \in 1..n, m - 1 \in T PROVE m \in T
  <2>. DEFINE J == Joined(m - 1)
              M == Message(m)
              K == Joined(m)
  <2>1. K = J \o M
    BY JoinedStep
  <2>2. m \in 0..n /\ m \in Nat /\ m - 1 \in Nat /\ m # 0
    BY <1>0
  <2>3. /\ M \in Seq(Pair) /\ Len(M) = stream[m].len
        /\ \A k \in 1..stream[m].len : M[k] = <<m, k>>
        /\ stream[m].len \in Nat \ {0}
    BY MessageIs, MessageFacts
  <2>4. Bytes(J, m - 1)
    BY <1>2
  <2>. HIDE DEF J, M, K
  <2>5. J \in Seq(Pair) /\ Len(J) \in Nat
    BY <2>4 DEF Bytes
  <2>6. /\ K \in Seq(Pair) /\ Len(K) = Len(J) + Len(M)
        /\ \A p \in 1..Len(J) : K[p] = J[p]
        /\ \A k \in 1..Len(M) : K[Len(J) + k] = <<m, k>>
    <3>0. J \in Seq(Pair) /\ M \in Seq(Pair)
      BY <2>3, <2>5
    <3>1. /\ J \o M \in Seq(Pair) /\ Len(J \o M) = Len(J) + Len(M)
          /\ \A p \in 1..Len(J) : (J \o M)[p] = J[p]
          /\ \A k \in 1..Len(M) : (J \o M)[Len(J) + k] = M[k]
      <4>. HIDE DEF Pair
      <4>. QED BY <3>0, ConcatFacts
    <3>2. \A k \in 1..Len(M) : M[k] = <<m, k>>
      BY <2>3
    <3>. QED BY <2>1, <3>1, <3>2, Zenon
  <2>7. \A p \in 1..Len(K) : p \in 1..Len(J) \/ (p - Len(J) \in 1..Len(M) /\ p = Len(J) + (p - Len(J)))
    BY <2>3, <2>5, <2>6
  <2>8. \A p \in 1..Len(K) : K[p][1] \in 1..m /\ K[p][2] \in 1..stream[K[p][1]].len
    <3>. SUFFICES ASSUME NEW p \in 1..Len(K)
                  PROVE  K[p][1] \in 1..m /\ K[p][2] \in 1..stream[K[p][1]].len
      OBVIOUS
    <3>1. CASE p \in 1..Len(J)
      <4>1. K[p] = J[p] /\ J[p][1] \in 1..(m-1) /\ J[p][2] \in 1..stream[J[p][1]].len
        BY <2>4, <2>6, <3>1, Zenon DEF Bytes
      <4>2. J[p][1] \in 1..m
        BY <2>2, <4>1
      <4>. QED BY <4>1, <4>2, Zenon
    <3>2. CASE p - Len(J) \in 1..Len(M) /\ p = Len(J) + (p - Len(J))
      <4>1. K[p] = <<m, p - Len(J)>>
        BY <2>6, <3>2, Zenon
      <4>2. K[p][1] = m /\ K[p][2] = p - Len(J)
        BY <4>1
      <4>3. m \in 1..m /\ p - Len(J) \in 1..stream[m].len
        BY <2>2, <2>3, <3>2
      <4>. QED BY <4>2, <4>3, Zenon
    <3>. QED BY <2>7, <3>1, <3>2, Zenon
  <2>9. Len(K) > 0 /\ K[1] = <<1, 1>> /\ K[Len(K)] = <<m, stream[m].len>>
    <3>1. Len(K) > 0
      BY <2>3, <2>5, <2>6
    <3>2. K[Len(K)] = <<m, stream[m].len>>
      <4>1. Len(M) \in 1..Len(M) /\ Len(K) = Len(J) + Len(M)
        BY <2>3, <2>6
      <4>. QED BY <2>3, <2>6, <4>1, Zenon
    <3>3. K[1] = <<1, 1>>
      <4>1. CASE m = 1
        <5>1. Len(J) = 0 /\ Len(J) + 1 = 1 /\ 1 \in 1..Len(M)
          BY <2>3, <2>4, <4>1 DEF Bytes
        <5>2. K[Len(J) + 1] = <<m, 1>>
          BY <2>6, <5>1, Zenon
        <5>. QED BY <4>1, <5>1, <5>2
      <4>2. CASE m # 1
        <5>1. m - 1 > 0
          BY <2>2, <4>2
        <5>2. 1 \in 1..Len(J) /\ J[1] = <<1, 1>>
          BY <2>4, <2>5, <5>1 DEF Bytes
        <5>. QED BY <2>6, <5>2, Zenon
      <4>. QED BY <4>1, <4>2
    <3>. QED BY <3>1, <3>2, <3>3
  <2>10. \A p \in 1..Len(K)-1 : K[p + 1] = After(K[p])
    <3>. SUFFICES ASSUME NEW p \in 1..Len(K)-1 PROVE K[p + 1] = After(K[p])
      OBVIOUS
    <3>1. CASE p + 1 <= Len(J)
      <4>1. p \in 1..Len(J) /\ p + 1 \in 1..Len(J) /\ p \in 1..Len(J)-1
        BY <2>5, <2>6, <3>1
      <4>2. K[p + 1] = J[p + 1] /\ K[p] = J[p]
        BY <2>6, <4>1, Zenon
      <4>3. J[p + 1] = After(J[p])
        BY <2>4, <4>1, Zenon DEF Bytes
      <4>. QED BY <4>2, <4>3, Zenon
    <3>2. CASE p = Len(J)
      <4>1. p \in 1..Len(J) /\ m - 1 > 0 /\ 1 \in 1..Len(M) /\ p + 1 = Len(J) + 1
        BY <2>2, <2>3, <2>4, <2>5, <3>2, SMTT(60) DEF Bytes
      <4>2. K[p + 1] = <<m, 1>>
        BY <2>6, <4>1, Zenon
      <4>3. K[p] = <<m - 1, stream[m-1].len>>
        BY <2>4, <2>6, <3>2, <4>1, Zenon DEF Bytes
      <4>4. stream[m-1].len \in Nat
        <5>1. m - 1 \in 1..n
          BY <2>2, <4>1
        <5>. QED BY <5>1, MessageFacts
      <4>. QED BY <2>2, <4>2, <4>3, <4>4 DEF After
    <3>3. CASE p > Len(J)
      <4>. DEFINE k == p - Len(J)
      <4>1. k \in 1..Len(M) /\ k + 1 \in 1..Len(M) /\ Len(J) + k = p /\ Len(J) + (k + 1) = p + 1
        BY <2>3, <2>5, <2>6, <3>3, SMTT(60)
      <4>. HIDE DEF k
      <4>2. K[p] = <<m, k>> /\ K[p + 1] = <<m, k + 1>>
        <5>1. K[Len(J) + k] = <<m, k>> /\ K[Len(J) + (k + 1)] = <<m, k + 1>>
          BY <2>6, <4>1, Zenon
        <5>. QED BY <4>1, <5>1
      <4>3. k < stream[m].len
        BY <2>3, <4>1, SMTT(60)
      <4>. QED BY <4>2, <4>3 DEF After
    <3>. QED BY <2>5, <2>6, <3>1, <3>2, <3>3
  <2>11. Bytes(K, m)
    BY <2>2, <2>6, <2>8, <2>9, <2>10 DEF Bytes
  <2>. QED BY <2>2, <2>11 DEF K
<1>3. T = 0..n
  <2>. HIDE DEF T, n
  <2>. QED BY <1>0, <1>1, <1>2, UptoInduction
<1>. QED BY <1>3

(* How the bytes follow each other.                                        *)
LEMMA AtLinks ==
  ASSUME stream \in Streams
  PROVE  /\ All \in Seq(Pair) /\ Len(All) \in Nat /\ Len(stream) \in Nat
         /\ At(0) = <<1, 1>> /\ At(Len(All)) = <<Len(stream) + 1, 1>>
         /\ Len(All) > 0 => Len(stream) > 0
         /\ \A p \in 0..Len(All)-1 :
              /\ At(p) = All[p + 1] /\ At(p) \in Pair
              /\ At(p) = <<At(p)[1], At(p)[2]>>
              /\ At(p)[1] \in 1..Len(stream)
              /\ At(p)[2] \in 1..stream[At(p)[1]].len
              /\ At(p + 1) = After(At(p))
<1>. DEFINE n == Len(stream)
<1>1. n \in Nat /\ n \in 0..n
  BY MessageFacts
<1>2. Bytes(All, n)
  BY <1>1, JoinedBytes DEF All
<1>3. All \in Seq(Pair) /\ Len(All) \in Nat
  BY <1>2 DEF Bytes
<1>4. At(Len(All)) = <<n + 1, 1>>
  BY <1>3 DEF At
<1>5. At(0) = <<1, 1>>
  <2>1. CASE n = 0
    <3>1. Len(All) = 0
      BY <1>2, <2>1 DEF Bytes
    <3>. QED BY <1>4, <2>1, <3>1
  <2>2. CASE n # 0
    <3>1. Len(All) > 0 /\ All[1] = <<1, 1>>
      BY <1>1, <1>2, <2>2 DEF Bytes
    <3>. QED BY <1>3, <3>1 DEF At
  <2>. QED BY <2>1, <2>2
<1>6. Len(All) > 0 => n > 0
  BY <1>1, <1>2 DEF Bytes
<1>7. ASSUME NEW p \in 0..Len(All)-1
      PROVE  /\ At(p) = All[p + 1] /\ At(p) \in Pair
             /\ At(p) = <<At(p)[1], At(p)[2]>>
             /\ At(p)[1] \in 1..n
             /\ At(p)[2] \in 1..stream[At(p)[1]].len
             /\ At(p + 1) = After(At(p))
  <2>1. p + 1 \in 1..Len(All) /\ p \in Nat /\ p < Len(All)
    BY <1>3
  <2>2. At(p) = All[p + 1]
    BY <2>1 DEF At
  <2>3. All[p + 1] \in Pair
    <3>. HIDE DEF Pair
    <3>. QED BY <1>3, <2>1
  <2>4. All[p + 1][1] \in 1..n /\ All[p + 1][2] \in 1..stream[All[p + 1][1]].len
    BY <1>2, <2>1, Zenon DEF Bytes
  <2>5. At(p + 1) = After(All[p + 1])
    <3>1. CASE p + 1 < Len(All)
      <4>1. p + 1 \in 1..Len(All)-1
        BY <1>3, <2>1, <3>1
      <4>2. All[(p + 1) + 1] = After(All[p + 1])
        BY <1>2, <4>1, Zenon DEF Bytes
      <4>. QED BY <3>1, <4>2 DEF At
    <3>2. CASE p + 1 = Len(All)
      <4>1. At(p + 1) = <<n + 1, 1>>
        BY <1>4, <3>2, Zenon
      <4>2. n > 0
        BY <1>6, <2>1, <3>2
      <4>3. All[p + 1] = <<n, stream[n].len>>
        BY <1>2, <3>2, <4>2, Zenon DEF Bytes
      <4>4. n \in 1..n /\ stream[n].len \in Nat
        <5>1. n \in 1..n
          BY <1>1, <4>2
        <5>. QED BY <5>1, MessageFacts
      <4>. QED BY <1>1, <4>1, <4>3, <4>4 DEF After
    <3>. QED BY <1>3, <2>1, <3>1, <3>2
  <2>6. All[p + 1] = <<All[p + 1][1], All[p + 1][2]>>
    BY <2>3 DEF Pair
  <2>. QED BY <2>2, <2>3, <2>4, <2>5, <2>6, Zenon
<1>. HIDE DEF n
<1>. QED BY <1>1, <1>3, <1>4, <1>5, <1>6, <1>7, Zenon DEF n

(* From a byte of a message on to its last one, and to the next message.   *)
LEMMA MessageRun ==
  ASSUME stream \in Streams,
         NEW p \in 0..Len(All)-1, NEW i, NEW k, At(p) = <<i, k>>
  PROVE  /\ i \in 1..Len(stream) /\ k \in 1..stream[i].len /\ stream[i].len \in Nat
         /\ \A l \in 0..stream[i].len - k :
              p + l \in 0..Len(All)-1 /\ At(p + l) = <<i, k + l>>
         /\ p + (stream[i].len - k + 1) \in 0..Len(All)
         /\ At(p + (stream[i].len - k + 1)) = <<i + 1, 1>>
<1>. DEFINE len == stream[i].len
            n == len - k
            T == {l \in 0..n : p + l \in 0..Len(All)-1 /\ At(p + l) = <<i, k + l>>}
<1>1. Len(All) \in Nat /\ Len(stream) \in Nat
  BY AtLinks
<1>2. At(p)[1] = i /\ At(p)[2] = k
  OBVIOUS
<1>3. i \in 1..Len(stream) /\ k \in 1..len
  BY <1>2, AtLinks, Zenon
<1>4. len \in Nat \ {0}
  BY <1>3, MessageFacts
<1>. HIDE DEF len
<1>5. n \in Nat /\ k \in Nat /\ k >= 1 /\ p \in Nat /\ i \in Nat
  BY <1>1, <1>3, <1>4
<1>. HIDE DEF n
<1>6. T \in SUBSET (0..n) /\ 0 \in T
  <2>1. 0 \in 0..n /\ p + 0 = p /\ k + 0 = k
    BY <1>5
  <2>. QED BY <2>1
<1>7. ASSUME NEW l \in 1..n, l - 1 \in T PROVE l \in T
  <2>1. /\ p + (l-1) \in 0..Len(All)-1 /\ At(p + (l-1)) = <<i, k + (l-1)>>
    BY <1>7
  <2>2. /\ l \in 0..n /\ (p + (l-1)) + 1 = p + l /\ k + (l-1) < len
        /\ (k + (l-1)) + 1 = k + l /\ k + l > 1
    BY <1>4, <1>5 DEF n
  <2>3. At((p + (l-1)) + 1) = After(At(p + (l-1)))
    BY <2>1, AtLinks, Zenon
  <2>4. After(<<i, k + (l-1)>>) = <<i, (k + (l-1)) + 1>>
    BY <2>2 DEF After, len
  <2>5. At(p + l) = <<i, k + l>>
    <3>1. At(p + l) = <<i, (k + (l-1)) + 1>>
      BY <2>1, <2>2, <2>3, <2>4, Zenon
    <3>. QED BY <2>2, <3>1, Zenon
  <2>6. p + l # Len(All)
    <3>. SUFFICES ASSUME p + l = Len(All) PROVE FALSE
      OBVIOUS
    <3>1. At(p + l) = <<Len(stream) + 1, 1>>
      BY AtLinks, Zenon
    <3>. QED BY <2>2, <2>5, <3>1
  <2>7. p + l \in 0..Len(All)-1
    BY <1>1, <1>5, <2>1, <2>6
  <2>. QED BY <2>2, <2>5, <2>7
<1>8. T = 0..n
  <2>. HIDE DEF T
  <2>. QED BY <1>5, <1>6, <1>7, UptoInduction
<1>9. \A l \in 0..n : p + l \in 0..Len(All)-1 /\ At(p + l) = <<i, k + l>>
  BY <1>8
<1>10. n \in 0..n /\ k + n = len /\ (p + n) + 1 = p + (n + 1)
  BY <1>3, <1>4, <1>5 DEF n
<1>11. p + n \in 0..Len(All)-1 /\ At(p + n) = <<i, len>>
  BY <1>9, <1>10, Zenon
<1>12. At((p + n) + 1) = After(At(p + n))
  BY <1>11, AtLinks, Zenon
<1>13. After(<<i, len>>) = <<i + 1, 1>>
  BY <1>4 DEF After, len
<1>14. At(p + (n + 1)) = <<i + 1, 1>>
  BY <1>10, <1>11, <1>12, <1>13, Zenon
<1>15. p + (n + 1) \in 0..Len(All)
  BY <1>1, <1>5, <1>11
<1>. QED BY <1>3, <1>4, <1>9, <1>14, <1>15 DEF n, len

(* The first messages are the beginning of the stream.                     *)
LEMMA JoinedBegins ==
  ASSUME stream \in Streams
  PROVE  /\ \A m \in 0..Len(stream) :
              /\ Joined(m) \in Seq(Pair) /\ Len(Joined(m)) <= Len(All)
              /\ \A p \in 1..Len(Joined(m)) : Joined(m)[p] = All[p]
         /\ \A m \in 1..Len(stream) : Len(Joined(m)) = Len(Joined(m-1)) + stream[m].len
<1>. DEFINE n == Len(stream)
            Begins(m) == /\ Len(Joined(m)) <= Len(All)
                         /\ \A p \in 1..Len(Joined(m)) : Joined(m)[p] = All[p]
            T == {j \in 0..n : Begins(n - j)}
<1>0. n \in Nat
  BY MessageFacts
<1>1. \A m \in 0..n : Joined(m) \in Seq(Pair)
  BY JoinedBytes DEF Bytes
<1>2. ASSUME NEW m \in 1..n
      PROVE  /\ Len(Joined(m)) = Len(Joined(m-1)) + stream[m].len
             /\ Len(Joined(m-1)) <= Len(Joined(m))
             /\ \A p \in 1..Len(Joined(m-1)) : Joined(m)[p] = Joined(m-1)[p]
  <2>1. m - 1 \in 0..n /\ stream[m].len \in Nat
    BY <1>0, MessageFacts
  <2>2. Joined(m) = Joined(m-1) \o Message(m)
    BY JoinedStep
  <2>3. Message(m) \in Seq(Pair) /\ Len(Message(m)) = stream[m].len
    BY MessageIs
  <2>4. Joined(m-1) \in Seq(Pair)
    BY <1>1, <2>1
  <2>5. Len(Joined(m-1)) \in Nat
    <3>. HIDE DEF Pair
    <3>. QED BY <2>4
  <2>6. /\ Len(Joined(m-1) \o Message(m)) = Len(Joined(m-1)) + Len(Message(m))
        /\ \A p \in 1..Len(Joined(m-1)) : (Joined(m-1) \o Message(m))[p] = Joined(m-1)[p]
    BY <2>3, <2>4, ConcatFacts, ZenonT(90)
  <2>7. Len(Joined(m)) = Len(Joined(m-1)) + stream[m].len
    BY <2>2, <2>3, <2>6, Zenon
  <2>8. Len(Joined(m-1)) <= Len(Joined(m))
    BY <2>1, <2>5, <2>7
  <2>. QED BY <2>2, <2>6, <2>7, <2>8, Zenon
<1>3. \A m \in 0..n : Len(Joined(m)) \in Nat
  <2>. SUFFICES ASSUME NEW m \in 0..n PROVE Len(Joined(m)) \in Nat
    OBVIOUS
  <2>1. Joined(m) \in Seq(Pair)
    BY <1>1
  <2>. HIDE DEF Pair
  <2>. QED BY <2>1
<1>4. T \in SUBSET (0..n) /\ 0 \in T
  <2>1. 0 \in 0..n /\ n - 0 = n /\ n \in 0..n
    BY <1>0
  <2>2. Joined(n) = All
    BY DEF All
  <2>3. Begins(n)
    BY <1>3, <2>1, <2>2
  <2>. HIDE DEF Begins
  <2>. QED BY <2>1, <2>3
<1>5. ASSUME NEW j \in 1..n, j - 1 \in T PROVE j \in T
  <2>. DEFINE m == n - (j - 1)
  <2>1. m \in 1..n /\ m - 1 = n - j /\ j \in 0..n /\ m - 1 \in 0..n /\ m \in 0..n
    BY <1>0
  <2>2. Begins(m)
    BY <1>5
  <2>. HIDE DEF m
  <2>. DEFINE J == Joined(m - 1)
  <2>3. /\ Len(J) <= Len(Joined(m)) /\ \A p \in 1..Len(J) : Joined(m)[p] = J[p]
    BY <1>2, <2>1
  <2>4. Len(J) \in Nat /\ Len(Joined(m)) \in Nat /\ Len(All) \in Nat
    BY <1>3, <2>1, AtLinks
  <2>5. Len(J) <= Len(All)
    BY <2>2, <2>3, <2>4
  <2>6. \A p \in 1..Len(J) : p \in 1..Len(Joined(m))
    BY <2>3, <2>4
  <2>7. \A p \in 1..Len(J) : J[p] = All[p]
    BY <2>2, <2>3, <2>6, Zenon
  <2>8. Begins(m - 1)
    BY <2>5, <2>7
  <2>. HIDE DEF Begins, J
  <2>. QED BY <2>1, <2>8
<1>6. T = 0..n
  <2>. HIDE DEF T, n
  <2>. QED BY <1>0, <1>4, <1>5, UptoInduction
<1>7. ASSUME NEW m \in 0..n PROVE Begins(m)
  <2>1. n - m \in 0..n /\ n - (n - m) = m
    BY <1>0
  <2>2. n - m \in T
    BY <1>6, <2>1
  <2>3. Begins(n - (n - m))
    <3>. HIDE DEF Begins, n
    <3>. QED BY <2>2
  <2>. HIDE DEF Begins, n
  <2>. QED BY <2>1, <2>3
<1>. QED BY <1>1, <1>2, <1>7

---------------------------------------------------------------------------
(* Nothing that is said of the stream changes in a step.                   *)
LEMMA StreamStays ==
  ASSUME stream' = stream
  PROVE  /\ All' = All /\ Packets' = Packets /\ Answers' = Answers
         /\ \A p : At(p)' = At(p)
         /\ \A i : Message(i)' = Message(i)
         /\ \A m : Joined(m)' = Joined(m)
         /\ \A m : Sent(m)' = Sent(m)
         /\ \A b : Dollar(b)' <=> Dollar(b)
<1>1. All' = All
  BY DEF All, Joined, Message
<1>2. Packets' = Packets /\ Answers' = Answers
  BY DEF Packets, Answers
<1>3. \A p : At(p)' = At(p)
  BY DEF At, All, Joined, Message
<1>4. \A i : Message(i)' = Message(i)
  BY DEF Message
<1>5. \A m : Joined(m)' = Joined(m)
  BY DEF Joined, Message
<1>6. \A m : Sent(m)' = Sent(m)
  BY DEF Sent, PacketsOf, Message, Dollar
<1>7. \A b : Dollar(b)' <=> Dollar(b)
  BY DEF Dollar
<1>. QED BY <1>1, <1>2, <1>3, <1>4, <1>5, <1>6, <1>7, Zenon

LEMMA PacketsGrow ==
  ASSUME NEW s \in Seq(Seq(Pair)), NEW x \in Seq(Pair)
  PROVE  /\ PacketsOf(s) \in Seq(Seq(Pair))
         /\ Dollar(x[1]) => PacketsOf(Append(s, x)) = Append(PacketsOf(s), x)
         /\ ~Dollar(x[1]) => PacketsOf(Append(s, x)) = PacketsOf(s)
<1>. DEFINE E == Seq(Pair)
            t == Append(s, x)
            S == {d \in Range(t) : Dollar(d[1])}
            A == {d \in Range(s) : Dollar(d[1])}
<1>1. s \in Seq(E) /\ x \in E
  OBVIOUS
<1>. HIDE DEF E
<1>2. /\ t \in Seq(E) /\ Len(t) = Len(s) + 1 /\ Len(s) \in Nat
      /\ \A p \in 1..Len(s) : t[p] = s[p]
      /\ t[Len(s) + 1] = x
  BY <1>1
<1>3. DOMAIN s = 1..Len(s) /\ DOMAIN t = 1..Len(t)
  BY <1>1, <1>2
<1>4. \A i \in 1..Len(s) : s[i] \in Range(s) /\ s[i] \in Range(t)
  <2>1. \A i \in 1..Len(s) : i \in 1..Len(t) /\ t[i] = s[i]
    BY <1>2
  <2>. QED BY <1>3, <2>1, Zenon DEF Range
<1>5. x \in Range(t)
  <2>1. Len(s) + 1 \in 1..Len(t)
    BY <1>2
  <2>. QED BY <1>2, <1>3, <2>1, Zenon DEF Range
<1>6. \A i \in 1..Len(s) : s[i] \in S <=> s[i] \in A
  BY <1>4, Zenon
<1>7. x \in S <=> Dollar(x[1])
  BY <1>5, Zenon
<1>8. PacketsOf(s) = Only(s, A) /\ PacketsOf(t) = Only(t, S)
  BY Zenon DEF PacketsOf
<1>. HIDE DEF S, A
<1>9. Only(t, S) = IF x \in S THEN Append(Only(s, A), x) ELSE Only(s, A)
  BY <1>1, <1>6, OnlyAppend, ZenonT(90) DEF t
<1>10. Only(s, A) \in Seq(E)
  BY <1>1, OnlyKeeps, Zenon
<1>. QED BY <1>7, <1>8, <1>9, <1>10, Zenon DEF t, E

(* The packets among one message more.                                     *)
LEMMA SentStep ==
  ASSUME stream \in Streams
  PROVE  /\ \A m \in 0..Len(stream) : Sent(m) \in Seq(Seq(Pair))
         /\ \A m \in 1..Len(stream) :
              /\ m \in Packets => Sent(m) = Append(Sent(m-1), Message(m))
              /\ m \in Answers => Sent(m) = Sent(m-1)
<1>1. ASSUME NEW m \in 0..Len(stream) PROVE Sent(m) \in Seq(Seq(Pair))
  <2>1. [i \in 1..m |-> Message(i)] \in Seq(Seq(Pair))
    BY ListIs
  <2>2. <<>> \in Seq(Pair)
    OBVIOUS
  <2>. QED BY <2>1, <2>2, PacketsGrow, Zenon DEF Sent
<1>2. ASSUME NEW m \in 1..Len(stream)
      PROVE  /\ m \in Packets => Sent(m) = Append(Sent(m-1), Message(m))
             /\ m \in Answers => Sent(m) = Sent(m-1)
  <2>. DEFINE l == [i \in 1..m |-> Message(i)]
              k == [i \in 1..m-1 |-> Message(i)]
  <2>1. m \in 0..Len(stream) /\ m - 1 \in 0..Len(stream) /\ m \in Nat /\ m - 1 \in Nat
    BY MessageFacts
  <2>2. l \in Seq(Seq(Pair)) /\ k \in Seq(Seq(Pair)) /\ Len(l) = m /\ Len(k) = m - 1
    <3>1. l \in Seq(Seq(Pair)) /\ Len(l) = m
      BY <2>1, ListIs, Zenon
    <3>2. k \in Seq(Seq(Pair)) /\ Len(k) = m - 1
      BY <2>1, ListIs, Zenon
    <3>. QED BY <3>1, <3>2, Zenon
  <2>3. Message(m) \in Seq(Pair) /\ stream[m].len \in Nat \ {0}
        /\ Message(m)[1] = <<m, 1>>
    <3>1. stream[m].len \in Nat \ {0}
      BY MessageFacts
    <3>2. 1 \in 1..stream[m].len
      BY <3>1
    <3>. QED BY <3>1, <3>2, MessageIs
  <2>4. \A i \in 1..m-1 : l[i] = Message(i) /\ k[i] = Message(i)
    BY <2>1
  <2>5. l[m] = Message(m)
    BY <2>1
  <2>. HIDE DEF l, k, Pair
  <2>6. l = Append(k, Message(m))
    <3>. DEFINE a == Append(k, Message(m))
    <3>1. /\ a \in Seq(Seq(Pair)) /\ Len(a) = Len(k) + 1
          /\ \A p \in 1..Len(k) : a[p] = k[p]
          /\ a[Len(k) + 1] = Message(m)
      BY <2>2, <2>3, AppendFacts
    <3>. HIDE DEF a
    <3>2. Len(l) = Len(a)
      BY <2>1, <2>2, <3>1
    <3>3. ASSUME NEW j \in 1..Len(l) PROVE l[j] = a[j]
      <4>1. CASE j = m
        <5>1. Len(k) + 1 = m
          BY <2>1, <2>2
        <5>. QED BY <2>5, <3>1, <4>1, <5>1, Zenon
      <4>2. CASE j # m
        <5>1. j \in 1..m-1 /\ j \in 1..Len(k)
          BY <2>1, <2>2, <4>2
        <5>. QED BY <2>4, <3>1, <5>1, Zenon
      <4>. QED BY <4>1, <4>2
    <3>4. l = a
      BY <2>2, <3>1, <3>2, <3>3, SameElements, Zenon
    <3>. QED BY <3>4 DEF a
  <2>7. Sent(m) = PacketsOf(Append(k, Message(m))) /\ Sent(m - 1) = PacketsOf(k)
    BY <2>6, Zenon DEF Sent, l, k
  <2>8. Dollar(Message(m)[1]) <=> 1 \in stream[m].dollars
    BY <2>1, <2>3 DEF Dollar
  <2>9. /\ m \in Packets => 1 \in stream[m].dollars
        /\ m \in Answers => 1 \notin stream[m].dollars
    BY MessageFacts
  <2>10. /\ Dollar(Message(m)[1]) => Sent(m) = Append(Sent(m-1), Message(m))
         /\ ~Dollar(Message(m)[1]) => Sent(m) = Sent(m-1)
    BY <2>2, <2>3, <2>7, PacketsGrow, Zenon
  <2>. QED BY <2>8, <2>9, <2>10, Zenon
<1>. QED BY <1>1, <1>2

LEMMA SentBegins ==
  ASSUME stream \in Streams, NEW k \in 0..Len(stream)
  PROVE  IsPrefix(Sent(k), Sent(Len(stream)))
<1>. DEFINE n == Len(stream)
            d == n - k
            Begins(m) == /\ Len(Sent(k)) <= Len(Sent(m))
                         /\ \A j \in 1..Len(Sent(k)) : Sent(k)[j] = Sent(m)[j]
            T == {j \in 0..d : Begins(k + j)}
<1>0. n \in Nat /\ d \in Nat /\ k \in Nat
  BY MessageFacts
<1>1. \A m \in 0..n : Sent(m) \in Seq(Seq(Pair))
  BY SentStep
<1>2. \A m \in 0..n : Len(Sent(m)) \in Nat
  BY <1>1
<1>3. T \in SUBSET (0..d) /\ 0 \in T
  <2>1. 0 \in 0..d /\ k + 0 = k
    BY <1>0
  <2>2. Begins(k)
    BY <1>2
  <2>. HIDE DEF Begins, d
  <2>. QED BY <2>1, <2>2
<1>4. ASSUME NEW j \in 1..d, j - 1 \in T PROVE j \in T
  <2>. DEFINE m == k + j
  <2>1. m \in 1..n /\ m - 1 = k + (j - 1) /\ m - 1 \in 0..n /\ m \in 0..n /\ j \in 0..d
    BY <1>0
  <2>2. Begins(m - 1)
    BY <1>4, <2>1
  <2>. HIDE DEF m
  <2>3. Sent(m - 1) \in Seq(Seq(Pair)) /\ Sent(m) \in Seq(Seq(Pair)) /\ Message(m) \in Seq(Pair)
        /\ Len(Sent(m - 1)) \in Nat /\ Len(Sent(k)) \in Nat
    BY <1>1, <1>2, <2>1, MessageIs
  <2>4. /\ Len(Sent(m - 1)) <= Len(Sent(m))
        /\ \A p \in 1..Len(Sent(m - 1)) : Sent(m)[p] = Sent(m - 1)[p]
    <3>1. CASE m \in Packets
      <4>1. Sent(m) = Append(Sent(m-1), Message(m))
        BY <2>1, <3>1, SentStep, Zenon
      <4>2. /\ Len(Append(Sent(m-1), Message(m))) = Len(Sent(m-1)) + 1
            /\ \A p \in 1..Len(Sent(m - 1)) : Append(Sent(m-1), Message(m))[p] = Sent(m-1)[p]
        <5>. HIDE DEF Pair
        <5>. QED BY <2>3, AppendFacts
      <4>3. Len(Sent(m-1)) <= Len(Sent(m-1)) + 1
        BY <2>3
      <4>. QED BY <4>1, <4>2, <4>3, Zenon
    <3>2. CASE m \in Answers
      <4>1. Sent(m) = Sent(m-1)
        BY <2>1, <3>2, SentStep, Zenon
      <4>2. Len(Sent(m-1)) <= Len(Sent(m-1))
        BY <2>3
      <4>. QED BY <4>1, <4>2, Zenon
    <3>. QED BY <2>1, <3>1, <3>2, MessageFacts
  <2>5. Len(Sent(m)) \in Nat
    BY <1>2, <2>1
  <2>6. Len(Sent(k)) <= Len(Sent(m))
    BY <2>2, <2>3, <2>4, <2>5
  <2>7. \A p \in 1..Len(Sent(k)) : p \in 1..Len(Sent(m - 1))
    BY <2>2, <2>3
  <2>8. Begins(m)
    BY <2>2, <2>4, <2>6, <2>7, Zenon
  <2>. HIDE DEF Begins, d
  <2>. QED BY <2>1, <2>8 DEF m
<1>5. T = 0..d
  <2>. HIDE DEF T, d
  <2>. QED BY <1>0, <1>3, <1>4, UptoInduction
<1>6. Begins(n)
  <2>1. d \in 0..d /\ k + d = n
    BY <1>0
  <2>2. Begins(k + d)
    <3>. HIDE DEF Begins, d, n
    <3>. QED BY <1>5, <2>1
  <2>. HIDE DEF Begins, d
  <2>. QED BY <2>1, <2>2
<1>7. SubSeq(Sent(k), 1, Len(Sent(k))) = SubSeq(Sent(n), 1, Len(Sent(k)))
  <2>. DEFINE x == Sent(k)
              y == Sent(n)
              F == Seq(Pair)
  <2>1. x \in Seq(F) /\ y \in Seq(F) /\ Len(x) \in Nat /\ Len(y) \in Nat
        /\ Len(x) <= Len(y) /\ \A j \in 1..Len(x) : x[j] = y[j]
    <3>1. n \in 0..n
      BY <1>0
    <3>. QED BY <1>1, <1>2, <1>6, <3>1
  <2>. HIDE DEF x, y, F
  <2>2. 1 \in 1..Len(x)+1 /\ 1 \in 1..Len(y)+1 /\ Len(x) \in 1-1..Len(x) /\ Len(x) \in 1-1..Len(y)
    BY <2>1
  <2>3. /\ SubSeq(x, 1, Len(x)) \in Seq(F) /\ Len(SubSeq(x, 1, Len(x))) = Len(x) - 1 + 1
        /\ \A j \in 1..Len(x) - 1 + 1 : SubSeq(x, 1, Len(x))[j] = x[1 + j - 1]
    BY <2>1, <2>2, PieceFacts
  <2>4. /\ SubSeq(y, 1, Len(x)) \in Seq(F) /\ Len(SubSeq(y, 1, Len(x))) = Len(x) - 1 + 1
        /\ \A j \in 1..Len(x) - 1 + 1 : SubSeq(y, 1, Len(x))[j] = y[1 + j - 1]
    BY <2>1, <2>2, PieceFacts
  <2>5. \A j \in 1..Len(x) - 1 + 1 : 1 + j - 1 \in 1..Len(x)
    BY <2>1
  <2>6. \A j \in 1..Len(x) - 1 + 1 : SubSeq(x, 1, Len(x))[j] = SubSeq(y, 1, Len(x))[j]
    BY <2>1, <2>3, <2>4, <2>5, Zenon
  <2>7. SubSeq(x, 1, Len(x)) = SubSeq(y, 1, Len(x))
    BY <2>3, <2>4, <2>6, SameElements, ZenonT(90)
  <2>. QED BY <2>7 DEF x, y
<1>. QED BY <1>6, <1>7 DEF IsPrefix

---------------------------------------------------------------------------
(* The size that a whole header gives is the packet's.                     *)
LEMMA HeaderTotals ==
  ASSUME stream \in Streams, NEW s \in Seq(Pair), NEW i \in Packets,
         Len(s) >= HeaderSize, \A k \in 1..HeaderSize : s[k] = <<i, k>>
  PROVE  Totals(s) = {stream[i].len}
<1>1. HeaderSize \in Nat /\ HeaderSize >= 1 /\ Len(s) \in Nat
  <2>. HIDE DEF Pair
  <2>. QED BY SizeAssumption
<1>2. ASSUME NEW j \in Packets
      PROVE  /\ SubSeq(s, 1, HeaderSize) \in Seq(Pair)
             /\ SubSeq(Message(j), 1, HeaderSize) \in Seq(Pair)
             /\ Len(SubSeq(s, 1, HeaderSize)) = HeaderSize
             /\ Len(SubSeq(Message(j), 1, HeaderSize)) = HeaderSize
             /\ \A k \in 1..HeaderSize :
                  /\ SubSeq(s, 1, HeaderSize)[k] = <<i, k>>
                  /\ SubSeq(Message(j), 1, HeaderSize)[k] = <<j, k>>
  <2>1. j \in 1..Len(stream) /\ stream[j].len \in Nat /\ stream[j].len >= HeaderSize
    BY MessageFacts
  <2>2. /\ Message(j) \in Seq(Pair) /\ Len(Message(j)) = stream[j].len
        /\ \A k \in 1..stream[j].len : Message(j)[k] = <<j, k>>
    BY <2>1, MessageIs
  <2>3. /\ 1 \in 1..Len(s)+1 /\ HeaderSize \in 1-1..Len(s)
        /\ 1 \in 1..Len(Message(j))+1 /\ HeaderSize \in 1-1..Len(Message(j))
        /\ HeaderSize - 1 + 1 = HeaderSize
    BY <1>1, <2>1, <2>2
  <2>4. \A k \in 1..HeaderSize : 1 + k - 1 = k /\ k \in 1..stream[j].len
    BY <1>1, <2>1
  <2>. HIDE DEF Pair
  <2>5. /\ SubSeq(s, 1, HeaderSize) \in Seq(Pair)
        /\ Len(SubSeq(s, 1, HeaderSize)) = HeaderSize - 1 + 1
        /\ \A k \in 1..HeaderSize - 1 + 1 : SubSeq(s, 1, HeaderSize)[k] = s[1 + k - 1]
    BY <2>3, PieceFacts
  <2>6. /\ SubSeq(Message(j), 1, HeaderSize) \in Seq(Pair)
        /\ Len(SubSeq(Message(j), 1, HeaderSize)) = HeaderSize - 1 + 1
        /\ \A k \in 1..HeaderSize - 1 + 1 :
             SubSeq(Message(j), 1, HeaderSize)[k] = Message(j)[1 + k - 1]
    BY <2>2, <2>3, PieceFacts
  <2>7. ASSUME NEW k \in 1..HeaderSize
        PROVE  /\ SubSeq(s, 1, HeaderSize)[k] = <<i, k>>
               /\ SubSeq(Message(j), 1, HeaderSize)[k] = <<j, k>>
    BY <2>2, <2>3, <2>4, <2>5, <2>6, Zenon
  <2>. QED BY <2>3, <2>5, <2>6, <2>7, Zenon
<1>3. IsHeader(s, i)
  <2>. DEFINE x == SubSeq(s, 1, HeaderSize)
              y == SubSeq(Message(i), 1, HeaderSize)
  <2>1. /\ x \in Seq(Pair) /\ y \in Seq(Pair) /\ Len(x) = HeaderSize /\ Len(y) = HeaderSize
        /\ \A k \in 1..HeaderSize : x[k] = y[k]
    BY <1>2, Zenon
  <2>. HIDE DEF x, y
  <2>2. x = y
    BY <2>1, SameElements, Zenon
  <2>. QED BY <2>2, Zenon DEF IsHeader, x, y
<1>4. ASSUME NEW j \in Packets, IsHeader(s, j) PROVE j = i
  <2>1. SubSeq(s, 1, HeaderSize) = SubSeq(Message(j), 1, HeaderSize)
    BY <1>4, Zenon DEF IsHeader
  <2>2. 1 \in 1..HeaderSize
    BY <1>1
  <2>3. <<i, 1>> = <<j, 1>>
    BY <1>2, <2>1, <2>2, ZenonT(90)
  <2>. QED BY <2>3
<1>5. {j \in Packets : IsHeader(s, j)} = {i}
  BY <1>3, <1>4, Zenon
<1>6. Totals(s) = {stream[k].len : k \in {j \in Packets : IsHeader(s, j)}}
  BY <1>3, Zenon DEF Totals
<1>7. {stream[k].len : k \in {i}} = {stream[i].len}
  OBVIOUS
<1>. QED BY <1>5, <1>6, <1>7, Zenon

(* What stands in the header's place is a number in any case.              *)
LEMMA TotalsAreSizes ==
  ASSUME stream \in Streams, Len(stream) > 0, NEW s, NEW total \in Totals(s)
  PROVE  total \in Nat
<1>. DEFINE n == Len(stream)
            T == {m \in 0..n : m = 0 \/ \E i \in 1..m : \A j \in 1..m : stream[j].len <= stream[i].len}
<1>1. n \in Nat /\ DOMAIN stream = 1..n /\ \A i \in 1..n : stream[i].len \in Nat
  BY MessageFacts
<1>2. T \in SUBSET (0..n) /\ 0 \in T
  BY <1>1
<1>3. ASSUME NEW m \in 1..n, m - 1 \in T PROVE m \in T
  <2>1. m \in 0..n /\ m \in 1..m /\ \A j \in 1..m : j = m \/ j \in 1..m-1
    BY <1>1
  <2>2. m - 1 = 0 \/ \E i \in 1..m-1 : \A j \in 1..m-1 : stream[j].len <= stream[i].len
    BY <1>3
  <2>3. CASE m - 1 = 0
    <3>1. \A j \in 1..m : j = m
      BY <2>1, <2>3
    <3>2. stream[m].len <= stream[m].len
      BY <1>1
    <3>3. \A j \in 1..m : stream[j].len <= stream[m].len
      BY <3>1, <3>2, Zenon
    <3>. QED BY <2>1, <3>3
  <2>4. ASSUME NEW i \in 1..m-1, \A j \in 1..m-1 : stream[j].len <= stream[i].len
        PROVE  m \in T
    <3>0. i \in 1..n /\ i \in 1..m
      BY <1>1
    <3>1. CASE stream[m].len <= stream[i].len
      <4>1. \A j \in 1..m : stream[j].len <= stream[i].len
        BY <2>1, <2>4, <3>1, Zenon
      <4>. QED BY <2>1, <3>0, <4>1
    <3>2. CASE ~(stream[m].len <= stream[i].len)
      <4>1. \A j \in 1..m-1 : j \in 1..n
        BY <1>1
      <4>2. \A j \in 1..m-1 : stream[j].len <= stream[m].len
        BY <1>1, <2>4, <3>0, <3>2, <4>1
      <4>3. stream[m].len <= stream[m].len
        BY <1>1
      <4>4. \A j \in 1..m : stream[j].len <= stream[m].len
        BY <2>1, <4>2, <4>3, Zenon
      <4>. QED BY <2>1, <4>4
    <3>. QED BY <3>1, <3>2
  <2>. HIDE DEF T
  <2>. QED BY <2>2, <2>3, <2>4, Zenon
<1>4. T = 0..n
  <2>. HIDE DEF T, n
  <2>. QED BY <1>1, <1>2, <1>3, UptoInduction
<1>5. \E i \in 1..n : \A j \in 1..n : stream[j].len <= stream[i].len
  <2>1. n \in 0..n /\ n # 0
    BY <1>1
  <2>. QED BY <1>4, <2>1
<1>6. Largest \in Nat
  <2>. DEFINE L == {stream[i].len : i \in DOMAIN stream}
  <2>1. \E x \in L : \A i \in DOMAIN stream : stream[i].len <= x
    BY <1>1, <1>5
  <2>2. Largest \in L
    BY <2>1, Zenon DEF Largest
  <2>3. L \subseteq Nat
    BY <1>1
  <2>. QED BY <2>2, <2>3
<1>7. Packets \subseteq 1..n
  BY MessageFacts
<1>8. CASE \E i \in Packets : IsHeader(s, i)
  <2>1. \E k \in {j \in Packets : IsHeader(s, j)} : total = stream[k].len
    BY <1>8, Zenon DEF Totals
  <2>. HIDE DEF n
  <2>. QED BY <1>1, <1>7, <2>1, Zenon
<1>9. CASE ~ \E i \in Packets : IsHeader(s, i)
  <2>1. total \in HeaderSize..Largest
    BY <1>9, Zenon DEF Totals
  <2>. QED BY <1>6, <2>1, SizeAssumption
<1>. QED BY <1>8, <1>9

(* The run of text is what TextLen says it is.                             *)
LEMMA TextRun ==
  ASSUME rest \in Seq(Pair), rest # <<>>, ~Dollar(rest[1])
  PROVE  /\ TextLen \in 1..Len(rest)
         /\ \A j \in 1..TextLen : ~Dollar(rest[j])
         /\ TextLen = Len(rest) \/ Dollar(rest[TextLen + 1])
<1>. DEFINE T == {j \in 1..Len(rest) : Dollar(rest[j])}
            R(n) == /\ \A j \in 1..n : ~Dollar(rest[j])
                    /\ n = Len(rest) \/ Dollar(rest[n + 1])
<1>1. Len(rest) \in Nat \ {0}
  <2>. HIDE DEF Pair
  <2>. QED OBVIOUS
<1>2. \E n \in 1..Len(rest) : R(n)
  <2>1. CASE T = {}
    <3>1. Len(rest) \in 1..Len(rest) /\ R(Len(rest))
      BY <1>1, <2>1
    <3>. QED BY <3>1, Zenon
  <2>2. CASE T # {}
    <3>1. T \in SUBSET Nat
      BY <1>1
    <3>2. PICK m \in T : \A k \in T : m <= k
      BY <2>2, <3>1, LeastNat
    <3>3. m # 1
      BY <3>2
    <3>4. m - 1 \in 1..Len(rest) /\ (m - 1) + 1 = m
      BY <1>1, <3>2, <3>3
    <3>5. \A j \in 1..m-1 : ~Dollar(rest[j])
      <4>1. \A j \in 1..m-1 : j \in 1..Len(rest) /\ ~(m <= j)
        BY <1>1, <3>2
      <4>. QED BY <3>2, <4>1, Zenon
    <3>6. Dollar(rest[(m - 1) + 1])
      BY <3>2, <3>4, Zenon
    <3>7. R(m - 1)
      BY <3>5, <3>6, Zenon
    <3>. QED BY <3>4, <3>7, Zenon
  <2>. QED BY <2>1, <2>2
<1>3. TextLen \in 1..Len(rest) /\ R(TextLen)
  BY <1>2, Zenon DEF TextLen
<1>. QED BY <1>3, Zenon

---------------------------------------------------------------------------
(* How much of the stream has been received, and how much is behind ptr.   *)
Seen == Len(All) - Len(wire)
Done == Seen - Len(rest)

TypeInv ==
  /\ stream \in Streams
  /\ wire \in Seq(Pair) /\ kept \in Seq(Pair) /\ text \in Seq(Pair) /\ rest \in Seq(Pair)
  /\ handed \in Seq(Seq(Pair))
  /\ pc \in {"recv", "kept", "scan"}
  /\ pc # "recv" => Len(stream) > 0

(* What is not received yet and what is not looked at yet are the end of   *)
(* the stream; a pending run of text ends at a '$'.                        *)
Shape ==
  /\ Len(wire) + Len(rest) <= Len(All)
  /\ \A j \in 1..Len(wire) : wire[j] = All[Seen + j]
  /\ \A j \in 1..Len(rest) : rest[j] = All[Done + j]
  /\ pc = "recv" => rest = <<>>
  /\ text # <<>> => pc = "scan" /\ rest # <<>> /\ Dollar(rest[1])

StreamInv == TypeInv /\ Shape

LEMMA RestBytes ==
  ASSUME StreamInv
  PROVE  /\ Seen \in Nat /\ Done \in Nat /\ Done + Len(rest) = Seen /\ Seen <= Len(All)
         /\ Len(rest) \in Nat /\ Len(wire) \in Nat /\ Len(kept) \in Nat /\ Len(text) \in Nat
         /\ Len(All) \in Nat
         /\ \A j \in 1..Len(rest) :
              Done + (j - 1) \in 0..Len(All)-1 /\ rest[j] = At(Done + (j - 1))
         /\ rest # <<>> => /\ Done \in 0..Len(All)-1 /\ rest[1] = At(Done)
                           /\ Len(rest) >= 1
         /\ Seen >= 1 => Seen - 1 \in 0..Len(All)-1 /\ All[Seen] = At(Seen - 1)
<1>1. /\ Len(wire) \in Nat /\ Len(rest) \in Nat /\ Len(kept) \in Nat /\ Len(text) \in Nat
      /\ rest # <<>> => Len(rest) >= 1
  <2>. HIDE DEF Pair
  <2>. QED BY DEF StreamInv, TypeInv
<1>2. Len(All) \in Nat /\ Len(wire) + Len(rest) <= Len(All)
  BY AtLinks DEF StreamInv, TypeInv, Shape
<1>3. Seen \in Nat /\ Done \in Nat /\ Done + Len(rest) = Seen /\ Seen <= Len(All)
  BY <1>1, <1>2 DEF Seen, Done
<1>4. ASSUME NEW j \in 1..Len(rest)
      PROVE  Done + (j - 1) \in 0..Len(All)-1 /\ rest[j] = At(Done + (j - 1))
  <2>1. Done + (j - 1) \in 0..Len(All)-1 /\ (Done + (j - 1)) + 1 = Done + j
    BY <1>1, <1>2, <1>3
  <2>2. At(Done + (j - 1)) = All[(Done + (j - 1)) + 1]
    BY <2>1, AtLinks, Zenon DEF StreamInv, TypeInv
  <2>3. rest[j] = All[Done + j]
    BY Zenon DEF StreamInv, Shape
  <2>. QED BY <2>1, <2>2, <2>3, Zenon
<1>5. rest # <<>> => /\ Done \in 0..Len(All)-1 /\ rest[1] = At(Done)
  <2>. SUFFICES ASSUME rest # <<>> PROVE Done \in 0..Len(All)-1 /\ rest[1] = At(Done)
    OBVIOUS
  <2>1. 1 \in 1..Len(rest) /\ Done + (1 - 1) = Done
    BY <1>1, <1>3
  <2>. QED BY <1>4, <2>1, Zenon
<1>6. Seen >= 1 => Seen - 1 \in 0..Len(All)-1 /\ All[Seen] = At(Seen - 1)
  <2>. SUFFICES ASSUME Seen >= 1 PROVE Seen - 1 \in 0..Len(All)-1 /\ All[Seen] = At(Seen - 1)
    OBVIOUS
  <2>1. Seen - 1 \in 0..Len(All)-1 /\ (Seen - 1) + 1 = Seen
    BY <1>2, <1>3
  <2>2. At(Seen - 1) = All[(Seen - 1) + 1]
    BY <2>1, AtLinks, Zenon DEF StreamInv, TypeInv
  <2>. QED BY <2>1, <2>2, Zenon
<1>. QED BY <1>1, <1>2, <1>3, <1>4, <1>5, <1>6, Zenon

(* A step that looks at the first m bytes of the rest.                     *)
LEMMA RestDrops ==
  ASSUME StreamInv, stream' = stream, wire' = wire,
         NEW m \in 0..Len(rest), rest' = SubSeq(rest, m + 1, Len(rest))
  PROVE  /\ rest' \in Seq(Pair) /\ Len(rest') = Len(rest) - m
         /\ Seen' = Seen /\ Done' = Done + m
         /\ \A j \in 1..Len(rest') : rest'[j] = rest[m + j] /\ m + j \in 1..Len(rest)
         /\ Len(wire') + Len(rest') <= Len(All')
         /\ \A j \in 1..Len(wire') : wire'[j] = All'[Seen' + j]
         /\ \A j \in 1..Len(rest') : rest'[j] = All'[Done' + j]
<1>0. All' = All
  BY StreamStays
<1>1. /\ Seen \in Nat /\ Done \in Nat /\ Len(rest) \in Nat /\ Len(wire) \in Nat
      /\ Len(All) \in Nat
  BY RestBytes
<1>2. rest \in Seq(Pair)
  BY DEF StreamInv, TypeInv
<1>3. m + 1 \in 1..Len(rest)+1 /\ Len(rest) \in (m + 1)-1..Len(rest)
      /\ Len(rest) - (m + 1) + 1 = Len(rest) - m
  BY <1>1, SMTT(60)
<1>4. /\ rest' \in Seq(Pair) /\ Len(rest') = Len(rest) - (m + 1) + 1
      /\ \A j \in 1..Len(rest) - (m + 1) + 1 : rest'[j] = rest[(m + 1) + j - 1]
  <2>. HIDE DEF Pair
  <2>. QED BY <1>2, <1>3, PieceFacts
<1>5. Len(rest') = Len(rest) - m
  BY <1>3, <1>4, Zenon
<1>6. \A j \in 1..Len(rest') : (m + 1) + j - 1 = m + j /\ m + j \in 1..Len(rest)
  BY <1>1, <1>5
<1>7. \A j \in 1..Len(rest') : rest'[j] = rest[m + j] /\ m + j \in 1..Len(rest)
  BY <1>4, <1>6, Zenon
<1>8. Seen' = Seen
  BY <1>0 DEF Seen
<1>9. Done' = Done + m
  <2>1. Done' = Seen' - Len(rest')
    BY Zenon DEF Done
  <2>2. Done = Seen - Len(rest)
    BY Zenon DEF Done
  <2>3. Seen' \in Nat
    BY <1>1, <1>8, Zenon
  <2>. QED BY <1>1, <1>5, <1>8, <2>1, <2>2, <2>3
<1>10. Len(wire') + Len(rest') <= Len(All')
  <2>1. Len(wire) + Len(rest) <= Len(All)
    BY DEF StreamInv, Shape
  <2>. QED BY <1>0, <1>1, <1>5, <2>1
<1>11. \A j \in 1..Len(wire') : wire'[j] = All'[Seen' + j]
  BY <1>0, <1>8, Zenon DEF StreamInv, Shape
<1>12. ASSUME NEW j \in 1..Len(rest') PROVE rest'[j] = All'[Done' + j]
  <2>1. rest'[j] = rest[m + j] /\ m + j \in 1..Len(rest)
    BY <1>7
  <2>2. rest[m + j] = All[Done + (m + j)]
    BY <2>1, Zenon DEF StreamInv, Shape
  <2>3. Done + (m + j) = Done' + j
    BY <1>1, <1>5, <1>9
  <2>. QED BY <1>0, <2>1, <2>2, <2>3, Zenon
<1>. QED BY <1>4, <1>5, <1>7, <1>8, <1>9, <1>10, <1>11, <1>12, Zenon

(* A step that leaves nothing of it looks at all of it.                    *)
LEMMA RestEnds ==
  ASSUME StreamInv, rest' = <<>>
  PROVE  Len(rest) \in 0..Len(rest) /\ rest' = SubSeq(rest, Len(rest) + 1, Len(rest))
<1>1. rest \in Seq(Pair) /\ Len(rest) \in Nat
  BY RestBytes DEF StreamInv, TypeInv
<1>2. SubSeq(rest, Len(rest) + 1, Len(rest)) = <<>>
  <2>1. Len(rest) + 1 \in Int /\ Len(rest) \in Int /\ Len(rest) < Len(rest) + 1
    BY <1>1
  <2>. QED BY <2>1, SubSeqEmpty
<1>. QED BY <1>1, <1>2

(* The first m bytes of the rest.                                          *)
LEMMA FrontIs ==
  ASSUME StreamInv, NEW m \in 0..Len(rest)
  PROVE  /\ SubSeq(rest, 1, m) \in Seq(Pair) /\ Len(SubSeq(rest, 1, m)) = m
         /\ \A j \in 1..m : SubSeq(rest, 1, m)[j] = rest[j] /\ j \in 1..Len(rest)
<1>1. rest \in Seq(Pair) /\ Len(rest) \in Nat
  BY RestBytes DEF StreamInv, TypeInv
<1>2. 1 \in 1..Len(rest)+1 /\ m \in 1-1..Len(rest) /\ m - 1 + 1 = m
      /\ \A j \in 1..m : 1 + j - 1 = j /\ j \in 1..Len(rest)
  BY <1>1
<1>3. /\ SubSeq(rest, 1, m) \in Seq(Pair) /\ Len(SubSeq(rest, 1, m)) = m - 1 + 1
      /\ \A j \in 1..m - 1 + 1 : SubSeq(rest, 1, m)[j] = rest[1 + j - 1]
  <2>. HIDE DEF Pair
  <2>. QED BY <1>1, <1>2, PieceFacts
<1>. QED BY <1>2, <1>3, Zenon

---------------------------------------------------------------------------
LEMMA StreamInit == Init => StreamInv
<1>. SUFFICES ASSUME Init PROVE StreamInv
  OBVIOUS
<1>1. stream \in Streams
  BY DEF Init
<1>2. wire = All
  <2>1. DOMAIN stream = 1..Len(stream)
    BY <1>1, MessageFacts
  <2>. QED BY <2>1, Zenon DEF Init, All, Joined
<1>3. All \in Seq(Pair) /\ Len(All) \in Nat
  BY <1>1, AtLinks
<1>4. /\ kept = <<>> /\ text = <<>> /\ rest = <<>> /\ handed = <<>> /\ pc = "recv"
  BY DEF Init
<1>5. TypeInv
  <2>. HIDE DEF Pair
  <2>. QED BY <1>1, <1>2, <1>3, <1>4 DEF TypeInv
<1>6. Shape
  <2>1. Len(rest) = 0
    BY <1>4
  <2>2. Seen = 0
    BY <1>2, <1>3 DEF Seen
  <2>3. \A j \in 1..Len(wire) : wire[j] = All[Seen + j]
    BY <1>2, <1>3, <2>2
  <2>4. Len(wire) + Len(rest) <= Len(All)
    BY <1>2, <1>3, <2>1
  <2>5. \A j \in 1..Len(rest) : rest[j] = All[Done + j]
    BY <2>1
  <2>. QED BY <1>4, <2>3, <2>4, <2>5, Zenon DEF Shape
<1>. QED BY <1>5, <1>6 DEF StreamInv

LEMMA StreamKeeps ==
  ASSUME StreamInv, pc # "recv", stream' = stream, wire' = wire,
         NEW m \in 0..Len(rest), rest' = SubSeq(rest, m + 1, Len(rest)),
         kept' \in Seq(Pair), text' \in Seq(Pair), handed' \in Seq(Seq(Pair)),
         pc' \in {"recv", "kept", "scan"}, pc' = "recv" => rest' = <<>>,
         text' # <<>> => pc' = "scan" /\ rest' # <<>> /\ Dollar(rest'[1])
  PROVE  StreamInv'
<1>1. TypeInv'
  <2>1. rest' \in Seq(Pair)
    BY RestDrops
  <2>2. stream \in Streams /\ wire \in Seq(Pair) /\ Len(stream) > 0
    BY DEF StreamInv, TypeInv
  <2>. HIDE DEF Pair
  <2>. QED BY <2>1, <2>2 DEF TypeInv, Pair
<1>2. Shape'
  <2>1. /\ Len(wire') + Len(rest') <= Len(All')
        /\ \A j \in 1..Len(wire') : wire'[j] = All'[Seen' + j]
        /\ \A j \in 1..Len(rest') : rest'[j] = All'[Done' + j]
    BY RestDrops
  <2>2. text' # <<>> => Dollar(rest[1])'
    BY StreamStays DEF Dollar
  <2>. QED BY <2>1, <2>2, Zenon DEF Shape
<1>. QED BY <1>1, <1>2 DEF StreamInv

LEMMA StreamRecv ==
  ASSUME StreamInv, NEW n \in 1..Len(wire), Recv(n)
  PROVE  /\ StreamInv'
         /\ stream' = stream /\ kept' = kept /\ handed' = handed /\ text' = <<>> /\ rest = <<>>
         /\ pc' = "kept" /\ cuts' = cuts \cup CutBy(n) /\ text = <<>>
         /\ Done' = Done /\ Seen' = Seen + n /\ Done = Seen
         /\ Len(rest') = n /\ n \in Nat
         /\ \A j \in 1..n : rest'[j] = wire[j]
         /\ wire[n] = All[Seen + n] /\ Seen + n \in 1..Len(All)
<1>1. /\ Seen \in Nat /\ Len(wire) \in Nat /\ Len(All) \in Nat /\ Done + Len(rest) = Seen
      /\ Done \in Nat
  BY RestBytes
<1>2. /\ pc = "recv" /\ stream' = stream /\ kept' = kept /\ handed' = handed /\ text' = <<>>
      /\ pc' = "kept" /\ cuts' = cuts \cup CutBy(n)
      /\ rest' = SubSeq(wire, 1, n) /\ wire' = SubSeq(wire, n + 1, Len(wire))
  BY DEF Recv
<1>3. rest = <<>> /\ Len(rest) = 0 /\ text = <<>>
  <2>1. rest = <<>> /\ text = <<>>
    BY <1>2 DEF StreamInv, Shape
  <2>. QED BY <2>1
<1>4. wire \in Seq(Pair)
  BY DEF StreamInv, TypeInv
<1>5. /\ n \in Nat /\ n >= 1
      /\ 1 \in 1..Len(wire)+1 /\ n \in 1-1..Len(wire) /\ n - 1 + 1 = n
      /\ n + 1 \in 1..Len(wire)+1 /\ Len(wire) \in (n+1)-1..Len(wire)
      /\ Len(wire) - (n + 1) + 1 = Len(wire) - n
  BY <1>1
<1>6. /\ rest' \in Seq(Pair) /\ Len(rest') = n
      /\ \A j \in 1..n : rest'[j] = wire[j]
  <2>. HIDE DEF Pair
  <2>1. /\ rest' \in Seq(Pair) /\ Len(rest') = n - 1 + 1
        /\ \A j \in 1..n - 1 + 1 : rest'[j] = wire[1 + j - 1]
    BY <1>2, <1>4, <1>5, PieceFacts, SMTT(60)
  <2>2. \A j \in 1..n : 1 + j - 1 = j
    BY <1>5
  <2>. QED BY <1>5, <2>1, <2>2, Zenon
<1>7. /\ wire' \in Seq(Pair) /\ Len(wire') = Len(wire) - n
      /\ \A j \in 1..Len(wire') : wire'[j] = wire[n + j] /\ n + j \in 1..Len(wire)
  <2>. HIDE DEF Pair
  <2>1. /\ wire' \in Seq(Pair) /\ Len(wire') = Len(wire) - (n + 1) + 1
        /\ \A j \in 1..Len(wire) - (n + 1) + 1 : wire'[j] = wire[(n + 1) + j - 1]
    BY <1>2, <1>4, <1>5, PieceFacts, ZenonT(90)
  <2>2. Len(wire') = Len(wire) - n
    BY <1>5, <2>1, Zenon
  <2>3. \A j \in 1..Len(wire') : (n + 1) + j - 1 = n + j /\ n + j \in 1..Len(wire)
    BY <1>1, <1>5, <2>2
  <2>. QED BY <2>1, <2>2, <2>3, Zenon
<1>8. All' = All
  BY <1>2, StreamStays
<1>9. Seen = Len(All) - Len(wire) /\ Seen' = Len(All) - Len(wire') /\ Done' = Seen' - Len(rest')
  BY <1>8, Zenon DEF Seen, Done
<1>10. Seen' = Seen + n /\ Done' = Seen /\ Done = Seen
  BY <1>1, <1>3, <1>5, <1>6, <1>7, <1>9
<1>11. \A j \in 1..Len(wire) : wire[j] = All[Seen + j]
  BY DEF StreamInv, Shape
<1>12. \A j \in 1..Len(wire') : wire'[j] = All'[Seen' + j]
  <2>1. \A j \in 1..Len(wire') : Seen + (n + j) = Seen' + j
    BY <1>1, <1>5, <1>7, <1>10, SMTT(60)
  <2>. QED BY <1>7, <1>8, <1>11, <2>1, Zenon
<1>13. \A j \in 1..Len(rest') : rest'[j] = All'[Done' + j]
  <2>1. \A j \in 1..n : j \in 1..Len(wire)
    BY <1>1, <1>5
  <2>. QED BY <1>6, <1>8, <1>10, <1>11, <2>1, Zenon
<1>14. Len(wire') + Len(rest') <= Len(All')
  BY <1>1, <1>5, <1>6, <1>7, <1>8, <1>9
<1>15. Shape'
  BY <1>2, <1>12, <1>13, <1>14 DEF Shape
<1>16. Len(All) > 0 /\ Seen + n \in 1..Len(All)
  BY <1>1, <1>5, <1>9
<1>17. TypeInv'
  <2>1. Len(stream) > 0 /\ stream \in Streams /\ kept \in Seq(Pair) /\ handed \in Seq(Seq(Pair))
    BY <1>16, AtLinks DEF StreamInv, TypeInv
  <2>2. <<>> \in Seq(Pair)
    OBVIOUS
  <2>. HIDE DEF Pair
  <2>. QED BY <1>2, <1>6, <1>7, <2>1, <2>2 DEF TypeInv, Pair
<1>18. wire[n] = All[Seen + n]
  BY <1>11, Zenon
<1>. QED BY <1>2, <1>3, <1>5, <1>6, <1>10, <1>15, <1>16, <1>17, <1>18, Zenon DEF StreamInv

LEMMA StreamStep == StreamInv /\ [Next]_vars => StreamInv'
<1>. SUFFICES ASSUME StreamInv, [Next]_vars PROVE StreamInv'
  OBVIOUS
<1>1. /\ stream \in Streams /\ kept \in Seq(Pair) /\ text \in Seq(Pair) /\ rest \in Seq(Pair)
      /\ handed \in Seq(Seq(Pair)) /\ <<>> \in Seq(Pair)
      /\ pc \in {"recv", "kept", "scan"}
      /\ pc # "recv" => Len(stream) > 0
      /\ pc = "recv" => rest = <<>>
      /\ text # <<>> => pc = "scan" /\ rest # <<>> /\ Dollar(rest[1])
  BY DEF StreamInv, TypeInv, Shape
<1>2. Len(rest) \in Nat /\ Len(kept) \in Nat
  BY RestBytes
<1>3. \A x \in Seq(Pair) : Append(handed, x) \in Seq(Seq(Pair))
  <2>. HIDE DEF Pair
  <2>. QED BY <1>1
<1>4. \A x \in Seq(Pair), y \in Seq(Pair) : x \o y \in Seq(Pair)
  <2>. HIDE DEF Pair
  <2>. QED BY ConcatFacts
<1>5. CASE \E n \in 1..Len(wire) : Recv(n)
  BY <1>5, StreamRecv
<1>6. CASE CompleteKept
  <2>1. /\ pc = "kept" /\ stream' = stream /\ wire' = wire /\ text' = text /\ text = <<>>
    BY <1>1, <1>6 DEF CompleteKept
  <2>2. PICK total \in Totals(kept) :
          IF Needs(total, Len(rest))
          THEN LET m == total - Len(kept)
               IN  /\ handed' = Append(handed, kept \o SubSeq(rest, 1, m))
                   /\ rest' = SubSeq(rest, m + 1, Len(rest))
                   /\ kept' = <<>>
                   /\ pc' = "scan"
          ELSE /\ kept' = kept \o rest /\ rest' = <<>>
               /\ pc' = "recv"
               /\ UNCHANGED handed
    BY <1>6 DEF CompleteKept
  <2>3. total \in Nat
    BY <1>1, <2>1, TotalsAreSizes
  <2>4. CASE Needs(total, Len(rest))
    <3>. DEFINE m == total - Len(kept)
    <3>1. m \in 0..Len(rest)
      BY <1>2, <2>3, <2>4 DEF Needs
    <3>2. /\ handed' = Append(handed, kept \o SubSeq(rest, 1, m))
          /\ rest' = SubSeq(rest, m + 1, Len(rest)) /\ kept' = <<>> /\ pc' = "scan"
      BY <2>2, <2>4
    <3>. HIDE DEF m
    <3>3. SubSeq(rest, 1, m) \in Seq(Pair)
      BY <3>1, FrontIs, Zenon
    <3>4. handed' \in Seq(Seq(Pair))
      BY <1>1, <1>3, <1>4, <3>2, <3>3, Zenon
    <3>5. kept' \in Seq(Pair) /\ text' \in Seq(Pair) /\ text' = <<>>
          /\ pc' \in {"recv", "kept", "scan"} /\ pc' # "recv" /\ pc # "recv"
      BY <1>1, <2>1, <3>2
    <3>. QED BY <2>1, <3>1, <3>2, <3>4, <3>5, StreamKeeps, Zenon
  <2>5. CASE ~Needs(total, Len(rest))
    <3>1. kept' = kept \o rest /\ rest' = <<>> /\ pc' = "recv" /\ handed' = handed
      BY <2>2, <2>5
    <3>2. Len(rest) \in 0..Len(rest) /\ rest' = SubSeq(rest, Len(rest) + 1, Len(rest))
      BY <3>1, RestEnds
    <3>3. kept' \in Seq(Pair) /\ text' \in Seq(Pair) /\ text' = <<>>
          /\ handed' \in Seq(Seq(Pair)) /\ pc' \in {"recv", "kept", "scan"} /\ pc # "recv"
      BY <1>1, <1>4, <2>1, <3>1
    <3>. QED BY <2>1, <3>1, <3>2, <3>3, StreamKeeps, Zenon
  <2>. QED BY <2>4, <2>5
<1>7. CASE NothingKept \/ ScanEnds \/ UNCHANGED vars
  <2>1. /\ stream' = stream /\ wire' = wire /\ kept' = kept /\ text' = text /\ rest' = rest
        /\ handed' = handed
    BY <1>7 DEF NothingKept, ScanEnds, vars
  <2>2. All' = All
    BY <2>1, StreamStays
  <2>3. Seen' = Seen /\ Done' = Done
    BY <2>1, <2>2, Zenon DEF Seen, Done
  <2>4. pc' = pc \/ (pc = "kept" /\ pc' = "scan") \/ (pc = "scan" /\ pc' = "recv" /\ rest = <<>>)
    BY <1>7 DEF NothingKept, ScanEnds, vars
  <2>5. TypeInv'
    <3>1. wire \in Seq(Pair)
      BY DEF StreamInv, TypeInv
    <3>2. pc' \in {"recv", "kept", "scan"} /\ (pc' # "recv" => pc # "recv")
      <4>1. pc \in {"recv", "kept", "scan"}
        BY <1>1
      <4>. QED BY <2>4, <4>1
    <3>. HIDE DEF Pair
    <3>. QED BY <1>1, <2>1, <3>1, <3>2 DEF TypeInv, Pair
  <2>6. Shape'
    <3>1. /\ Len(wire) + Len(rest) <= Len(All)
          /\ \A j \in 1..Len(wire) : wire[j] = All[Seen + j]
          /\ \A j \in 1..Len(rest) : rest[j] = All[Done + j]
      BY Zenon DEF StreamInv, Shape
    <3>2. pc' = "recv" => rest = <<>>
      BY <1>1, <2>4, Zenon
    <3>3. text # <<>> => pc' = "scan"
      <4>1. text # <<>> => pc = "scan" /\ rest # <<>>
        BY <1>1
      <4>. QED BY <2>4, <4>1
    <3>4. Dollar(rest[1])' <=> Dollar(rest[1])
      BY <2>1 DEF Dollar
    <3>. QED BY <1>1, <2>1, <2>2, <2>3, <3>1, <3>2, <3>3, <3>4, Zenon DEF Shape
  <2>. QED BY <2>5, <2>6 DEF StreamInv
<1>8. CASE ScanText
  <2>. DEFINE run == SubSeq(rest, 1, TextLen)
              all == kept \o run
  <2>1. /\ pc = "scan" /\ rest # <<>> /\ ~Dollar(rest[1])
        /\ stream' = stream /\ wire' = wire /\ pc' = "scan"
        /\ rest' = SubSeq(rest, TextLen + 1, Len(rest))
    BY <1>8 DEF ScanText
  <2>2. /\ TextLen \in 1..Len(rest)
        /\ TextLen = Len(rest) \/ Dollar(rest[TextLen + 1])
    BY <1>1, <2>1, TextRun
  <2>3. TextLen \in 0..Len(rest)
    BY <2>2
  <2>4. run \in Seq(Pair) /\ all \in Seq(Pair)
    BY <1>1, <1>4, <2>3, FrontIs, Zenon
  <2>5. [j \in 1..TextLen |-> Garbage] \in Seq(Pair)
    <3>1. Garbage \in Pair /\ TextLen \in Nat
      BY <1>2, <2>3 DEF Garbage, Pair
    <3>. HIDE DEF Pair, Garbage
    <3>. QED BY <3>1
  <2>6. \/ TextLen < Len(rest) /\ text' = run /\ kept' = kept /\ handed' = handed
        \/ handed' = Append(handed, all) /\ kept' = <<>> /\ text' = <<>>
        \/ kept' = all \o [j \in 1..TextLen |-> Garbage] /\ text' = <<>> /\ handed' = handed
    BY <1>8 DEF ScanText
  <2>. HIDE DEF run, all
  <2>7. kept' \in Seq(Pair) /\ text' \in Seq(Pair) /\ handed' \in Seq(Seq(Pair))
    BY <1>1, <1>3, <1>4, <2>4, <2>5, <2>6, Zenon
  <2>8. text' # <<>> => rest' # <<>> /\ Dollar(rest'[1])
    <3>. SUFFICES ASSUME text' # <<>> PROVE rest' # <<>> /\ Dollar(rest'[1])
      OBVIOUS
    <3>1. TextLen < Len(rest)
      BY <2>6, Zenon
    <3>2. Len(rest') = Len(rest) - TextLen /\ \A j \in 1..Len(rest') : rest'[j] = rest[TextLen + j]
      BY <2>1, <2>3, RestDrops, Zenon
    <3>3. 1 \in 1..Len(rest') /\ Len(rest') # 0
      BY <1>2, <2>2, <3>1, <3>2
    <3>4. rest' # <<>>
      BY <3>3
    <3>5. TextLen # Len(rest)
      BY <1>2, <2>2, <3>1
    <3>. QED BY <2>2, <3>2, <3>3, <3>4, <3>5, Zenon
  <2>9. pc' \in {"recv", "kept", "scan"} /\ pc' # "recv" /\ pc # "recv"
    BY <2>1
  <2>. QED BY <2>1, <2>3, <2>7, <2>8, <2>9, StreamKeeps, Zenon
<1>9. CASE EndText
  <2>1. /\ pc = "scan" /\ pc' = "scan" /\ stream' = stream /\ wire' = wire /\ rest' = rest
        /\ handed' = Append(handed, kept \o text) /\ kept' = <<>> /\ text' = <<>>
    BY <1>9 DEF EndText
  <2>2. 0 \in 0..Len(rest) /\ rest' = SubSeq(rest, 0 + 1, Len(rest))
    <3>1. SubSeq(rest, 1, Len(rest)) = rest
      <4>. HIDE DEF Pair
      <4>. QED BY <1>1
    <3>. QED BY <1>2, <2>1, <3>1
  <2>3. kept' \in Seq(Pair) /\ text' \in Seq(Pair) /\ handed' \in Seq(Seq(Pair))
    BY <1>1, <1>3, <1>4, <2>1, Zenon
  <2>4. pc' \in {"recv", "kept", "scan"} /\ pc' # "recv" /\ pc # "recv"
    BY <2>1
  <2>. QED BY <2>1, <2>2, <2>3, <2>4, StreamKeeps, Zenon
<1>10. CASE ScanPacket
  <2>1. /\ pc = "scan" /\ pc' = "scan" /\ stream' = stream /\ wire' = wire
        /\ text = <<>> /\ text' = <<>>
        /\ pc' \in {"recv", "kept", "scan"} /\ pc' # "recv" /\ pc # "recv"
    BY <1>10 DEF ScanPacket
  <2>2. PICK total \in IF Len(rest) >= HeaderSize THEN Totals(rest) ELSE {Len(rest) + 1} :
          IF Len(rest) >= total
          THEN /\ handed' = Append(handed, SubSeq(rest, 1, total))
               /\ rest' = SubSeq(rest, total + 1, Len(rest))
               /\ UNCHANGED kept
          ELSE kept' = rest /\ rest' = <<>> /\ UNCHANGED handed
    BY <1>10, Zenon DEF ScanPacket
  <2>3. total \in Nat
    BY <1>1, <1>2, <2>1, TotalsAreSizes
  <2>4. CASE Len(rest) >= total
    <3>1. total \in 0..Len(rest)
      BY <1>2, <2>3, <2>4
    <3>2. /\ handed' = Append(handed, SubSeq(rest, 1, total))
          /\ rest' = SubSeq(rest, total + 1, Len(rest)) /\ kept' = kept
      BY <2>2, <2>4
    <3>3. SubSeq(rest, 1, total) \in Seq(Pair)
      BY <3>1, FrontIs, Zenon
    <3>4. kept' \in Seq(Pair) /\ text' \in Seq(Pair) /\ handed' \in Seq(Seq(Pair))
      BY <1>1, <1>3, <2>1, <3>2, <3>3, Zenon
    <3>. QED BY <2>1, <3>1, <3>2, <3>4, StreamKeeps, Zenon
  <2>5. CASE ~(Len(rest) >= total)
    <3>1. kept' = rest /\ rest' = <<>> /\ handed' = handed
      BY <2>2, <2>5
    <3>2. Len(rest) \in 0..Len(rest) /\ rest' = SubSeq(rest, Len(rest) + 1, Len(rest))
      BY <3>1, RestEnds
    <3>3. kept' \in Seq(Pair) /\ text' \in Seq(Pair) /\ handed' \in Seq(Seq(Pair))
      BY <1>1, <2>1, <3>1
    <3>. QED BY <2>1, <3>1, <3>2, <3>3, StreamKeeps, Zenon
  <2>. QED BY <2>4, <2>5
<1>. QED BY <1>5, <1>6, <1>7, <1>8, <1>9, <1>10 DEF Next

---------------------------------------------------------------------------
(* If no header is cut, what is kept of a packet is its beginning, with    *)
(* its header, and the rest begins where that ends; else the rest begins   *)
(* with a message, or in an answer; the packets before it are handed over. *)
StartsPacket(s) == s # <<>> /\ Dollar(s[1])
CutWell(b) == b[2] = stream[b[1]].len \/ b[1] \in Answers \/ b[2] >= HeaderSize

PartKept ==
  /\ At(Done)[1] \in Packets
  /\ HeaderSize <= Len(kept) /\ Len(kept) < stream[At(Done)[1]].len
  /\ At(Done)[2] = Len(kept) + 1
  /\ \A k \in 1..Len(kept) : kept[k] = <<At(Done)[1], k>>
  /\ pc = "scan" => rest = <<>>

KeptInv ==
  /\ Seen >= 1 => CutWell(All[Seen])
  /\ StartsPacket(kept) => PartKept
  /\ ~StartsPacket(kept) => At(Done)[2] = 1 \/ At(Done)[1] \in Answers
  /\ ~StartsPacket(text)
  /\ PacketsOf(handed) = Sent(At(Done)[1] - 1)

PacketInv == "header" \notin cuts => KeptInv

LEMMA SameStream ==
  ASSUME stream' = stream
  PROVE  /\ At(Done)' = At(Done')
         /\ PacketsOf(handed)' = PacketsOf(handed')
         /\ StartsPacket(kept)' <=> StartsPacket(kept')
         /\ StartsPacket(text)' <=> StartsPacket(text')
         /\ Sent(At(Done)[1] - 1)' = Sent(At(Done')[1] - 1)
         /\ CutWell(All[Seen])' <=> CutWell(All[Seen'])
<1>1. All' = All /\ Answers' = Answers
  BY StreamStays
<1>2. At(Done)' = At(Done')
  BY <1>1 DEF At
<1>3. PacketsOf(handed)' = PacketsOf(handed')
  BY DEF PacketsOf, Dollar
<1>4. StartsPacket(kept)' <=> StartsPacket(kept')
  BY DEF StartsPacket, Dollar
<1>5. StartsPacket(text)' <=> StartsPacket(text')
  BY DEF StartsPacket, Dollar
<1>6. Sent(At(Done)[1] - 1)' = Sent(At(Done')[1] - 1)
  BY <1>2 DEF Sent, PacketsOf, Dollar, Message
<1>7. CutWell(All[Seen])' <=> CutWell(All[Seen'])
  BY <1>1 DEF CutWell
<1>. QED BY <1>2, <1>3, <1>4, <1>5, <1>6, <1>7, Zenon

(* The rest, from where it begins in a message.                            *)
LEMMA RestRun ==
  ASSUME StreamInv, Done < Len(All), NEW i, NEW k, At(Done) = <<i, k>>
  PROVE  /\ i \in 1..Len(stream) /\ k \in 1..stream[i].len /\ stream[i].len \in Nat
         /\ \A j \in 1..Len(rest) : j <= stream[i].len - k + 1 => rest[j] = <<i, k + j - 1>>
         /\ \A m \in Nat : m <= stream[i].len - k => At(Done + m) = <<i, k + m>>
         /\ At(Done + (stream[i].len - k + 1)) = <<i + 1, 1>>
<1>0. /\ stream \in Streams /\ Done \in 0..Len(All)-1 /\ Len(rest) \in Nat
      /\ Done \in Nat /\ Len(All) \in Nat
  BY RestBytes DEF StreamInv, TypeInv
<1>. DEFINE len == stream[i].len
<1>1. /\ i \in 1..Len(stream) /\ k \in 1..len /\ len \in Nat
      /\ \A l \in 0..len - k : Done + l \in 0..Len(All)-1 /\ At(Done + l) = <<i, k + l>>
      /\ At(Done + (len - k + 1)) = <<i + 1, 1>>
  <2>. HIDE DEF len
  <2>1. /\ i \in 1..Len(stream) /\ k \in 1..stream[i].len /\ stream[i].len \in Nat
        /\ \A l \in 0..stream[i].len - k : Done + l \in 0..Len(All)-1 /\ At(Done + l) = <<i, k + l>>
        /\ At(Done + (stream[i].len - k + 1)) = <<i + 1, 1>>
    BY <1>0, MessageRun, SMTT(60)
  <2>. QED BY <2>1, Zenon DEF len
<1>. HIDE DEF len
<1>2. ASSUME NEW j \in 1..Len(rest), j <= len - k + 1 PROVE rest[j] = <<i, k + j - 1>>
  <2>1. j - 1 \in 0..len - k /\ k + (j - 1) = k + j - 1
    BY <1>0, <1>1, <1>2
  <2>2. rest[j] = At(Done + (j - 1))
    BY RestBytes
  <2>. QED BY <1>1, <2>1, <2>2, Zenon
<1>3. ASSUME NEW m \in Nat, m <= len - k PROVE At(Done + m) = <<i, k + m>>
  <2>1. m \in 0..len - k
    BY <1>1, <1>3
  <2>. QED BY <1>1, <2>1, Zenon
<1>. QED BY <1>1, <1>2, <1>3, Zenon DEF len

(* A sequence of the bytes of a message, in order, is the message.         *)
LEMMA IsMessage ==
  ASSUME stream \in Streams, NEW i \in 1..Len(stream), NEW s \in Seq(Pair),
         Len(s) = stream[i].len, \A k \in 1..stream[i].len : s[k] = <<i, k>>
  PROVE  s = Message(i)
<1>1. /\ Message(i) \in Seq(Pair) /\ Len(Message(i)) = stream[i].len
      /\ \A k \in 1..stream[i].len : Message(i)[k] = <<i, k>>
  BY MessageIs
<1>2. \A k \in 1..Len(s) : s[k] = Message(i)[k]
  BY <1>1, Zenon
<1>. HIDE DEF Pair
<1>. QED BY <1>1, <1>2, SameElements, Zenon

LEMMA KeptCompleted ==
  ASSUME StreamInv, KeptInv, CompleteKept, NEW i, i = At(Done)[1]
  PROVE  /\ i \in Packets /\ i \in 1..Len(stream) /\ StartsPacket(kept)
         /\ stream' = stream /\ text = <<>> /\ text' = <<>> /\ cuts' = cuts /\ Seen' = Seen
         /\ Len(kept) < stream[i].len
         /\ \/ /\ handed' = Append(handed, Message(i)) /\ kept' = <<>>
               /\ At(Done') = <<i + 1, 1>>
               /\ Done' = Done + (stream[i].len - Len(kept))
               /\ \E m \in 0..Len(rest) : rest' = SubSeq(rest, m + 1, Len(rest))
               /\ wire' = wire
            \/ /\ handed' = handed /\ kept' \in Seq(Pair)
               /\ Len(kept') = Len(kept) + Len(rest) /\ Len(kept') < stream[i].len
               /\ \A k \in 1..Len(kept') : kept'[k] = <<i, k>>
               /\ At(Done') = <<i, Len(kept') + 1>>
               /\ Done' = Done + Len(rest) /\ rest' = <<>> /\ wire' = wire
<1>. DEFINE len == stream[i].len
            L == Len(kept)
<1>1. /\ stream \in Streams /\ kept \in Seq(Pair) /\ rest \in Seq(Pair)
      /\ text # <<>> => pc = "scan"
  BY DEF StreamInv, TypeInv, Shape
<1>2. /\ pc = "kept" /\ PacketKept /\ stream' = stream /\ wire' = wire /\ text' = text
      /\ cuts' = cuts
  BY DEF CompleteKept
<1>3. text = <<>>
  BY <1>1, <1>2
<1>4. /\ Len(rest) \in Nat /\ L \in Nat /\ Done \in Nat /\ Len(All) \in Nat /\ Done <= Len(All)
      /\ HeaderSize \in Nat \ {0}
  BY RestBytes, SizeAssumption
<1>5. StartsPacket(kept)
  <2>1. kept # <<>>
    BY <1>2, <1>4 DEF PacketKept
  <2>. QED BY <1>2, <2>1 DEF StartsPacket, PacketKept
<1>6. PartKept
  BY <1>5, Zenon DEF KeptInv
<1>7. /\ i \in Packets /\ HeaderSize <= L /\ L < len /\ At(Done)[2] = L + 1
      /\ \A k \in 1..L : kept[k] = <<i, k>>
  BY <1>6, Zenon DEF PartKept
<1>8. Done < Len(All)
  <2>. SUFFICES ASSUME Done = Len(All) PROVE FALSE
    BY <1>4
  <2>1. At(Done)[1] = Len(stream) + 1 /\ Len(stream) \in Nat
    BY <1>1, AtLinks
  <2>2. i \in 1..Len(stream)
    BY <1>1, <1>7, MessageFacts
  <2>. QED BY <2>1, <2>2
<1>9. At(Done) = <<i, L + 1>>
  <2>1. Done \in 0..Len(All)-1
    BY <1>4, <1>8
  <2>2. At(Done) = <<At(Done)[1], At(Done)[2]>>
    BY <1>1, <2>1, AtLinks, Zenon
  <2>. QED BY <1>7, <2>2, Zenon
<1>10. /\ i \in 1..Len(stream) /\ len \in Nat
       /\ \A j \in 1..Len(rest) : j <= len - (L + 1) + 1 => rest[j] = <<i, (L + 1) + j - 1>>
       /\ \A m \in Nat : m <= len - (L + 1) => At(Done + m) = <<i, (L + 1) + m>>
       /\ At(Done + (len - (L + 1) + 1)) = <<i + 1, 1>>
  BY <1>8, <1>9, RestRun, Zenon
<1>11. Totals(kept) = {len}
  <2>1. \A k \in 1..HeaderSize : kept[k] = <<i, k>>
    BY <1>4, <1>7
  <2>. QED BY <1>1, <1>4, <1>7, <2>1, HeaderTotals
<1>12. PICK total \in Totals(kept) :
          IF Needs(total, Len(rest))
          THEN LET m == total - Len(kept)
               IN  /\ handed' = Append(handed, kept \o SubSeq(rest, 1, m))
                   /\ rest' = SubSeq(rest, m + 1, Len(rest))
                   /\ kept' = <<>>
                   /\ pc' = "scan"
          ELSE /\ kept' = kept \o rest /\ rest' = <<>>
               /\ pc' = "recv"
               /\ UNCHANGED handed
  BY DEF CompleteKept
<1>13. total = len
  BY <1>11, <1>12
<1>14. Seen' = Seen
  <2>1. All' = All
    BY <1>2, StreamStays
  <2>. QED BY <1>2, <2>1, Zenon DEF Seen
<1>. DEFINE m == len - L
<1>15. m \in Nat /\ len - (L + 1) + 1 = m /\ L + m = len
  <2>1. len \in Nat /\ L \in Nat /\ L < len
    BY <1>4, <1>7, <1>10, Zenon
  <2>. HIDE DEF len, L
  <2>. QED BY <2>1
<1>16. \A j \in 1..Len(rest) : j <= m => rest[j] = <<i, L + j>>
  <2>1. \A j \in 1..Len(rest) : (L + 1) + j - 1 = L + j
    BY <1>4
  <2>. HIDE DEF len, L, m
  <2>. QED BY <1>10, <1>15, <2>1, Zenon
<1>. HIDE DEF len, L, m
<1>17. len \in Nat /\ L \in Nat /\ L < len /\ L = Len(kept) /\ m \in Nat /\ L + m = len
  BY <1>4, <1>7, <1>10, <1>15, Zenon DEF len, L
<1>18. CASE Needs(len, Len(rest))
  <2>1. m \in 0..Len(rest)
    BY <1>4, <1>15, <1>18 DEF Needs, m, L
  <2>2. /\ handed' = Append(handed, kept \o SubSeq(rest, 1, m))
        /\ rest' = SubSeq(rest, m + 1, Len(rest)) /\ kept' = <<>>
    BY <1>12, <1>13, <1>18 DEF m, L
  <2>3. Done' = Done + m
    BY <1>2, <2>1, <2>2, RestDrops, Zenon
  <2>. DEFINE f == SubSeq(rest, 1, m)
              x == kept \o f
  <2>4. /\ f \in Seq(Pair) /\ Len(f) = m
        /\ \A j \in 1..m : f[j] = rest[j] /\ j \in 1..Len(rest)
    BY <2>1, FrontIs, Zenon
  <2>. HIDE DEF f
  <2>5. /\ x \in Seq(Pair) /\ Len(x) = L + m
        /\ \A p \in 1..L : x[p] = kept[p]
        /\ \A k \in 1..m : x[L + k] = f[k]
    <3>1. kept \in Seq(Pair) /\ f \in Seq(Pair)
      BY <1>1, <2>4
    <3>2. /\ x \in Seq(Pair) /\ Len(x) = Len(kept) + Len(f)
          /\ \A p \in 1..Len(kept) : x[p] = kept[p]
          /\ \A k \in 1..Len(f) : x[Len(kept) + k] = f[k]
      <4>. HIDE DEF Pair
      <4>. QED BY <3>1, ConcatFacts
    <3>. QED BY <1>17, <2>4, <3>2, Zenon
  <2>. HIDE DEF x
  <2>6. \A q \in 1..len : x[q] = <<i, q>>
    <3>. SUFFICES ASSUME NEW q \in 1..len PROVE x[q] = <<i, q>>
      OBVIOUS
    <3>1. CASE q <= L
      <4>1. q \in 1..L
        BY <1>4, <3>1 DEF L
      <4>. QED BY <1>7, <2>5, <4>1, Zenon DEF L
    <3>2. CASE ~(q <= L)
      <4>. DEFINE j == q - L
      <4>1. j \in 1..m /\ j <= m /\ L + j = q
        BY <1>17, <3>2
      <4>. HIDE DEF j
      <4>2. x[L + j] = rest[j] /\ j \in 1..Len(rest)
        BY <2>4, <2>5, <4>1, Zenon
      <4>3. rest[j] = <<i, L + j>>
        BY <1>16, <4>1, <4>2, Zenon
      <4>. QED BY <4>1, <4>2, <4>3, Zenon
    <3>. QED BY <3>1, <3>2
  <2>7. x = Message(i)
    <3>1. Len(x) = len
      BY <1>15, <2>5, Zenon
    <3>. QED BY <1>1, <1>10, <2>5, <2>6, <3>1, IsMessage, Zenon DEF len
  <2>8. At(Done') = <<i + 1, 1>>
    BY <1>10, <1>15, <2>3, Zenon
  <2>9. handed' = Append(handed, Message(i))
    BY <2>2, <2>7, Zenon DEF x, f
  <2>. QED BY <1>2, <1>3, <1>5, <1>7, <1>10, <1>14, <2>1, <2>2, <2>3, <2>8, <2>9, Zenon DEF m, len, L
<1>19. CASE ~Needs(len, Len(rest))
  <2>1. kept' = kept \o rest /\ rest' = <<>> /\ handed' = handed
    BY <1>12, <1>13, <1>19
  <2>2. Len(rest) < m /\ Len(rest) <= len - (L + 1)
    <3>1. ~(len >= L /\ Len(rest) >= len - L)
      BY <1>19, <1>17, Zenon DEF Needs
    <3>. QED BY <1>4, <1>17, <3>1
  <2>3. Done' = Done + Len(rest)
    <3>1. Len(rest) \in 0..Len(rest) /\ rest' = SubSeq(rest, Len(rest) + 1, Len(rest))
      BY <2>1, RestEnds
    <3>. QED BY <1>2, <3>1, RestDrops, Zenon
  <2>4. /\ kept' \in Seq(Pair) /\ Len(kept') = L + Len(rest)
        /\ \A p \in 1..L : kept'[p] = kept[p]
        /\ \A k \in 1..Len(rest) : kept'[L + k] = rest[k]
    <3>. HIDE DEF Pair
    <3>. QED BY <1>1, <2>1, ConcatFacts DEF L
  <2>5. ASSUME NEW q \in 1..Len(kept') PROVE kept'[q] = <<i, q>>
    <3>1. CASE q <= L
      <4>1. q \in 1..L
        BY <1>4, <3>1 DEF L
      <4>. QED BY <1>7, <2>4, <4>1, Zenon DEF L
    <3>2. CASE ~(q <= L)
      <4>. DEFINE j == q - L
      <4>1. j \in 1..Len(rest) /\ j <= m /\ L + j = q
        BY <1>4, <1>15, <2>2, <2>4, <3>2 DEF L
      <4>. HIDE DEF j
      <4>2. kept'[L + j] = rest[j]
        BY <2>4, <4>1, Zenon
      <4>3. rest[j] = <<i, L + j>>
        BY <1>16, <4>1, Zenon
      <4>. QED BY <4>1, <4>2, <4>3, Zenon
    <3>. QED BY <3>1, <3>2
  <2>6. At(Done') = <<i, Len(kept') + 1>>
    <3>1. At(Done + Len(rest)) = <<i, (L + 1) + Len(rest)>>
      BY <1>4, <1>10, <2>2, Zenon
    <3>2. (L + 1) + Len(rest) = Len(kept') + 1
      BY <1>4, <2>4 DEF L
    <3>. QED BY <2>3, <3>1, <3>2, Zenon
  <2>7. Len(kept') < len
    BY <1>4, <1>17, <2>2, <2>4
  <2>. QED BY <1>2, <1>3, <1>5, <1>7, <1>10, <1>14, <2>1, <2>3, <2>4, <2>5, <2>6, <2>7, Zenon DEF len, L
<1>. QED BY <1>18, <1>19

(* A '$' in the rest is the beginning of a packet.                         *)
LEMMA PacketAhead ==
  ASSUME StreamInv, KeptInv, pc = "scan", rest # <<>>, Dollar(rest[1])
  PROVE  /\ ~StartsPacket(kept) /\ Done < Len(All)
         /\ At(Done)[1] \in Packets /\ At(Done) = <<At(Done)[1], 1>>
<1>. DEFINE i == At(Done)[1]
            k == At(Done)[2]
<1>1. stream \in Streams /\ Done \in 0..Len(All)-1 /\ rest[1] = At(Done) /\ Len(All) \in Nat
  BY RestBytes DEF StreamInv, TypeInv
<1>2. /\ At(Done) = <<i, k>> /\ i \in 1..Len(stream) /\ k \in 1..stream[i].len
  BY <1>1, AtLinks, Zenon
<1>3. ~StartsPacket(kept)
  BY DEF KeptInv, PartKept
<1>4. k = 1 \/ i \in Answers
  BY <1>3, Zenon DEF KeptInv
<1>5. k \in stream[i].dollars
  BY <1>1, Zenon DEF Dollar
<1>6. (i \in Packets \/ i \in Answers) /\ (i \in Answers => stream[i].dollars = {})
  BY <1>1, <1>2, MessageFacts
<1>. HIDE DEF i, k
<1>7. i \notin Answers
  BY <1>5, <1>6
<1>8. i \in Packets /\ k = 1 /\ Done < Len(All)
  BY <1>1, <1>4, <1>6, <1>7
<1>. QED BY <1>2, <1>3, <1>8, Zenon DEF i

LEMMA PacketScanned ==
  ASSUME StreamInv, KeptInv, ScanPacket, NEW i, i = At(Done)[1]
  PROVE  /\ i \in Packets /\ i \in 1..Len(stream) /\ ~StartsPacket(kept)
         /\ At(Done) = <<i, 1>> /\ stream[i].len \in Nat
         /\ stream' = stream /\ text = <<>> /\ text' = <<>> /\ cuts' = cuts /\ Seen' = Seen
         /\ \/ /\ handed' = Append(handed, Message(i)) /\ kept' = kept
               /\ At(Done') = <<i + 1, 1>> /\ Done' = Done + stream[i].len
               /\ \E m \in 0..Len(rest) : rest' = SubSeq(rest, m + 1, Len(rest))
               /\ wire' = wire
            \/ /\ handed' = handed /\ kept' = rest /\ kept' \in Seq(Pair) /\ Len(kept') \in Nat
               /\ kept' # <<>> /\ HeaderSize <= Len(kept') /\ Len(kept') < stream[i].len
               /\ \A k \in 1..Len(kept') : kept'[k] = <<i, k>>
               /\ At(Done') = <<i, Len(kept') + 1>>
               /\ Done' = Done + Len(rest) /\ rest' = <<>> /\ wire' = wire
<1>. DEFINE len == stream[i].len
<1>1. /\ stream \in Streams /\ rest \in Seq(Pair)
  BY DEF StreamInv, TypeInv
<1>2. /\ pc = "scan" /\ rest # <<>> /\ Dollar(rest[1]) /\ text = <<>> /\ text' = text
      /\ stream' = stream /\ wire' = wire /\ cuts' = cuts
  BY DEF ScanPacket
<1>3. /\ ~StartsPacket(kept) /\ Done < Len(All) /\ i \in Packets /\ At(Done) = <<i, 1>>
  BY <1>2, PacketAhead, Zenon
<1>4. /\ Len(rest) \in Nat /\ Len(rest) >= 1 /\ HeaderSize \in Nat \ {0}
      /\ Seen \in Nat /\ Done \in Nat /\ Done + Len(rest) = Seen
  BY <1>2, RestBytes, SizeAssumption
<1>5. /\ i \in 1..Len(stream) /\ len \in Nat
      /\ \A j \in 1..Len(rest) : j <= len - 1 + 1 => rest[j] = <<i, 1 + j - 1>>
      /\ \A m \in Nat : m <= len - 1 => At(Done + m) = <<i, 1 + m>>
      /\ At(Done + (len - 1 + 1)) = <<i + 1, 1>>
  BY <1>3, RestRun, Zenon
<1>6. len >= HeaderSize /\ ~(i \in Answers)
  BY <1>1, <1>3, <1>5, MessageFacts
<1>. HIDE DEF len
<1>7. \A j \in 1..Len(rest) : j <= len => rest[j] = <<i, j>>
  <2>1. len - 1 + 1 = len /\ \A j \in 1..Len(rest) : 1 + j - 1 = j
    BY <1>4, <1>5
  <2>. QED BY <1>5, <2>1, Zenon
<1>8. PICK total \in IF Len(rest) >= HeaderSize THEN Totals(rest) ELSE {Len(rest) + 1} :
          IF Len(rest) >= total
          THEN /\ handed' = Append(handed, SubSeq(rest, 1, total))
               /\ rest' = SubSeq(rest, total + 1, Len(rest))
               /\ UNCHANGED kept
          ELSE kept' = rest /\ rest' = <<>> /\ UNCHANGED handed
  BY DEF ScanPacket
(* The header is there, because it was not cut.                            *)
<1>9. Len(rest) >= HeaderSize
  <2>. SUFFICES ASSUME Len(rest) < HeaderSize PROVE FALSE
    BY <1>4
  <2>1. Len(rest) \in 1..Len(rest) /\ Len(rest) <= len /\ Seen >= 1 /\ Len(rest) < len
        /\ Done + (Len(rest) - 1) = Seen - 1
    BY <1>4, <1>5, <1>6, SMTT(60)
  <2>2. rest[Len(rest)] = <<i, Len(rest)>>
    BY <1>7, <2>1, Zenon
  <2>3. rest[Len(rest)] = At(Seen - 1) /\ All[Seen] = At(Seen - 1)
    <3>1. rest[Len(rest)] = At(Done + (Len(rest) - 1))
      BY <2>1, RestBytes, Zenon
    <3>. QED BY <2>1, <3>1, RestBytes, Zenon
  <2>4. CutWell(<<i, Len(rest)>>)
    BY <2>1, <2>2, <2>3, Zenon DEF KeptInv
  <2>5. Len(rest) = stream[i].len \/ i \in Answers \/ Len(rest) >= HeaderSize
    BY <2>4 DEF CutWell
  <2>6. Len(rest) = len \/ Len(rest) >= HeaderSize
    BY <1>6, <2>5, Zenon DEF len
  <2>. QED BY <1>4, <2>1, <2>6
<1>10. total = len
  <2>1. \A k \in 1..HeaderSize : k \in 1..Len(rest) /\ k <= len
    BY <1>4, <1>5, <1>6, <1>9
  <2>2. \A k \in 1..HeaderSize : rest[k] = <<i, k>>
    BY <1>7, <2>1, Zenon
  <2>3. Totals(rest) = {len}
    BY <1>1, <1>3, <1>9, <2>2, HeaderTotals, Zenon DEF len
  <2>. QED BY <1>8, <1>9, <2>3
<1>11. Seen' = Seen
  <2>1. All' = All
    BY <1>2, StreamStays
  <2>. QED BY <1>2, <2>1, Zenon DEF Seen
<1>12. CASE Len(rest) >= len
  <2>1. /\ handed' = Append(handed, SubSeq(rest, 1, len))
        /\ rest' = SubSeq(rest, len + 1, Len(rest)) /\ kept' = kept
    BY <1>8, <1>10, <1>12
  <2>2. len \in 0..Len(rest)
    BY <1>4, <1>5, <1>12
  <2>3. Done' = Done + len
    BY <1>2, <2>1, <2>2, RestDrops, Zenon
  <2>. DEFINE f == SubSeq(rest, 1, len)
  <2>4. /\ f \in Seq(Pair) /\ Len(f) = len
        /\ \A j \in 1..len : f[j] = rest[j] /\ j \in 1..Len(rest)
    BY <2>2, FrontIs, Zenon
  <2>. HIDE DEF f
  <2>5. \A j \in 1..len : j <= len
    BY <1>5
  <2>6. \A j \in 1..len : f[j] = <<i, j>>
    BY <1>7, <2>4, <2>5, Zenon
  <2>7. f = Message(i)
    BY <1>1, <1>5, <2>4, <2>6, IsMessage, Zenon DEF len
  <2>8. At(Done') = <<i + 1, 1>>
    <3>1. len - 1 + 1 = len
      BY <1>5
    <3>. QED BY <1>5, <2>3, <3>1, Zenon
  <2>9. handed' = Append(handed, Message(i))
    BY <2>1, <2>7, Zenon DEF f
  <2>. QED BY <1>2, <1>3, <1>5, <1>11, <2>1, <2>2, <2>3, <2>8, <2>9, Zenon DEF len
<1>13. CASE ~(Len(rest) >= len)
  <2>1. kept' = rest /\ rest' = <<>> /\ handed' = handed
    BY <1>8, <1>10, <1>13
  <2>2. Done' = Done + Len(rest)
    <3>1. Len(rest) \in 0..Len(rest) /\ rest' = SubSeq(rest, Len(rest) + 1, Len(rest))
      BY <2>1, RestEnds
    <3>. QED BY <1>2, <3>1, RestDrops, Zenon
  <2>3. Len(rest) < len /\ Len(rest) <= len - 1 /\ 1 + Len(rest) = Len(rest) + 1
        /\ HeaderSize <= Len(rest) /\ \A j \in 1..Len(rest) : j <= len
    BY <1>4, <1>5, <1>9, <1>13, SMTT(60)
  <2>4. \A k \in 1..Len(rest) : rest[k] = <<i, k>>
    BY <1>7, <2>3, Zenon
  <2>5. At(Done') = <<i, Len(rest) + 1>>
    <3>1. At(Done + Len(rest)) = <<i, 1 + Len(rest)>>
      BY <1>4, <1>5, <2>3, Zenon
    <3>. QED BY <2>2, <2>3, <3>1, Zenon
  <2>. QED BY <1>1, <1>2, <1>3, <1>4, <1>5, <1>11, <2>1, <2>2, <2>3, <2>4, <2>5, Zenon DEF len
<1>. QED BY <1>12, <1>13

(* From a message's beginning, or inside an answer, over bytes that are    *)
(* not '$': these are answers, and the packets before them stay the same.  *)
BetweenPackets(p) == At(p)[2] = 1 \/ At(p)[1] \in Answers

LEMMA TextByte ==
  ASSUME stream \in Streams, NEW p \in 0..Len(All)-1, BetweenPackets(p), ~Dollar(At(p))
  PROVE  /\ At(p)[1] \in Answers /\ BetweenPackets(p + 1)
         /\ Sent(At(p + 1)[1] - 1) = Sent(At(p)[1] - 1)
<1>. DEFINE i == At(p)[1]
            k == At(p)[2]
<1>1. /\ At(p) = <<i, k>> /\ i \in 1..Len(stream) /\ k \in 1..stream[i].len
      /\ At(p + 1) = After(At(p))
  BY AtLinks, Zenon
<1>2. /\ i \in Nat /\ i > 0 /\ stream[i].len \in Nat
      /\ i \in Packets \/ i \in Answers
      /\ i \in Packets => 1 \in stream[i].dollars
      /\ Len(stream) \in Nat
  BY <1>1, MessageFacts
<1>3. k \notin stream[i].dollars
  BY <1>2, Zenon DEF Dollar
<1>4. k = 1 \/ i \in Answers
  BY Zenon DEF BetweenPackets
<1>. HIDE DEF i, k
<1>5. i \in Answers
  BY <1>2, <1>3, <1>4
<1>6. CASE k < stream[i].len
  <2>1. At(p + 1) = <<i, k + 1>>
    BY <1>1, <1>6 DEF After
  <2>2. At(p + 1)[1] = i
    BY <2>1
  <2>. QED BY <1>5, <2>2, Zenon DEF BetweenPackets, i
<1>7. CASE ~(k < stream[i].len)
  <2>1. At(p + 1) = <<i + 1, 1>>
    BY <1>1, <1>7 DEF After
  <2>2. At(p + 1)[1] = i + 1 /\ At(p + 1)[2] = 1 /\ (i + 1) - 1 = i
    BY <1>2, <2>1
  <2>3. Sent(i) = Sent(i - 1)
    BY <1>1, <1>5, SentStep, Zenon
  <2>4. Sent(At(p + 1)[1] - 1) = Sent(i)
    BY <2>2, Zenon
  <2>. QED BY <1>5, <2>2, <2>3, <2>4, Zenon DEF BetweenPackets, i
<1>. QED BY <1>6, <1>7

LEMMA TextAhead ==
  ASSUME StreamInv, KeptInv, pc = "scan", rest # <<>>, ~Dollar(rest[1])
  PROVE  /\ ~StartsPacket(kept) /\ Done < Len(All) /\ BetweenPackets(Done)
         /\ At(Done)[1] \in Answers
<1>1. stream \in Streams /\ Done \in 0..Len(All)-1 /\ rest[1] = At(Done) /\ Len(All) \in Nat
  BY RestBytes DEF StreamInv, TypeInv
<1>2. ~StartsPacket(kept)
  BY DEF KeptInv, PartKept
<1>3. BetweenPackets(Done)
  BY <1>2, Zenon DEF KeptInv, BetweenPackets
<1>4. At(Done)[1] \in Answers
  BY <1>1, <1>3, TextByte, Zenon
<1>5. Done < Len(All)
  BY <1>1
<1>. QED BY <1>2, <1>3, <1>4, <1>5, Zenon

LEMMA TextPassed ==
  ASSUME StreamInv, BetweenPackets(Done),
         NEW n \in 0..Len(rest), \A j \in 1..n : ~Dollar(rest[j])
  PROVE  BetweenPackets(Done + n) /\ Sent(At(Done + n)[1] - 1) = Sent(At(Done)[1] - 1)
<1>. DEFINE T == {l \in 0..n : /\ BetweenPackets(Done + l)
                               /\ Sent(At(Done + l)[1] - 1) = Sent(At(Done)[1] - 1)}
<1>1. /\ stream \in Streams /\ Len(rest) \in Nat /\ Done \in Nat /\ n \in Nat
  BY RestBytes DEF StreamInv, TypeInv
<1>2. T \in SUBSET (0..n) /\ 0 \in T
  <2>1. 0 \in 0..n /\ Done + 0 = Done
    BY <1>1
  <2>2. BetweenPackets(Done + 0) /\ Sent(At(Done + 0)[1] - 1) = Sent(At(Done)[1] - 1)
    BY <2>1, Zenon
  <2>. QED BY <2>1, <2>2, Zenon
<1>3. ASSUME NEW l \in 1..n, l - 1 \in T PROVE l \in T
  <2>. DEFINE p == Done + (l - 1)
  <2>1. l \in 0..n /\ l \in 1..Len(rest) /\ p + 1 = Done + l
    BY <1>1
  <2>2. BetweenPackets(p) /\ Sent(At(p)[1] - 1) = Sent(At(Done)[1] - 1)
    BY <1>3
  <2>3. p \in 0..Len(All)-1 /\ rest[l] = At(p)
    BY <2>1, RestBytes, Zenon
  <2>4. ~Dollar(At(p))
    BY <2>3, Zenon
  <2>. HIDE DEF p
  <2>5. BetweenPackets(p + 1) /\ Sent(At(p + 1)[1] - 1) = Sent(At(p)[1] - 1)
    BY <1>1, <2>2, <2>3, <2>4, TextByte, Zenon
  <2>6. BetweenPackets(Done + l) /\ Sent(At(Done + l)[1] - 1) = Sent(At(Done)[1] - 1)
    BY <2>1, <2>2, <2>5, Zenon
  <2>. QED BY <2>1, <2>6, Zenon
<1>4. T = 0..n
  <2>. HIDE DEF T
  <2>. QED BY <1>1, <1>2, <1>3, UptoInduction
<1>5. n \in 0..n
  BY <1>1
<1>. QED BY <1>4, <1>5, Zenon

(* What the scanner does with a run of text.                               *)
LEMMA TextScanned ==
  ASSUME StreamInv, ScanText
  PROVE  /\ stream' = stream /\ wire' = wire /\ cuts' = cuts /\ Seen' = Seen
         /\ text = <<>> /\ pc = "scan" /\ rest # <<>> /\ ~Dollar(rest[1])
         /\ TextLen \in 1..Len(rest) /\ TextLen \in 0..Len(rest) /\ Done' = Done + TextLen
         /\ \A j \in 1..TextLen : ~Dollar(rest[j])
         /\ TextLen = Len(rest) \/ Dollar(rest[TextLen + 1])
         /\ SubSeq(rest, 1, TextLen) \in Seq(Pair)
         /\ Len(SubSeq(rest, 1, TextLen)) = TextLen
         /\ \A j \in 1..TextLen : SubSeq(rest, 1, TextLen)[j] = rest[j] /\ j \in 1..Len(rest)
         /\ rest' = SubSeq(rest, TextLen + 1, Len(rest))
<1>1. /\ pc = "scan" /\ rest # <<>> /\ ~Dollar(rest[1])
      /\ stream' = stream /\ wire' = wire /\ cuts' = cuts
      /\ rest' = SubSeq(rest, TextLen + 1, Len(rest))
  BY DEF ScanText
<1>2. text = <<>> /\ rest \in Seq(Pair)
  BY <1>1 DEF StreamInv, TypeInv, Shape
<1>3. /\ TextLen \in 1..Len(rest)
      /\ \A j \in 1..TextLen : ~Dollar(rest[j])
      /\ TextLen = Len(rest) \/ Dollar(rest[TextLen + 1])
  BY <1>1, <1>2, TextRun, Zenon
<1>4. TextLen \in 0..Len(rest)
  BY <1>3
<1>5. Seen' = Seen /\ Done' = Done + TextLen
  BY <1>1, <1>4, RestDrops, Zenon
<1>6. /\ SubSeq(rest, 1, TextLen) \in Seq(Pair)
      /\ Len(SubSeq(rest, 1, TextLen)) = TextLen
      /\ \A j \in 1..TextLen : SubSeq(rest, 1, TextLen)[j] = rest[j] /\ j \in 1..Len(rest)
  BY <1>4, FrontIs, Zenon
<1>. QED BY <1>1, <1>2, <1>3, <1>4, <1>5, <1>6, Zenon

---------------------------------------------------------------------------
LEMMA PartNext ==
  ASSUME stream' = stream, NEW i \in Packets,
         HeaderSize <= Len(kept'), Len(kept') < stream[i].len,
         At(Done') = <<i, Len(kept') + 1>>,
         \A k \in 1..Len(kept') : kept'[k] = <<i, k>>,
         pc' = "scan" => rest' = <<>>
  PROVE  PartKept'
<1>1. At(Done)' = <<i, Len(kept') + 1>> /\ Packets' = Packets
  BY SameStream, StreamStays, Zenon
<1>2. At(Done)'[1] = i /\ At(Done)'[2] = Len(kept') + 1
  BY <1>1
<1>. QED BY <1>1, <1>2, Zenon DEF PartKept

LEMMA KeptNext ==
  ASSUME stream' = stream,
         Seen' >= 1 => CutWell(All[Seen']),
         StartsPacket(kept') => PartKept',
         ~StartsPacket(kept') => BetweenPackets(Done'),
         ~StartsPacket(text'),
         PacketsOf(handed') = Sent(At(Done')[1] - 1)
  PROVE  KeptInv'
<1>1. At(Done)' = At(Done') /\ Answers' = Answers
  BY SameStream, StreamStays, Zenon
<1>2. (At(Done)[2] = 1 \/ At(Done)[1] \in Answers)' <=> BetweenPackets(Done')
  BY <1>1, Zenon DEF BetweenPackets
<1>3. /\ PacketsOf(handed)' = PacketsOf(handed')
      /\ StartsPacket(kept)' <=> StartsPacket(kept')
      /\ StartsPacket(text)' <=> StartsPacket(text')
      /\ Sent(At(Done)[1] - 1)' = Sent(At(Done')[1] - 1)
      /\ CutWell(All[Seen])' <=> CutWell(All[Seen'])
  BY SameStream
<1>. QED BY <1>2, <1>3, Zenon DEF KeptInv

LEMMA PacketInit == Init => PacketInv
<1>. SUFFICES ASSUME Init PROVE KeptInv
  BY DEF PacketInv
<1>1. StreamInv
  BY StreamInit
<1>2. /\ stream \in Streams /\ kept = <<>> /\ text = <<>> /\ rest = <<>> /\ handed = <<>>
  BY DEF Init
<1>3. wire = All
  <2>1. DOMAIN stream = 1..Len(stream)
    BY <1>2, MessageFacts
  <2>. QED BY <2>1, Zenon DEF Init, All, Joined
<1>4. Seen = 0 /\ Done = 0
  <2>1. Len(All) \in Nat /\ Len(rest) = 0
    BY <1>2, AtLinks
  <2>. QED BY <1>3, <2>1 DEF Seen, Done
<1>5. At(Done) = <<1, 1>>
  BY <1>2, <1>4, AtLinks
<1>6. ~StartsPacket(kept) /\ ~StartsPacket(text)
  BY <1>2 DEF StartsPacket
<1>7. PacketsOf(handed) = Sent(At(Done)[1] - 1)
  <2>1. [i \in 1..0 |-> Message(i)] = <<>>
    OBVIOUS
  <2>2. At(Done)[1] - 1 = 0
    BY <1>5
  <2>. QED BY <1>2, <2>1, <2>2, Zenon DEF Sent
<1>8. ~(Seen >= 1) /\ At(Done)[2] = 1
  BY <1>4, <1>5
<1>. QED BY <1>6, <1>7, <1>8, Zenon DEF KeptInv

LEMMA PacketStep == StreamInv /\ PacketInv /\ [Next]_vars => PacketInv'
<1>. SUFFICES ASSUME StreamInv, PacketInv, [Next]_vars, "header" \notin cuts'
              PROVE  KeptInv'
  BY DEF PacketInv
<1>1. /\ stream \in Streams /\ kept \in Seq(Pair) /\ text \in Seq(Pair) /\ rest \in Seq(Pair)
      /\ handed \in Seq(Seq(Pair))
      /\ text # <<>> => pc = "scan" /\ rest # <<>> /\ Dollar(rest[1])
  BY DEF StreamInv, TypeInv, Shape
<1>2. /\ Len(rest) \in Nat /\ Len(kept) \in Nat /\ Seen \in Nat /\ Done \in Nat
      /\ Done + Len(rest) = Seen /\ Len(All) \in Nat
  BY RestBytes
<1>3. ~StartsPacket(<<>>)
  BY DEF StartsPacket
<1>4. \A x \in Seq(Pair), y \in Seq(Pair) :
        /\ x \o y \in Seq(Pair)
        /\ ~StartsPacket(x) /\ ~StartsPacket(y) => ~StartsPacket(x \o y)
  <2>. SUFFICES ASSUME NEW x \in Seq(Pair), NEW y \in Seq(Pair)
                PROVE  /\ x \o y \in Seq(Pair)
                       /\ ~StartsPacket(x) /\ ~StartsPacket(y) => ~StartsPacket(x \o y)
    OBVIOUS
  <2>. HIDE DEF Pair
  <2>1. /\ x \o y \in Seq(Pair) /\ Len(x \o y) = Len(x) + Len(y)
        /\ \A p \in 1..Len(x) : (x \o y)[p] = x[p]
    BY ConcatFacts
  <2>2. x = <<>> => x \o y = y
    BY ConcatEmptySeq
  <2>3. x # <<>> => 1 \in 1..Len(x)
    OBVIOUS
  <2>. QED BY <2>1, <2>2, <2>3, Zenon DEF StartsPacket
(* Handing over what does not begin with '$' adds no packet.               *)
<1>5. ASSUME NEW x \in Seq(Pair), ~StartsPacket(x), x # <<>>
      PROVE  PacketsOf(Append(handed, x)) = PacketsOf(handed)
  <2>1. ~Dollar(x[1])
    BY <1>5, Zenon DEF StartsPacket
  <2>. QED BY <1>1, <2>1, PacketsGrow, Zenon
<1>6. CASE \E n \in 1..Len(wire) : Recv(n)
  <2>1. PICK n \in 1..Len(wire) : Recv(n)
    BY <1>6
  <2>2. /\ stream' = stream /\ kept' = kept /\ handed' = handed /\ text' = <<>> /\ rest = <<>>
        /\ pc' = "kept" /\ cuts' = cuts \cup CutBy(n)
        /\ Done' = Done /\ Seen' = Seen + n
        /\ wire[n] = All[Seen + n] /\ Seen + n \in 1..Len(All)
    BY <2>1, StreamRecv
  <2>3. KeptInv /\ "header" \notin CutBy(n)
    BY <2>2 DEF PacketInv
  <2>4. CutWell(All[Seen'])
    <3>1. CutWell(wire[n])
      <4>. DEFINE b == wire[n]
      <4>1. \/ b[2] = stream[b[1]].len \/ b[1] \in Answers \/ ~(b[2] < HeaderSize)
        BY <2>3 DEF CutBy
      <4>2. b \in Pair
        <5>1. wire \in Seq(Pair)
          BY DEF StreamInv, TypeInv
        <5>. HIDE DEF Pair
        <5>. QED BY <5>1
      <4>. HIDE DEF b
      <4>3. b[2] \in Nat /\ HeaderSize \in Nat
        BY <4>2, SizeAssumption DEF Pair
      <4>4. CutWell(b)
        BY <4>1, <4>3 DEF CutWell
      <4>. QED BY <4>4 DEF b
    <3>. QED BY <2>2, <3>1, Zenon
  <2>5. StartsPacket(kept') => PartKept'
    <3>. SUFFICES ASSUME StartsPacket(kept) PROVE PartKept'
      BY <2>2, Zenon
    <3>1. PartKept
      BY <2>3, Zenon DEF KeptInv
    <3>2. At(Done)' = At(Done) /\ Packets' = Packets
      BY <2>2, SameStream, StreamStays, Zenon
    <3>3. pc' # "scan"
      BY <2>2
    <3>. QED BY <2>2, <3>1, <3>2, <3>3, Zenon DEF PartKept
  <2>6. ~StartsPacket(kept') => BetweenPackets(Done')
    BY <2>2, <2>3, Zenon DEF KeptInv, BetweenPackets
  <2>7. ~StartsPacket(text') /\ PacketsOf(handed') = Sent(At(Done')[1] - 1)
    BY <1>3, <2>2, <2>3, Zenon DEF KeptInv
  <2>. QED BY <2>2, <2>4, <2>5, <2>6, <2>7, KeptNext, Zenon
<1>7. ASSUME Seen' = Seen, KeptInv PROVE Seen' >= 1 => CutWell(All[Seen'])
  BY <1>7, Zenon DEF KeptInv
<1>8. ASSUME NEW i \in Packets, i \in 1..Len(stream), i = At(Done)[1], KeptInv,
             handed' = Append(handed, Message(i)), At(Done') = <<i + 1, 1>>
      PROVE  PacketsOf(handed') = Sent(At(Done')[1] - 1) /\ BetweenPackets(Done')
  <2>1. At(Done')[1] - 1 = i /\ At(Done')[2] = 1
    <3>1. i \in Nat
      <4>1. Len(stream) \in Nat
        BY <1>1, MessageFacts
      <4>. QED BY <1>8, <4>1
    <3>2. At(Done')[1] = i + 1 /\ At(Done')[2] = 1
      BY <1>8
    <3>. QED BY <3>1, <3>2
  <2>2. Message(i) \in Seq(Pair) /\ Message(i)[1] = <<i, 1>> /\ 1 \in stream[i].dollars /\ i > 0
    <3>1. stream[i].len \in Nat \ {0} /\ 1 \in stream[i].dollars /\ i > 0
      BY <1>1, <1>8, MessageFacts, SMTT(60)
    <3>2. 1 \in 1..stream[i].len
      BY <3>1
    <3>. QED BY <1>1, <1>8, <3>1, <3>2, MessageIs, Zenon
  <2>3. Dollar(Message(i)[1])
    BY <2>2 DEF Dollar
  <2>4. PacketsOf(handed') = Append(PacketsOf(handed), Message(i))
    BY <1>1, <1>8, <2>2, <2>3, PacketsGrow, Zenon
  <2>5. PacketsOf(handed) = Sent(i - 1)
    BY <1>8, Zenon DEF KeptInv
  <2>6. Sent(i) = Append(Sent(i - 1), Message(i))
    BY <1>1, <1>8, SentStep, Zenon
  <2>. QED BY <2>1, <2>4, <2>5, <2>6, Zenon DEF BetweenPackets
<1>9. CASE CompleteKept
  <2>. DEFINE i == At(Done)[1]
  <2>0. cuts' = cuts
    BY <1>9 DEF CompleteKept
  <2>1. KeptInv
    BY <2>0 DEF PacketInv
  <2>2. /\ i \in Packets /\ i \in 1..Len(stream) /\ StartsPacket(kept)
        /\ stream' = stream /\ text = <<>> /\ text' = <<>> /\ cuts' = cuts /\ Seen' = Seen
        /\ Len(kept) < stream[i].len
        /\ \/ /\ handed' = Append(handed, Message(i)) /\ kept' = <<>>
              /\ At(Done') = <<i + 1, 1>>
           \/ /\ handed' = handed
              /\ Len(kept') = Len(kept) + Len(rest) /\ Len(kept') < stream[i].len
              /\ \A k \in 1..Len(kept') : kept'[k] = <<i, k>>
              /\ At(Done') = <<i, Len(kept') + 1>> /\ rest' = <<>>
    BY <1>9, <2>1, KeptCompleted, Zenon
  <2>3. ~StartsPacket(text')
    BY <1>3, <2>2, Zenon
  <2>4. CASE handed' = Append(handed, Message(i)) /\ kept' = <<>> /\ At(Done') = <<i + 1, 1>>
    <3>1. PacketsOf(handed') = Sent(At(Done')[1] - 1) /\ BetweenPackets(Done')
      BY <1>8, <2>1, <2>2, <2>4, Zenon
    <3>2. ~StartsPacket(kept')
      BY <1>3, <2>4, Zenon
    <3>. QED BY <1>7, <2>1, <2>2, <2>3, <3>1, <3>2, KeptNext, Zenon
  <2>5. CASE /\ handed' = handed
             /\ Len(kept') = Len(kept) + Len(rest) /\ Len(kept') < stream[i].len
             /\ \A k \in 1..Len(kept') : kept'[k] = <<i, k>>
             /\ At(Done') = <<i, Len(kept') + 1>> /\ rest' = <<>>
    <3>1. HeaderSize <= Len(kept')
      <4>1. HeaderSize <= Len(kept) /\ HeaderSize \in Nat
        BY <2>1, <2>2, SizeAssumption DEF KeptInv, PartKept
      <4>. QED BY <1>2, <2>5, <4>1
    <3>2. PartKept'
      BY <2>2, <2>5, <3>1, PartNext, Zenon
    <3>3. At(Done')[1] = i
      BY <2>5
    <3>4. PacketsOf(handed') = Sent(At(Done')[1] - 1)
      BY <2>1, <2>5, <3>3, Zenon DEF KeptInv
    <3>5. StartsPacket(kept')
      <4>1. kept' # <<>> /\ 1 \in 1..Len(kept')
        BY <1>2, <2>5, <3>1, SizeAssumption
      <4>2. kept'[1] = <<i, 1>> /\ i > 0 /\ 1 \in stream[i].dollars
        <5>1. i > 0 /\ 1 \in stream[i].dollars
          BY <1>1, <2>2, MessageFacts
        <5>. QED BY <2>5, <4>1, <5>1, Zenon
      <4>. QED BY <4>1, <4>2 DEF StartsPacket, Dollar
    <3>. QED BY <1>7, <2>1, <2>2, <2>3, <3>2, <3>4, <3>5, KeptNext, Zenon
  <2>. QED BY <2>2, <2>4, <2>5, Zenon
<1>10. CASE NothingKept \/ ScanEnds \/ UNCHANGED vars
  <2>1. /\ stream' = stream /\ wire' = wire /\ kept' = kept /\ text' = text /\ rest' = rest
        /\ handed' = handed /\ cuts' = cuts
    BY <1>10 DEF NothingKept, ScanEnds, vars
  <2>2. KeptInv /\ Packets' = Packets /\ All' = All /\ At(Done)' = At(Done')
    BY <2>1, StreamStays, SameStream DEF PacketInv
  <2>3. Seen' = Seen /\ Done' = Done
    BY <2>1, <2>2, Zenon DEF Seen, Done
  <2>4. StartsPacket(kept) => (pc' = "scan" => pc = "scan")
    <3>. SUFFICES ASSUME StartsPacket(kept), pc' = "scan" PROVE pc = "scan"
      OBVIOUS
    <3>1. CASE NothingKept
      <4>1. Len(kept) >= HeaderSize /\ Dollar(kept[1])
        BY <1>2, <2>2, SizeAssumption DEF KeptInv, PartKept, StartsPacket
      <4>. QED BY <3>1, <4>1 DEF NothingKept, PacketKept
    <3>2. CASE ScanEnds \/ UNCHANGED vars
      BY <3>2 DEF ScanEnds, vars
    <3>. QED BY <1>10, <3>1, <3>2
  <2>5. StartsPacket(kept') => PartKept'
    <3>. SUFFICES ASSUME StartsPacket(kept) PROVE PartKept'
      BY <2>1, Zenon
    <3>1. PartKept
      BY <2>2, Zenon DEF KeptInv
    <3>2. At(Done)' = At(Done)
      BY <2>2, <2>3, Zenon
    <3>. QED BY <2>1, <2>2, <2>4, <3>1, <3>2, Zenon DEF PartKept
  <2>6. ~StartsPacket(kept') => BetweenPackets(Done')
    BY <2>1, <2>2, <2>3, Zenon DEF KeptInv, BetweenPackets
  <2>7. ~StartsPacket(text') /\ PacketsOf(handed') = Sent(At(Done')[1] - 1)
    BY <2>1, <2>2, <2>3, Zenon DEF KeptInv
  <2>. QED BY <1>7, <2>1, <2>2, <2>3, <2>5, <2>6, <2>7, KeptNext, Zenon
<1>11. CASE ScanText
  <2>. DEFINE run == SubSeq(rest, 1, TextLen)
              all == kept \o run
              garbage == [j \in 1..TextLen |-> Garbage]
  <2>1. /\ stream' = stream /\ wire' = wire /\ cuts' = cuts /\ Seen' = Seen
        /\ text = <<>> /\ pc = "scan" /\ rest # <<>> /\ ~Dollar(rest[1])
        /\ TextLen \in 1..Len(rest) /\ TextLen \in 0..Len(rest) /\ Done' = Done + TextLen
        /\ \A j \in 1..TextLen : ~Dollar(rest[j])
        /\ run \in Seq(Pair) /\ Len(run) = TextLen
        /\ \A j \in 1..TextLen : run[j] = rest[j]
    BY <1>11, TextScanned, Zenon
  <2>2. KeptInv
    BY <2>1 DEF PacketInv
  <2>3. ~StartsPacket(kept) /\ BetweenPackets(Done)
    BY <2>1, <2>2, TextAhead, Zenon
  <2>4. BetweenPackets(Done') /\ Sent(At(Done')[1] - 1) = Sent(At(Done)[1] - 1)
    BY <2>1, <2>3, TextPassed, Zenon
  <2>5. \/ text' = run /\ kept' = kept /\ handed' = handed
        \/ handed' = Append(handed, all) /\ kept' = <<>> /\ text' = <<>>
        \/ kept' = all \o garbage /\ text' = <<>> /\ handed' = handed
    BY <1>11 DEF ScanText
  <2>. HIDE DEF run, garbage
  <2>6. ~StartsPacket(run) /\ run # <<>>
    <3>1. 1 \in 1..TextLen /\ TextLen # 0
      BY <1>2, <2>1
    <3>2. run # <<>>
      BY <2>1, <3>1
    <3>3. run[1] = rest[1]
      BY <2>1, <3>1, Zenon
    <3>. QED BY <2>1, <3>2, <3>3, Zenon DEF StartsPacket
  <2>7. all \in Seq(Pair) /\ ~StartsPacket(all) /\ all # <<>>
    <3>1. all \in Seq(Pair) /\ ~StartsPacket(all)
      BY <1>1, <1>4, <2>1, <2>3, <2>6, Zenon
    <3>2. Len(all) = Len(kept) + Len(run) /\ Len(run) \in Nat /\ Len(run) > 0
      <4>1. Len(all) = Len(kept) + Len(run)
        <5>. HIDE DEF Pair
        <5>. QED BY <1>1, <2>1, ConcatFacts
      <4>. QED BY <1>2, <2>1, <4>1
    <3>3. Len(all) # 0
      BY <1>2, <3>2
    <3>4. all # <<>>
      <4>. HIDE DEF all
      <4>. QED BY <3>3
    <3>. QED BY <3>1, <3>4
  <2>8. garbage \in Seq(Pair) /\ ~StartsPacket(all \o garbage)
    <3>1. Garbage \in Pair /\ TextLen \in Nat /\ ~Dollar(Garbage)
      BY <1>2, <2>1 DEF Garbage, Pair, Dollar
    <3>2. garbage \in Seq(Pair)
      <4>. HIDE DEF Pair, Garbage
      <4>. QED BY <3>1 DEF garbage
    <3>3. ~StartsPacket(garbage)
      <4>1. 1 \in 1..TextLen
        BY <1>2, <2>1
      <4>2. garbage[1] = Garbage
        BY <4>1 DEF garbage
      <4>. QED BY <3>1, <4>2, Zenon DEF StartsPacket
    <3>. QED BY <1>4, <2>7, <3>2, <3>3, Zenon
  <2>9. PacketsOf(Append(handed, all)) = PacketsOf(handed)
    BY <1>5, <2>7, Zenon
  <2>. HIDE DEF all
  <2>10. ~StartsPacket(kept') /\ ~StartsPacket(text') /\ PacketsOf(handed') = PacketsOf(handed)
    BY <1>3, <2>3, <2>5, <2>6, <2>8, <2>9, Zenon
  <2>11. PacketsOf(handed') = Sent(At(Done')[1] - 1)
    BY <2>2, <2>4, <2>10, Zenon DEF KeptInv
  <2>. QED BY <1>7, <2>1, <2>2, <2>4, <2>10, <2>11, KeptNext, Zenon
<1>12. CASE EndText
  <2>1. /\ stream' = stream /\ wire' = wire /\ rest' = rest /\ cuts' = cuts /\ text # <<>>
        /\ pc = "scan" /\ rest # <<>> /\ Dollar(rest[1])
        /\ handed' = Append(handed, kept \o text) /\ kept' = <<>> /\ text' = <<>>
    BY <1>12 DEF EndText
  <2>2. KeptInv /\ All' = All
    BY <2>1, StreamStays DEF PacketInv
  <2>3. Seen' = Seen /\ Done' = Done
    BY <2>1, <2>2, Zenon DEF Seen, Done
  <2>4. ~StartsPacket(kept) /\ ~StartsPacket(text)
    BY <2>1, <2>2, PacketAhead, Zenon DEF KeptInv
  <2>5. kept \o text \in Seq(Pair) /\ ~StartsPacket(kept \o text)
    BY <1>1, <1>4, <2>4, Zenon
  <2>6. kept \o text # <<>>
    <3>. HIDE DEF Pair
    <3>1. Len(kept \o text) = Len(kept) + Len(text)
      BY <1>1, ConcatFacts
    <3>2. Len(text) \in Nat /\ Len(text) # 0
      BY <1>1, <2>1
    <3>3. Len(kept \o text) # 0
      BY <1>2, <3>1, <3>2
    <3>. QED BY <3>3
  <2>7. PacketsOf(handed') = PacketsOf(handed)
    BY <1>5, <2>1, <2>5, <2>6, Zenon
  <2>8. PacketsOf(handed') = Sent(At(Done')[1] - 1)
    BY <2>2, <2>3, <2>7, Zenon DEF KeptInv
  <2>9. BetweenPackets(Done') /\ ~StartsPacket(kept') /\ ~StartsPacket(text')
    BY <1>3, <2>1, <2>2, <2>3, <2>4, Zenon DEF KeptInv, BetweenPackets
  <2>. QED BY <1>7, <2>1, <2>2, <2>3, <2>8, <2>9, KeptNext, Zenon
<1>13. CASE ScanPacket
  <2>. DEFINE i == At(Done)[1]
  <2>0. cuts' = cuts
    BY <1>13 DEF ScanPacket
  <2>1. KeptInv
    BY <2>0 DEF PacketInv
  <2>2. /\ i \in Packets /\ i \in 1..Len(stream) /\ ~StartsPacket(kept)
        /\ stream' = stream /\ text' = <<>> /\ Seen' = Seen
        /\ \/ /\ handed' = Append(handed, Message(i)) /\ kept' = kept
              /\ At(Done') = <<i + 1, 1>>
           \/ /\ handed' = handed
              /\ kept' # <<>> /\ HeaderSize <= Len(kept') /\ Len(kept') < stream[i].len
              /\ Len(kept') \in Nat
              /\ \A k \in 1..Len(kept') : kept'[k] = <<i, k>>
              /\ At(Done') = <<i, Len(kept') + 1>> /\ rest' = <<>>
    BY <1>13, <2>1, PacketScanned, Zenon
  <2>3. ~StartsPacket(text')
    BY <1>3, <2>2, Zenon
  <2>4. CASE handed' = Append(handed, Message(i)) /\ kept' = kept /\ At(Done') = <<i + 1, 1>>
    <3>1. PacketsOf(handed') = Sent(At(Done')[1] - 1) /\ BetweenPackets(Done')
      BY <1>8, <2>1, <2>2, <2>4, Zenon
    <3>. QED BY <1>7, <2>1, <2>2, <2>3, <2>4, <3>1, KeptNext, Zenon
  <2>5. CASE /\ handed' = handed
             /\ kept' # <<>> /\ HeaderSize <= Len(kept') /\ Len(kept') < stream[i].len
             /\ Len(kept') \in Nat
             /\ \A k \in 1..Len(kept') : kept'[k] = <<i, k>>
             /\ At(Done') = <<i, Len(kept') + 1>> /\ rest' = <<>>
    <3>1. PartKept'
      BY <2>2, <2>5, PartNext, Zenon
    <3>2. At(Done')[1] = i
      BY <2>5
    <3>3. PacketsOf(handed') = Sent(At(Done')[1] - 1)
      BY <2>1, <2>5, <3>2, Zenon DEF KeptInv
    <3>4. StartsPacket(kept')
      <4>1. 1 \in 1..Len(kept')
        BY <2>5, SizeAssumption
      <4>2. kept'[1] = <<i, 1>> /\ i > 0 /\ 1 \in stream[i].dollars
        <5>1. i > 0 /\ 1 \in stream[i].dollars
          BY <1>1, <2>2, MessageFacts, SMTT(60)
        <5>. QED BY <2>5, <4>1, <5>1, Zenon
      <4>. QED BY <2>5, <4>2 DEF StartsPacket, Dollar
    <3>. QED BY <1>7, <2>1, <2>2, <2>3, <3>1, <3>3, <3>4, KeptNext, Zenon
  <2>. QED BY <2>2, <2>4, <2>5, Zenon
<1>. QED BY <1>6, <1>9, <1>10, <1>11, <1>12, <1>13 DEF Next

---------------------------------------------------------------------------
(* If recv cuts no answer and never takes two together either, everything  *)
(* is handed over message by message.                                      *)
EndsWhole(b) == b[2] = stream[b[1]].len \/ b[1] \in Packets
NoneJoined(s) ==
  \A j \in 1..Len(s)-1 : ~ (s[j][1] \in Answers /\ s[j + 1][1] \in Answers \ {s[j][1]})
InOrder(s) == \A j \in 1..Len(s) : j \in 1..Len(stream) /\ s[j] = Message(j)

OneByOne ==
  /\ Seen >= 1 => EndsWhole(All[Seen])
  /\ NoneJoined(rest)
  /\ kept # <<>> => StartsPacket(kept)
  /\ kept = <<>> => At(Done)[2] = 1
  /\ InOrder(handed)
  /\ text = <<>> => Len(handed) = At(Done)[1] - 1
  /\ text # <<>> => /\ Len(handed) = At(Done)[1] - 2 /\ kept = <<>>
                    /\ text = Message(Len(handed) + 1)
  /\ Done = Len(Joined(Len(handed))) + Len(kept) + Len(text)

WholeInv == cuts = {} => OneByOne

LEMMA OneByOneNext ==
  ASSUME stream' = stream,
         Seen' >= 1 => EndsWhole(All[Seen']),
         NoneJoined(rest'),
         kept' # <<>> => StartsPacket(kept'),
         kept' = <<>> => At(Done')[2] = 1,
         InOrder(handed'),
         text' = <<>> => Len(handed') = At(Done')[1] - 1,
         text' # <<>> => /\ Len(handed') = At(Done')[1] - 2 /\ kept' = <<>>
                         /\ text' = Message(Len(handed') + 1),
         Done' = Len(Joined(Len(handed'))) + Len(kept') + Len(text')
  PROVE  OneByOne'
<1>1. /\ All' = All /\ Packets' = Packets /\ Answers' = Answers
      /\ At(Done)' = At(Done')
      /\ StartsPacket(kept)' <=> StartsPacket(kept')
  BY StreamStays, SameStream, Zenon
<1>2. EndsWhole(All[Seen])' <=> EndsWhole(All[Seen'])
  BY <1>1 DEF EndsWhole
<1>3. NoneJoined(rest)' <=> NoneJoined(rest')
  BY <1>1, Zenon DEF NoneJoined
<1>4. InOrder(handed)' <=> InOrder(handed')
  BY Zenon DEF InOrder, Message
<1>5. Message(Len(handed) + 1)' = Message(Len(handed') + 1)
  BY Zenon DEF Message
<1>6. Joined(Len(handed))' = Joined(Len(handed'))
  BY Zenon DEF Joined, Message
<1>. QED BY <1>1, <1>2, <1>3, <1>4, <1>5, <1>6, Zenon DEF OneByOne

(* What is behind ptr later has no joined answers either.                  *)
LEMMA NoneJoinedLater ==
  ASSUME StreamInv, stream' = stream, wire' = wire, NoneJoined(rest),
         NEW m \in 0..Len(rest), rest' = SubSeq(rest, m + 1, Len(rest))
  PROVE  NoneJoined(rest')
<1>1. /\ Len(rest') = Len(rest) - m /\ Len(rest) \in Nat
      /\ \A j \in 1..Len(rest') : rest'[j] = rest[m + j]
  BY RestDrops, RestBytes
<1>. SUFFICES ASSUME NEW j \in 1..Len(rest')-1
              PROVE  ~ (rest'[j][1] \in Answers /\ rest'[j + 1][1] \in Answers \ {rest'[j][1]})
  BY Zenon DEF NoneJoined
<1>2. /\ j \in 1..Len(rest') /\ j + 1 \in 1..Len(rest') /\ m + j \in 1..Len(rest)-1
      /\ m + (j + 1) = (m + j) + 1
  BY <1>1
<1>3. rest'[j] = rest[m + j] /\ rest'[j + 1] = rest[(m + j) + 1]
  BY <1>1, <1>2, Zenon
<1>. QED BY <1>2, <1>3, Zenon DEF NoneJoined

LEMMA NoneJoinedEmpty == NoneJoined(<<>>)
<1>1. Len(<<>>) - 1 = 0 - 1
  OBVIOUS
<1>. QED BY <1>1 DEF NoneJoined

(* The next message is handed over.                                        *)
LEMMA NextHanded ==
  ASSUME StreamInv, InOrder(handed), NEW i \in 1..Len(stream), Len(handed) = i - 1,
         handed' = Append(handed, Message(i))
  PROVE  /\ Len(handed') = i /\ InOrder(handed')
         /\ Len(Joined(Len(handed'))) = Len(Joined(Len(handed))) + stream[i].len
         /\ Len(Joined(Len(handed))) \in Nat /\ stream[i].len \in Nat
<1>1. /\ stream \in Streams /\ handed \in Seq(Seq(Pair)) /\ Message(i) \in Seq(Pair)
      /\ Len(stream) \in Nat /\ stream[i].len \in Nat
  BY MessageIs, MessageFacts DEF StreamInv, TypeInv
<1>2. i \in Nat /\ i - 1 \in 0..Len(stream) /\ (i - 1) + 1 = i
  BY <1>1
<1>3. /\ Len(handed') = Len(handed) + 1
      /\ \A p \in 1..Len(handed) : handed'[p] = handed[p]
      /\ handed'[Len(handed) + 1] = Message(i)
  <2>. HIDE DEF Pair
  <2>. QED BY <1>1, AppendFacts
<1>4. Len(handed') = i /\ handed'[i] = Message(i)
  BY <1>2, <1>3, Zenon
<1>5. \A j \in 1..i : j = i \/ j \in 1..Len(handed)
  BY <1>2
<1>6. InOrder(handed')
  <2>. SUFFICES ASSUME NEW j \in 1..i PROVE j \in 1..Len(stream) /\ handed'[j] = Message(j)
    BY <1>4, Zenon DEF InOrder
  <2>1. CASE j = i
    BY <1>4, <2>1, Zenon
  <2>2. CASE j \in 1..Len(handed)
    BY <1>3, <2>2, Zenon DEF InOrder
  <2>. QED BY <1>5, <2>1, <2>2, Zenon
<1>7. Len(Joined(i)) = Len(Joined(i - 1)) + stream[i].len
  BY <1>1, JoinedBegins, Zenon
<1>8. Len(Joined(i - 1)) \in Nat
  <2>1. Joined(i - 1) \in Seq(Pair)
    BY <1>1, <1>2, JoinedBegins, Zenon
  <2>. HIDE DEF Pair
  <2>. QED BY <2>1
<1>. QED BY <1>1, <1>4, <1>6, <1>7, <1>8, Zenon

(* An answer of the stream is complete.                                    *)
LEMMA AnswerComplete ==
  ASSUME stream \in Streams, NEW i \in Answers
  PROVE  Complete(Message(i))
<1>1. /\ i \in 1..Len(stream) /\ stream[i].len \in Nat /\ stream[i].len >= MinAnswer
      /\ stream[i].len \in stream[i].ends /\ i \in Nat /\ i > 0
      /\ MinAnswer \in Nat /\ MinAnswer > 1
  <2>1. i \in 1..Len(stream) /\ Len(stream) \in Nat
    BY MessageFacts
  <2>. QED BY <2>1, MessageFacts, SizeAssumption
<1>2. /\ Len(Message(i)) = stream[i].len
      /\ \A k \in 1..stream[i].len : Message(i)[k] = <<i, k>>
  BY <1>1, MessageIs
<1>. DEFINE n == stream[i].len
            M == Message(i)
<1>3. n \in 1..n /\ n - 1 \in 1..n
  BY <1>1
<1>4. M[n] = <<i, n>> /\ M[n - 1] = <<i, n - 1>>
  BY <1>2, <1>3, Zenon
<1>5. M[n][1] = i /\ M[n][2] = n
  BY <1>4
<1>. QED BY <1>1, <1>2, <1>4, <1>5, Zenon DEF Complete

(* A run of text is the answer that is next.                               *)
LEMMA TextIsAnswer ==
  ASSUME StreamInv, KeptInv, OneByOne, ScanText, NEW i, i = At(Done)[1]
  PROVE  /\ i \in Answers /\ i \in 1..Len(stream) /\ kept = <<>> /\ Len(handed) = i - 1
         /\ SubSeq(rest, 1, TextLen) = Message(i) /\ stream[i].len \in Nat \ {0}
         /\ At(Done') = <<i + 1, 1>> /\ Done' = Done + stream[i].len
<1>. DEFINE len == stream[i].len
            run == SubSeq(rest, 1, TextLen)
<1>1. /\ text = <<>> /\ pc = "scan" /\ rest # <<>> /\ ~Dollar(rest[1])
      /\ TextLen \in 1..Len(rest) /\ Done' = Done + TextLen
      /\ \A j \in 1..TextLen : ~Dollar(rest[j])
      /\ TextLen = Len(rest) \/ Dollar(rest[TextLen + 1])
      /\ run \in Seq(Pair) /\ Len(run) = TextLen
      /\ \A j \in 1..TextLen : run[j] = rest[j]
  BY TextScanned, Zenon
<1>2. ~StartsPacket(kept) /\ Done < Len(All) /\ i \in Answers
  BY <1>1, TextAhead, Zenon
<1>3. kept = <<>> /\ At(Done)[2] = 1 /\ Len(handed) = i - 1
  BY <1>1, <1>2, Zenon DEF OneByOne
<1>4. /\ stream \in Streams /\ Done \in Nat /\ Done \in 0..Len(All)-1 /\ Len(rest) \in Nat
      /\ Done + Len(rest) = Seen /\ Seen \in Nat
  BY <1>1, RestBytes DEF StreamInv, TypeInv
<1>5. At(Done) = <<i, 1>>
  BY <1>3, <1>4, AtLinks, Zenon
<1>6. /\ i \in 1..Len(stream) /\ len \in Nat
      /\ \A j \in 1..Len(rest) : j <= len - 1 + 1 => rest[j] = <<i, 1 + j - 1>>
      /\ At(Done + (len - 1 + 1)) = <<i + 1, 1>>
  BY <1>2, <1>5, RestRun, Zenon
<1>7. len \in Nat \ {0} /\ stream[i].dollars = {} /\ ~(i \in Packets) /\ i \in Nat
  <2>1. Len(stream) \in Nat
    BY <1>4, MessageFacts
  <2>. QED BY <1>2, <1>4, <1>6, <2>1, MessageFacts, SMTT(60)
<1>. HIDE DEF len, run
<1>8. \A j \in 1..Len(rest) : j <= len => rest[j] = <<i, j>>
  <2>1. len - 1 + 1 = len /\ \A j \in 1..Len(rest) : 1 + j - 1 = j
    BY <1>4, <1>6
  <2>. QED BY <1>6, <2>1, Zenon
<1>9. At(Done + len) = <<i + 1, 1>>
  <2>1. len - 1 + 1 = len
    BY <1>6
  <2>. QED BY <1>6, <2>1, Zenon
(* It does not end before the answer: the answer was not cut.              *)
<1>10. ~(TextLen < len)
  <2>. SUFFICES ASSUME TextLen < len PROVE FALSE
    OBVIOUS
  <2>1. CASE TextLen = Len(rest)
    <3>1. TextLen \in 1..Len(rest) /\ TextLen <= len /\ Seen >= 1 /\ Done + (TextLen - 1) = Seen - 1
      BY <1>1, <1>4, <1>7, <2>1
    <3>2. rest[TextLen] = <<i, TextLen>>
      BY <1>8, <3>1, Zenon
    <3>3. rest[TextLen] = At(Seen - 1) /\ All[Seen] = At(Seen - 1)
      <4>1. rest[TextLen] = At(Done + (TextLen - 1))
        BY <3>1, RestBytes, Zenon
      <4>. QED BY <3>1, <4>1, RestBytes, Zenon
    <3>4. EndsWhole(<<i, TextLen>>)
      BY <3>1, <3>2, <3>3, Zenon DEF OneByOne
    <3>5. TextLen = len \/ i \in Packets
      BY <3>4 DEF EndsWhole, len
    <3>6. TextLen = len
      BY <1>7, <3>5, Zenon
    <3>. QED BY <1>7, <3>6
  <2>2. CASE TextLen # Len(rest)
    <3>1. TextLen + 1 \in 1..Len(rest) /\ TextLen + 1 <= len
      BY <1>1, <1>4, <1>7, <2>2
    <3>2. rest[TextLen + 1] = <<i, TextLen + 1>>
      BY <1>8, <3>1, Zenon
    <3>3. Dollar(<<i, TextLen + 1>>)
      BY <1>1, <2>2, <3>2, Zenon
    <3>4. TextLen + 1 \in stream[i].dollars
      BY <3>3 DEF Dollar
    <3>. QED BY <1>7, <3>4
  <2>. QED BY <2>1, <2>2
(* Nor behind it: no answer came together with it.                         *)
<1>11. ~(TextLen > len)
  <2>. SUFFICES ASSUME TextLen > len PROVE FALSE
    OBVIOUS
  <2>1. /\ len \in 1..Len(rest) /\ len \in 1..Len(rest)-1 /\ len + 1 \in 1..Len(rest)
        /\ len + 1 \in 1..TextLen /\ len <= len /\ Done + ((len + 1) - 1) = Done + len
    BY <1>1, <1>4, <1>7
  <2>2. rest[len] = <<i, len>>
    BY <1>8, <2>1, Zenon
  <2>3. rest[len + 1] = <<i + 1, 1>>
    <3>1. rest[len + 1] = At(Done + ((len + 1) - 1))
      BY <2>1, RestBytes, Zenon
    <3>. QED BY <1>9, <2>1, <3>1, Zenon
  <2>4. Done + len \in 0..Len(All)-1
    <3>1. Done + ((len + 1) - 1) \in 0..Len(All)-1
      BY <2>1, RestBytes, Zenon
    <3>. QED BY <2>1, <3>1, Zenon
  <2>5. BetweenPackets(Done + len) /\ ~Dollar(At(Done + len))
    <3>1. At(Done + len)[2] = 1
      BY <1>9
    <3>2. ~Dollar(rest[len + 1])
      BY <1>1, <2>1, Zenon
    <3>. QED BY <1>9, <2>3, <3>1, <3>2, Zenon DEF BetweenPackets
  <2>6. At(Done + len)[1] \in Answers
    BY <1>4, <2>4, <2>5, TextByte, Zenon
  <2>7. i + 1 \in Answers /\ i + 1 # i
    BY <1>7, <1>9, <2>6
  <2>8. rest[len][1] = i /\ rest[len + 1][1] = i + 1
    BY <2>2, <2>3
  <2>9. rest[len][1] \in Answers /\ rest[len + 1][1] \in Answers \ {rest[len][1]}
    BY <1>2, <2>7, <2>8
  <2>. QED BY <2>1, <2>9, Zenon DEF OneByOne, NoneJoined
<1>12. TextLen = len
  BY <1>1, <1>4, <1>7, <1>10, <1>11
<1>13. run = Message(i)
  <2>1. \A j \in 1..len : j <= len /\ j \in 1..Len(rest)
    BY <1>1, <1>4, <1>7, <1>12
  <2>2. \A j \in 1..len : run[j] = <<i, j>>
    BY <1>1, <1>8, <1>12, <2>1, Zenon
  <2>. QED BY <1>1, <1>4, <1>6, <1>12, <2>2, IsMessage, Zenon DEF len
<1>. QED BY <1>1, <1>2, <1>3, <1>6, <1>7, <1>9, <1>12, <1>13, Zenon DEF len, run

---------------------------------------------------------------------------
LEMMA WholeInit == Init => WholeInv
<1>. SUFFICES ASSUME Init PROVE OneByOne
  BY DEF WholeInv
<1>1. /\ stream \in Streams /\ kept = <<>> /\ text = <<>> /\ rest = <<>> /\ handed = <<>>
  BY DEF Init
<1>2. wire = All
  <2>1. DOMAIN stream = 1..Len(stream)
    BY <1>1, MessageFacts
  <2>. QED BY <2>1, Zenon DEF Init, All, Joined
<1>3. Len(kept) = 0 /\ Len(text) = 0 /\ Len(handed) = 0 /\ Len(rest) = 0
  BY <1>1
<1>4. Seen = 0 /\ Done = 0
  <2>1. Len(All) \in Nat
    BY <1>1, AtLinks
  <2>. QED BY <1>2, <1>3, <2>1 DEF Seen, Done
<1>5. At(Done)[1] = 1 /\ At(Done)[2] = 1
  <2>1. At(0) = <<1, 1>>
    BY <1>1, AtLinks
  <2>. QED BY <1>4, <2>1
<1>6. NoneJoined(rest)
  BY <1>1, NoneJoinedEmpty, Zenon
<1>7. InOrder(handed)
  BY <1>3 DEF InOrder
<1>8. Done = Len(Joined(Len(handed))) + Len(kept) + Len(text)
  <2>1. Len(Joined(Len(handed))) = 0
    <3>1. Joined(0) = <<>> /\ Len(<<>>) = 0
      BY <1>1, JoinedStep
    <3>. QED BY <1>3, <3>1, Zenon
  <2>. QED BY <1>3, <1>4, <2>1
<1>9. Len(handed) = At(Done)[1] - 1 /\ ~(Seen >= 1)
  BY <1>3, <1>4, <1>5
<1>. QED BY <1>1, <1>5, <1>6, <1>7, <1>8, <1>9, Zenon DEF OneByOne

LEMMA WholeStep == StreamInv /\ PacketInv /\ WholeInv /\ [Next]_vars => WholeInv'
<1>. SUFFICES ASSUME StreamInv, PacketInv, WholeInv, [Next]_vars, cuts' = {}
              PROVE  OneByOne'
  BY DEF WholeInv
<1>1. /\ stream \in Streams /\ kept \in Seq(Pair) /\ text \in Seq(Pair) /\ rest \in Seq(Pair)
      /\ handed \in Seq(Seq(Pair))
      /\ text # <<>> => pc = "scan" /\ rest # <<>> /\ Dollar(rest[1])
      /\ Len(stream) \in Nat
  BY MessageFacts DEF StreamInv, TypeInv, Shape
<1>2. /\ Len(rest) \in Nat /\ Len(kept) \in Nat /\ Len(text) \in Nat
      /\ Seen \in Nat /\ Done \in Nat
      /\ Done + Len(rest) = Seen /\ Len(All) \in Nat
  BY RestBytes
<1>3. Len(<<>>) = 0
  OBVIOUS
<1>4. cuts = {} => KeptInv /\ OneByOne
  BY DEF PacketInv, WholeInv
<1>5. ASSUME Seen' = Seen, OneByOne PROVE Seen' >= 1 => EndsWhole(All[Seen'])
  BY <1>5, Zenon DEF OneByOne
<1>6. CASE \E n \in 1..Len(wire) : Recv(n)
  <2>1. PICK n \in 1..Len(wire) : Recv(n)
    BY <1>6
  <2>2. /\ stream' = stream /\ kept' = kept /\ handed' = handed /\ text' = <<>> /\ text = <<>>
        /\ cuts' = cuts \cup CutBy(n)
        /\ Done' = Done /\ Seen' = Seen + n /\ Len(rest') = n /\ n \in Nat
        /\ \A j \in 1..n : rest'[j] = wire[j]
        /\ wire[n] = All[Seen + n] /\ Seen + n \in 1..Len(All)
    BY <2>1, StreamRecv
  <2>3. OneByOne /\ CutBy(n) = {}
    BY <1>4, <2>2
  <2>4. EndsWhole(All[Seen'])
    <3>. DEFINE b == wire[n]
    <3>1. b[2] = stream[b[1]].len \/ b[1] \notin Answers
      BY <2>3 DEF CutBy
    <3>2. b[1] \in 1..Len(stream)
      <4>1. (Seen + n) - 1 \in 0..Len(All)-1 /\ ((Seen + n) - 1) + 1 = Seen + n
        BY <1>2, <2>2
      <4>2. /\ At((Seen + n) - 1) = All[((Seen + n) - 1) + 1]
            /\ At((Seen + n) - 1)[1] \in 1..Len(stream)
        BY <1>1, <4>1, AtLinks, Zenon
      <4>. QED BY <2>2, <4>1, <4>2, Zenon
    <3>3. b[1] \in Packets \/ b[1] \in Answers
      BY <1>1, <3>2, MessageFacts
    <3>4. EndsWhole(b)
      <4>. HIDE DEF b
      <4>. QED BY <3>1, <3>3 DEF EndsWhole
    <3>. QED BY <2>2, <3>4, Zenon
  <2>5. NoneJoined(rest')
    <3>1. ~ \E j \in 1..n-1 : /\ wire[j][1] \in Answers
                              /\ wire[j + 1][1] \in Answers \ {wire[j][1]}
      BY <2>3 DEF CutBy
    <3>2. \A j \in 1..n-1 : j \in 1..n /\ j + 1 \in 1..n
      BY <2>2
    <3>. QED BY <2>2, <3>1, <3>2, Zenon DEF NoneJoined
  <2>6. Done' = Len(Joined(Len(handed'))) + Len(kept') + Len(text')
    BY <2>2, <2>3, Zenon DEF OneByOne
  <2>7. /\ kept' # <<>> => StartsPacket(kept')
        /\ kept' = <<>> => At(Done')[2] = 1
        /\ InOrder(handed')
        /\ Len(handed') = At(Done')[1] - 1
    BY <2>2, <2>3, Zenon DEF OneByOne
  <2>. QED BY <2>2, <2>4, <2>5, <2>6, <2>7, OneByOneNext, Zenon
(* The message that begins the rest is handed over.                        *)
<1>7. ASSUME NEW i \in 1..Len(stream), i = At(Done)[1], OneByOne, text = <<>>,
             handed' = Append(handed, Message(i)), At(Done') = <<i + 1, 1>>,
             Done' = Done + (stream[i].len - Len(kept)), kept' = <<>>, text' = <<>>
      PROVE  /\ InOrder(handed') /\ Len(handed') = At(Done')[1] - 1 /\ At(Done')[2] = 1
             /\ Done' = Len(Joined(Len(handed'))) + Len(kept') + Len(text')
  <2>1. Len(handed) = i - 1 /\ InOrder(handed)
        /\ Done = Len(Joined(Len(handed))) + Len(kept) + Len(text)
    BY <1>7, Zenon DEF OneByOne
  <2>2. /\ Len(handed') = i /\ InOrder(handed')
        /\ Len(Joined(Len(handed'))) = Len(Joined(Len(handed))) + stream[i].len
        /\ Len(Joined(Len(handed))) \in Nat /\ stream[i].len \in Nat
    BY <1>7, <2>1, NextHanded, Zenon
  <2>3. At(Done')[1] = i + 1 /\ At(Done')[2] = 1 /\ i \in Nat
    BY <1>1, <1>7
  <2>4. Len(kept') = 0 /\ Len(text') = 0 /\ Len(text) = 0
    BY <1>3, <1>7, Zenon
  <2>5. Len(handed') = At(Done')[1] - 1
    BY <2>2, <2>3
  <2>6. Done' = Len(Joined(Len(handed'))) + Len(kept') + Len(text')
    <3>. DEFINE x == Len(Joined(Len(handed)))
                y == Len(Joined(Len(handed')))
                l == stream[i].len
    <3>1. /\ y = x + l /\ x \in Nat /\ l \in Nat /\ Done = x + Len(kept) + Len(text)
          /\ Done' = Done + (l - Len(kept))
      BY <1>7, <2>1, <2>2, Zenon
    <3>. HIDE DEF x, y, l
    <3>2. Done' = y + Len(kept') + Len(text')
      BY <1>2, <2>4, <3>1
    <3>. QED BY <3>2 DEF y
  <2>. QED BY <2>2, <2>3, <2>5, <2>6, Zenon
(* A packet is kept whose beginning is at the front of the rest.           *)
<1>8. ASSUME NEW i \in Packets, i \in 1..Len(stream), i = At(Done)[1], OneByOne, text = <<>>,
             stream' = stream, handed' = handed, text' = <<>>,
             Len(kept') = Len(kept) + Len(rest), Len(kept') >= 1,
             \A k \in 1..Len(kept') : kept'[k] = <<i, k>>,
             At(Done') = <<i, Len(kept') + 1>>, Done' = Done + Len(rest)
      PROVE  /\ kept' # <<>> /\ StartsPacket(kept')
             /\ InOrder(handed') /\ Len(handed') = At(Done')[1] - 1
             /\ Done' = Len(Joined(Len(handed'))) + Len(kept') + Len(text')
  <2>1. /\ Len(handed) = i - 1 /\ InOrder(handed)
        /\ Done = Len(Joined(Len(handed))) + Len(kept) + Len(text)
    BY <1>8, Zenon DEF OneByOne
  <2>2. At(Done')[1] = i
    BY <1>8
  <2>3. kept' # <<>> /\ 1 \in 1..Len(kept')
    BY <1>2, <1>8
  <2>4. StartsPacket(kept')
    <3>1. kept'[1] = <<i, 1>> /\ i > 0 /\ 1 \in stream[i].dollars
      <4>1. i > 0 /\ 1 \in stream[i].dollars
        BY <1>1, <1>8, MessageFacts
      <4>. QED BY <1>8, <2>3, <4>1, Zenon
    <3>. QED BY <2>3, <3>1 DEF StartsPacket, Dollar
  <2>5. Done' = Len(Joined(Len(handed'))) + Len(kept') + Len(text')
    <3>. DEFINE x == Len(Joined(Len(handed)))
    <3>1. /\ Done = x + Len(kept) + Len(text) /\ Len(text) = 0 /\ Len(text') = 0
          /\ Done' = Done + Len(rest) /\ Len(kept') = Len(kept) + Len(rest)
      BY <1>3, <1>8, <2>1, Zenon
    <3>2. x \in Nat
      <4>1. i - 1 \in 0..Len(stream)
        BY <1>1, <1>8
      <4>2. Joined(Len(handed)) \in Seq(Pair)
        BY <1>1, <2>1, <4>1, JoinedBegins, Zenon
      <4>. HIDE DEF Pair
      <4>. QED BY <4>2
    <3>. HIDE DEF x
    <3>3. Done' = x + Len(kept') + Len(text')
      BY <1>2, <3>1, <3>2
    <3>. QED BY <1>8, <3>3, Zenon DEF x
  <2>. QED BY <1>8, <2>1, <2>2, <2>3, <2>4, <2>5, Zenon
<1>9. CASE CompleteKept
  <2>. DEFINE i == At(Done)[1]
  <2>0. cuts' = cuts
    BY <1>9 DEF CompleteKept
  <2>1. KeptInv /\ OneByOne
    BY <1>4, <2>0
  <2>2. /\ i \in Packets /\ i \in 1..Len(stream) /\ StartsPacket(kept)
        /\ stream' = stream /\ text = <<>> /\ text' = <<>> /\ Seen' = Seen
        /\ \/ /\ handed' = Append(handed, Message(i)) /\ kept' = <<>>
              /\ At(Done') = <<i + 1, 1>>
              /\ Done' = Done + (stream[i].len - Len(kept))
              /\ \E m \in 0..Len(rest) : rest' = SubSeq(rest, m + 1, Len(rest))
              /\ wire' = wire
           \/ /\ handed' = handed
              /\ Len(kept') = Len(kept) + Len(rest)
              /\ \A k \in 1..Len(kept') : kept'[k] = <<i, k>>
              /\ At(Done') = <<i, Len(kept') + 1>>
              /\ Done' = Done + Len(rest) /\ rest' = <<>>
    BY <1>9, <2>1, KeptCompleted, Zenon
  <2>3. Seen' >= 1 => EndsWhole(All[Seen'])
    BY <1>5, <2>1, <2>2, Zenon
  <2>4. CASE /\ handed' = Append(handed, Message(i)) /\ kept' = <<>>
             /\ At(Done') = <<i + 1, 1>>
             /\ Done' = Done + (stream[i].len - Len(kept))
             /\ \E m \in 0..Len(rest) : rest' = SubSeq(rest, m + 1, Len(rest))
             /\ wire' = wire
    <3>1. /\ InOrder(handed') /\ Len(handed') = At(Done')[1] - 1 /\ At(Done')[2] = 1
          /\ Done' = Len(Joined(Len(handed'))) + Len(kept') + Len(text')
      BY <1>7, <2>1, <2>2, <2>4, Zenon
    <3>2. NoneJoined(rest')
      BY <2>1, <2>2, <2>4, NoneJoinedLater, Zenon DEF OneByOne
    <3>. QED BY <2>2, <2>3, <2>4, <3>1, <3>2, OneByOneNext, Zenon
  <2>5. CASE /\ handed' = handed
             /\ Len(kept') = Len(kept) + Len(rest)
             /\ \A k \in 1..Len(kept') : kept'[k] = <<i, k>>
             /\ At(Done') = <<i, Len(kept') + 1>>
             /\ Done' = Done + Len(rest) /\ rest' = <<>>
    <3>1. Len(kept') >= 1
      <4>1. kept # <<>>
        BY <2>2 DEF StartsPacket
      <4>2. Len(kept) # 0
        <5>. HIDE DEF Pair
        <5>. QED BY <1>1, <4>1
      <4>. QED BY <1>2, <2>5, <4>2
    <3>2. /\ kept' # <<>> /\ StartsPacket(kept')
          /\ InOrder(handed') /\ Len(handed') = At(Done')[1] - 1
          /\ Done' = Len(Joined(Len(handed'))) + Len(kept') + Len(text')
      BY <1>8, <2>1, <2>2, <2>5, <3>1, Zenon
    <3>3. NoneJoined(rest')
      BY <2>5, NoneJoinedEmpty, Zenon
    <3>. QED BY <2>2, <2>3, <3>2, <3>3, OneByOneNext, Zenon
  <2>. QED BY <2>2, <2>4, <2>5, Zenon
<1>10. CASE NothingKept \/ ScanEnds \/ UNCHANGED vars
  <2>1. /\ stream' = stream /\ wire' = wire /\ kept' = kept /\ text' = text /\ rest' = rest
        /\ handed' = handed /\ cuts' = cuts
    BY <1>10 DEF NothingKept, ScanEnds, vars
  <2>2. OneByOne /\ All' = All
    BY <1>4, <2>1, StreamStays
  <2>3. Seen' = Seen /\ Done' = Done
    BY <2>1, <2>2, Zenon DEF Seen, Done
  <2>4. /\ NoneJoined(rest')
        /\ kept' # <<>> => StartsPacket(kept')
        /\ kept' = <<>> => At(Done')[2] = 1
        /\ InOrder(handed')
        /\ text' = <<>> => Len(handed') = At(Done')[1] - 1
        /\ text' # <<>> => /\ Len(handed') = At(Done')[1] - 2 /\ kept' = <<>>
                           /\ text' = Message(Len(handed') + 1)
        /\ Done' = Len(Joined(Len(handed'))) + Len(kept') + Len(text')
    BY <2>1, <2>2, <2>3, Zenon DEF OneByOne
  <2>. QED BY <1>5, <2>1, <2>2, <2>3, <2>4, OneByOneNext, Zenon
<1>11. CASE ScanText
  <2>. DEFINE run == SubSeq(rest, 1, TextLen)
              all == kept \o run
              i == At(Done)[1]
  <2>1. /\ stream' = stream /\ wire' = wire /\ cuts' = cuts /\ Seen' = Seen
        /\ text = <<>> /\ TextLen \in 0..Len(rest)
        /\ rest' = SubSeq(rest, TextLen + 1, Len(rest))
    BY <1>11, TextScanned, Zenon
  <2>2. KeptInv /\ OneByOne
    BY <1>4, <2>1
  <2>3. /\ i \in Answers /\ i \in 1..Len(stream) /\ kept = <<>> /\ Len(handed) = i - 1
        /\ run = Message(i) /\ stream[i].len \in Nat \ {0}
        /\ At(Done') = <<i + 1, 1>> /\ Done' = Done + stream[i].len
    BY <1>11, <2>2, TextIsAnswer, Zenon
  <2>4. NoneJoined(rest')
    BY <2>1, <2>2, NoneJoinedLater, Zenon DEF OneByOne
  <2>5. all = Message(i)
    <3>1. Message(i) \in Seq(Pair)
      BY <1>1, <2>3, MessageIs
    <3>2. <<>> \o Message(i) = Message(i)
      <4>. HIDE DEF Pair
      <4>. QED BY <3>1, ConcatEmptySeq
    <3>. QED BY <2>3, <3>2, Zenon
  <2>6. Complete(all)
    BY <1>1, <2>3, <2>5, AnswerComplete, Zenon
  <2>7. \/ TextLen < Len(rest) /\ text' = run /\ kept' = kept /\ handed' = handed
        \/ handed' = Append(handed, all) /\ kept' = <<>> /\ text' = <<>>
    BY <1>11, <2>6 DEF ScanText
  <2>8. At(Done')[1] = i + 1 /\ At(Done')[2] = 1 /\ i \in Nat
    BY <1>1, <2>3
  <2>. HIDE DEF run, all
  <2>9. CASE text' = run /\ kept' = kept /\ handed' = handed
    <3>1. /\ Len(handed') = At(Done')[1] - 2 /\ Len(handed') + 1 = i
      BY <2>3, <2>8, <2>9
    <3>2. text' = Message(Len(handed') + 1)
      BY <2>3, <2>9, <3>1, Zenon
    <3>3. Len(text') = stream[i].len
      BY <1>1, <2>3, <2>9, MessageIs, Zenon
    <3>4. text' # <<>>
      BY <1>3, <2>3, <3>3
    <3>5. Done' = Len(Joined(Len(handed'))) + Len(kept') + Len(text')
      <4>. DEFINE x == Len(Joined(Len(handed)))
                  l == stream[i].len
      <4>1. /\ Done = x + Len(kept) + Len(text) /\ Len(text) = 0 /\ Len(text') = l
            /\ Done' = Done + l /\ Len(kept) = 0 /\ Len(kept') = 0 /\ l \in Nat \ {0}
        BY <1>3, <2>1, <2>2, <2>3, <2>9, <3>3, Zenon DEF OneByOne
      <4>2. x \in Nat
        <5>1. i - 1 \in 0..Len(stream)
          BY <1>1, <2>3
        <5>2. Joined(Len(handed)) \in Seq(Pair)
          BY <1>1, <2>3, <5>1, JoinedBegins, Zenon
        <5>. HIDE DEF Pair
        <5>. QED BY <5>2
      <4>. HIDE DEF x, l
      <4>3. Done' = x + Len(kept') + Len(text')
        BY <4>1, <4>2
      <4>. QED BY <2>9, <4>3, Zenon DEF x
    <3>6. InOrder(handed') /\ kept' = <<>>
      BY <2>2, <2>3, <2>9, Zenon DEF OneByOne
    <3>. QED BY <1>5, <2>1, <2>2, <2>4, <2>8, <3>1, <3>2, <3>4, <3>5, <3>6, OneByOneNext, Zenon
  <2>10. CASE handed' = Append(handed, all) /\ kept' = <<>> /\ text' = <<>>
    <3>1. handed' = Append(handed, Message(i))
      BY <2>5, <2>10, Zenon
    <3>2. Done' = Done + (stream[i].len - Len(kept))
      <4>1. Len(kept) = 0
        BY <1>3, <2>3, Zenon
      <4>2. stream[i].len - Len(kept) = stream[i].len
        BY <2>3, <4>1
      <4>. QED BY <2>3, <4>2, Zenon
    <3>3. /\ InOrder(handed') /\ Len(handed') = At(Done')[1] - 1 /\ At(Done')[2] = 1
          /\ Done' = Len(Joined(Len(handed'))) + Len(kept') + Len(text')
      BY <1>7, <2>1, <2>2, <2>3, <2>10, <3>1, <3>2, Zenon
    <3>. QED BY <1>5, <2>1, <2>2, <2>4, <2>10, <3>3, OneByOneNext, Zenon
  <2>. QED BY <2>7, <2>9, <2>10, Zenon
<1>12. CASE EndText
  <2>1. /\ stream' = stream /\ wire' = wire /\ rest' = rest /\ cuts' = cuts /\ text # <<>>
        /\ pc = "scan" /\ rest # <<>>
        /\ handed' = Append(handed, kept \o text) /\ kept' = <<>> /\ text' = <<>>
    BY <1>12 DEF EndText
  <2>2. KeptInv /\ OneByOne /\ All' = All
    BY <1>4, <2>1, StreamStays
  <2>3. Seen' = Seen /\ Done' = Done
    BY <2>1, <2>2, Zenon DEF Seen, Done
  <2>4. Len(handed) = At(Done)[1] - 2 /\ kept = <<>> /\ text = Message(Len(handed) + 1)
        /\ InOrder(handed) /\ NoneJoined(rest)
        /\ Done = Len(Joined(Len(handed))) + Len(kept) + Len(text)
    BY <2>1, <2>2, Zenon DEF OneByOne
  <2>. DEFINE i == Len(handed) + 1
  <2>5. Len(handed) \in Nat /\ At(Done)[1] \in 1..Len(stream)
    <3>1. Len(handed) \in Nat
      <4>. HIDE DEF Pair
      <4>. QED BY <1>1
    <3>2. Done \in 0..Len(All)-1
      BY <2>1, RestBytes
    <3>. QED BY <1>1, <3>1, <3>2, AtLinks, Zenon
  <2>6. i \in 1..Len(stream) /\ Len(handed) = i - 1 /\ At(Done)[1] - 1 = i
    BY <1>1, <2>4, <2>5, SMTT(60)
  <2>7. At(Done)[2] = 1
    BY <2>2, <2>4, Zenon DEF OneByOne
  <2>. HIDE DEF i
  <2>8. handed' = Append(handed, Message(i))
    <3>1. kept \o text = text
      <4>. HIDE DEF Pair
      <4>. QED BY <1>1, <2>4, ConcatEmptySeq
    <3>. QED BY <2>1, <2>4, <3>1, Zenon DEF i
  <2>9. /\ Len(handed') = i /\ InOrder(handed')
        /\ Len(Joined(Len(handed'))) = Len(Joined(Len(handed))) + stream[i].len
        /\ Len(Joined(Len(handed))) \in Nat /\ stream[i].len \in Nat
    BY <2>4, <2>6, <2>8, NextHanded, Zenon
  <2>10. Len(text) = stream[i].len
    BY <1>1, <2>4, <2>6, MessageIs, Zenon DEF i
  <2>11. Done' = Len(Joined(Len(handed'))) + Len(kept') + Len(text')
    <3>. DEFINE x == Len(Joined(Len(handed)))
                y == Len(Joined(Len(handed')))
                l == stream[i].len
    <3>1. /\ y = x + l /\ x \in Nat /\ l \in Nat /\ Done = x + Len(kept) + l
          /\ Done' = Done /\ Len(kept) = 0 /\ Len(kept') = 0 /\ Len(text') = 0
      BY <1>3, <2>1, <2>3, <2>4, <2>9, <2>10, Zenon
    <3>. HIDE DEF x, y, l
    <3>2. Done' = y + Len(kept') + Len(text')
      BY <3>1
    <3>. QED BY <3>2 DEF y
  <2>12. Len(handed') = At(Done')[1] - 1 /\ At(Done')[2] = 1
    BY <2>3, <2>6, <2>7, <2>9, Zenon
  <2>. QED BY <1>5, <2>1, <2>2, <2>3, <2>4, <2>9, <2>11, <2>12, OneByOneNext, Zenon
<1>13. CASE ScanPacket
  <2>. DEFINE i == At(Done)[1]
  <2>0. cuts' = cuts
    BY <1>13 DEF ScanPacket
  <2>1. KeptInv /\ OneByOne
    BY <1>4, <2>0
  <2>2. /\ i \in Packets /\ i \in 1..Len(stream) /\ ~StartsPacket(kept)
        /\ stream[i].len \in Nat
        /\ stream' = stream /\ text = <<>> /\ text' = <<>> /\ Seen' = Seen
        /\ \/ /\ handed' = Append(handed, Message(i)) /\ kept' = kept
              /\ At(Done') = <<i + 1, 1>> /\ Done' = Done + stream[i].len
              /\ \E m \in 0..Len(rest) : rest' = SubSeq(rest, m + 1, Len(rest))
              /\ wire' = wire
           \/ /\ handed' = handed /\ kept' = rest
              /\ HeaderSize <= Len(kept')
              /\ \A k \in 1..Len(kept') : kept'[k] = <<i, k>>
              /\ At(Done') = <<i, Len(kept') + 1>>
              /\ Done' = Done + Len(rest) /\ rest' = <<>>
    BY <1>13, <2>1, PacketScanned, Zenon
  <2>3. kept = <<>> /\ Len(kept) = 0
    BY <1>3, <2>1, <2>2, Zenon DEF OneByOne
  <2>4. Seen' >= 1 => EndsWhole(All[Seen'])
    BY <1>5, <2>1, <2>2, Zenon
  <2>5. CASE /\ handed' = Append(handed, Message(i)) /\ kept' = kept
             /\ At(Done') = <<i + 1, 1>> /\ Done' = Done + stream[i].len
             /\ \E m \in 0..Len(rest) : rest' = SubSeq(rest, m + 1, Len(rest))
             /\ wire' = wire
    <3>1. Done' = Done + (stream[i].len - Len(kept))
      <4>1. stream[i].len - Len(kept) = stream[i].len
        BY <2>2, <2>3
      <4>. QED BY <2>5, <4>1, Zenon
    <3>2. kept' = <<>>
      BY <2>3, <2>5, Zenon
    <3>3. /\ InOrder(handed') /\ Len(handed') = At(Done')[1] - 1 /\ At(Done')[2] = 1
          /\ Done' = Len(Joined(Len(handed'))) + Len(kept') + Len(text')
      BY <1>7, <2>1, <2>2, <2>5, <3>1, <3>2, Zenon
    <3>4. NoneJoined(rest')
      BY <2>1, <2>2, <2>5, NoneJoinedLater, Zenon DEF OneByOne
    <3>. QED BY <2>2, <2>4, <3>2, <3>3, <3>4, OneByOneNext, Zenon
  <2>6. CASE /\ handed' = handed /\ kept' = rest
             /\ HeaderSize <= Len(kept')
             /\ \A k \in 1..Len(kept') : kept'[k] = <<i, k>>
             /\ At(Done') = <<i, Len(kept') + 1>>
             /\ Done' = Done + Len(rest) /\ rest' = <<>>
    <3>1. Len(kept') = Len(kept) + Len(rest) /\ Len(kept') >= 1
      <4>1. Len(kept') = Len(rest)
        BY <2>6, Zenon
      <4>2. HeaderSize \in Nat \ {0} /\ HeaderSize <= Len(kept')
        BY <2>6, SizeAssumption
      <4>. QED BY <1>2, <2>3, <4>1, <4>2
    <3>2. /\ kept' # <<>> /\ StartsPacket(kept')
          /\ InOrder(handed') /\ Len(handed') = At(Done')[1] - 1
          /\ Done' = Len(Joined(Len(handed'))) + Len(kept') + Len(text')
      BY <1>8, <2>1, <2>2, <2>6, <3>1, Zenon
    <3>3. NoneJoined(rest')
      BY <2>6, NoneJoinedEmpty, Zenon
    <3>. QED BY <2>2, <2>4, <3>2, <3>3, OneByOneNext, Zenon
  <2>. QED BY <2>2, <2>5, <2>6, Zenon
<1>. QED BY <1>6, <1>9, <1>10, <1>11, <1>12, <1>13 DEF Next

---------------------------------------------------------------------------
Inv == StreamInv /\ PacketInv /\ WholeInv

LEMMA InvHolds == Spec => []Inv
<1>1. Init => Inv
  BY StreamInit, PacketInit, WholeInit DEF Inv
<1>2. Inv /\ [Next]_vars => Inv'
  BY StreamStep, PacketStep, WholeStep DEF Inv
<1>. QED BY <1>1, <1>2, PTL DEF Spec

(* Every variable stays in its type, and what recv has not given out yet   *)
(* and what recv_from_rtsp_sd has not looked at yet are always the end of  *)
(* the stream, whatever lengths the pieces have and whatever size a        *)
(* misread header gives.                                                   *)
THEOREM RestIsTheStreamsEnd == Spec => []StreamInv
<1>1. Inv => StreamInv
  BY DEF Inv
<1>. QED BY <1>1, InvHolds, PTL

(* As long as recv cuts no header, handle_intlvd_data gets the packets of  *)
(* the stream, whole, each once and in order.                              *)
THEOREM PacketsStayWhole == Spec => []PacketsAreWhole
<1>1. Inv => PacketsAreWhole
  <2>. SUFFICES ASSUME Inv, "header" \notin cuts
                PROVE  IsPrefix(PacketsOf(handed),
                                PacketsOf([i \in DOMAIN stream |-> Message(i)]))
    BY DEF PacketsAreWhole
  <2>1. StreamInv /\ KeptInv
    BY DEF Inv, PacketInv
  <2>2. stream \in Streams /\ Done \in Nat /\ Done <= Len(All) /\ Len(All) \in Nat
        /\ Len(stream) \in Nat /\ DOMAIN stream = 1..Len(stream)
    BY <2>1, RestBytes, MessageFacts DEF StreamInv, TypeInv
  <2>3. At(Done)[1] - 1 \in 0..Len(stream)
    <3>1. CASE Done = Len(All)
      <4>1. At(Done) = <<Len(stream) + 1, 1>>
        BY <2>2, <3>1, AtLinks, Zenon
      <4>. QED BY <2>2, <4>1
    <3>2. CASE Done # Len(All)
      <4>1. Done \in 0..Len(All)-1
        BY <2>2, <3>2
      <4>2. At(Done)[1] \in 1..Len(stream)
        BY <2>2, <4>1, AtLinks, Zenon
      <4>. QED BY <2>2, <4>2
    <3>. QED BY <3>1, <3>2
  <2>4. PacketsOf(handed) = Sent(At(Done)[1] - 1)
    BY <2>1, Zenon DEF KeptInv
  <2>5. IsPrefix(Sent(At(Done)[1] - 1), Sent(Len(stream)))
    BY <2>2, <2>3, SentBegins, Zenon
  <2>6. PacketsOf([i \in DOMAIN stream |-> Message(i)]) = Sent(Len(stream))
    BY <2>2, Zenon DEF Sent
  <2>. QED BY <2>4, <2>5, <2>6, Zenon
<1>. QED BY <1>1, InvHolds, PTL

(* If recv does not cut an answer or take two together either, every       *)
(* message is handed over whole and in order, answers and packets alike.   *)
THEOREM MessagesStayWhole == Spec => []MessagesAreWhole
<1>1. Inv => MessagesAreWhole
  <2>. SUFFICES ASSUME Inv, cuts = {}, NEW j \in DOMAIN handed
                PROVE  j \in DOMAIN stream /\ handed[j] = Message(j)
    BY DEF MessagesAreWhole
  <2>1. OneByOne /\ handed \in Seq(Seq(Pair)) /\ stream \in Streams
    BY DEF Inv, WholeInv, StreamInv, TypeInv
  <2>2. DOMAIN handed = 1..Len(handed) /\ DOMAIN stream = 1..Len(stream)
    <3>1. DOMAIN handed = 1..Len(handed)
      <4>. HIDE DEF Pair
      <4>. QED BY <2>1
    <3>. QED BY <2>1, <3>1, MessageFacts
  <2>. QED BY <2>1, <2>2, Zenon DEF OneByOne, InOrder
<1>. QED BY <1>1, InvHolds, PTL

(* And when the client waits in recv again, what was handed over and what  *)
(* last_data keeps are all that has come.                                  *)
THEOREM NothingStaysLost == Spec => []NothingIsLost
<1>1. Inv => NothingIsLost
  <2>. SUFFICES ASSUME Inv, cuts = {}, pc = "recv"
                PROVE  FlattenSeq(handed) \o kept \o wire
                         = FlattenSeq([i \in DOMAIN stream |-> Message(i)])
    BY DEF NothingIsLost
  <2>. DEFINE m == Len(handed)
              J == Joined(m)
  <2>1. StreamInv /\ KeptInv /\ OneByOne
    BY DEF Inv, PacketInv, WholeInv
  <2>2. /\ stream \in Streams /\ handed \in Seq(Seq(Pair)) /\ kept \in Seq(Pair)
        /\ wire \in Seq(Pair) /\ rest = <<>> /\ text = <<>>
    BY <2>1 DEF StreamInv, TypeInv, Shape
  <2>3. /\ Len(stream) \in Nat /\ DOMAIN stream = 1..Len(stream)
        /\ Len(All) \in Nat /\ All \in Seq(Pair)
        /\ Done \in Nat /\ Seen \in Nat /\ Done + Len(rest) = Seen
        /\ Len(wire) \in Nat /\ Len(kept) \in Nat /\ Seen <= Len(All)
    BY <2>1, <2>2, RestBytes, MessageFacts, AtLinks
  <2>4. Len(rest) = 0 /\ Len(text) = 0
    BY <2>2
  <2>5. m \in Nat
    <3>. HIDE DEF Pair
    <3>. QED BY <2>2
  <2>6. InOrder(handed) /\ m = At(Done)[1] - 1 /\ Done = Len(J) + Len(kept) + Len(text)
    BY <2>1, <2>2, Zenon DEF OneByOne
  <2>7. m \in 0..Len(stream)
    <3>1. CASE m = 0
      BY <2>3, <3>1
    <3>2. CASE m # 0
      <4>1. m \in 1..m
        BY <2>5, <3>2
      <4>2. m \in 1..Len(stream)
        BY <2>6, <4>1, Zenon DEF InOrder
      <4>. QED BY <2>3, <4>2
    <3>. QED BY <3>1, <3>2
  <2>8. FlattenSeq(handed) = J
    <3>. DEFINE l == [i \in 1..m |-> Message(i)]
    <3>1. l \in Seq(Seq(Pair)) /\ Len(l) = m
      BY <2>2, <2>7, ListIs, Zenon
    <3>2. \A j \in 1..m : handed[j] = l[j]
      BY <2>6, Zenon DEF InOrder
    <3>. HIDE DEF l
    <3>3. handed = l
      <4>. HIDE DEF Pair
      <4>. QED BY <2>2, <3>1, <3>2, SameElements, Zenon
    <3>. QED BY <3>3, Zenon DEF l, Joined
  <2>9. /\ J \in Seq(Pair) /\ Len(J) <= Len(All)
        /\ \A p \in 1..Len(J) : J[p] = All[p]
    BY <2>2, <2>7, JoinedBegins, Zenon
  <2>10. Len(J) \in Nat
    <3>. HIDE DEF Pair, J
    <3>. QED BY <2>9
  <2>. HIDE DEF m, J
  <2>11. Seen = Len(All) - Len(wire) /\ Seen = Done /\ Done = Len(J) + Len(kept)
    <3>1. Seen = Len(All) - Len(wire)
      BY Zenon DEF Seen
    <3>. QED BY <2>3, <2>4, <2>6, <2>10, <3>1
(* What is kept follows what was handed over.                              *)
  <2>12. \A k \in 1..Len(kept) : kept[k] = All[Len(J) + k]
    <3>. SUFFICES ASSUME NEW k \in 1..Len(kept) PROVE kept[k] = All[Len(J) + k]
      OBVIOUS
    <3>. DEFINE i == At(Done)[1]
    <3>1. kept # <<>>
      BY <2>3
    <3>2. PartKept
      BY <2>1, <3>1, Zenon DEF KeptInv, OneByOne
    <3>3. i \in Packets /\ Len(kept) < stream[i].len /\ kept[k] = <<i, k>>
      BY <3>2, Zenon DEF PartKept
    <3>4. i \in 1..Len(stream) /\ stream[i].len \in Nat
      BY <2>2, <3>3, MessageFacts
    <3>. HIDE DEF i
    <3>5. i - 1 = m /\ i \in 0..Len(stream)
      BY <2>3, <2>6, <3>4 DEF i
    <3>6. /\ Message(i) \in Seq(Pair) /\ Len(Message(i)) = stream[i].len
          /\ \A q \in 1..stream[i].len : Message(i)[q] = <<i, q>>
      BY <2>2, <3>4, MessageIs
    <3>7. Joined(i) = J \o Message(i)
      BY <2>2, <3>4, <3>5, JoinedStep, Zenon DEF J
    <3>8. k \in 1..stream[i].len
      BY <2>3, <3>3, <3>4
    <3>9. /\ Len(J \o Message(i)) = Len(J) + Len(Message(i))
          /\ \A q \in 1..Len(Message(i)) : (J \o Message(i))[Len(J) + q] = Message(i)[q]
      <4>1. J \in Seq(Pair) /\ Message(i) \in Seq(Pair)
        BY <2>9, <3>6, Zenon
      <4>. HIDE DEF Pair
      <4>. QED BY <4>1, ConcatFacts, SMTT(60)
    <3>10. Joined(i)[Len(J) + k] = <<i, k>> /\ Len(Joined(i)) = Len(J) + stream[i].len
      BY <3>6, <3>7, <3>8, <3>9, Zenon
    <3>11. Len(J) + k \in 1..Len(Joined(i))
      BY <2>10, <3>4, <3>8, <3>10
    <3>12. Joined(i)[Len(J) + k] = All[Len(J) + k]
      BY <2>2, <3>5, <3>11, JoinedBegins, Zenon
    <3>. QED BY <3>3, <3>10, <3>12, Zenon
  <2>13. \A j \in 1..Len(wire) : wire[j] = All[(Len(J) + Len(kept)) + j]
    BY <2>1, <2>11, Zenon DEF StreamInv, Shape
  <2>. DEFINE x == J \o kept
              y == x \o wire
  <2>14. /\ x \in Seq(Pair) /\ Len(x) = Len(J) + Len(kept)
         /\ \A p \in 1..Len(J) : x[p] = J[p]
         /\ \A k \in 1..Len(kept) : x[Len(J) + k] = kept[k]
    <3>. HIDE DEF Pair
    <3>. QED BY <2>2, <2>9, ConcatFacts
  <2>. HIDE DEF x
  <2>15. /\ y \in Seq(Pair) /\ Len(y) = Len(x) + Len(wire)
         /\ \A p \in 1..Len(x) : y[p] = x[p]
         /\ \A j \in 1..Len(wire) : y[Len(x) + j] = wire[j]
    <3>1. x \in Seq(Pair) /\ wire \in Seq(Pair)
      BY <2>2, <2>14
    <3>. HIDE DEF Pair
    <3>. QED BY <3>1, ConcatFacts
  <2>. HIDE DEF y
  <2>16. Len(y) = Len(All)
    <3>1. Len(y) = (Len(J) + Len(kept)) + Len(wire)
      BY <2>14, <2>15, Zenon
    <3>2. Len(All) - Len(wire) = Len(J) + Len(kept)
      BY <2>11, Zenon
    <3>. QED BY <2>3, <2>10, <3>1, <3>2
  <2>17. ASSUME NEW p \in 1..Len(y) PROVE y[p] = All[p]
    <3>1. CASE p <= Len(J)
      <4>1. p \in 1..Len(J) /\ p \in 1..Len(x)
        BY <2>3, <2>10, <2>14, <3>1
      <4>. QED BY <2>9, <2>14, <2>15, <4>1, Zenon
    <3>2. CASE p > Len(J) /\ p <= Len(x)
      <4>. DEFINE k == p - Len(J)
      <4>1. k \in 1..Len(kept) /\ Len(J) + k = p /\ p \in 1..Len(x)
        BY <2>3, <2>10, <2>14, <3>2
      <4>. HIDE DEF k
      <4>2. x[Len(J) + k] = kept[k] /\ kept[k] = All[Len(J) + k]
        BY <2>12, <2>14, <4>1, Zenon
      <4>. QED BY <2>15, <4>1, <4>2, Zenon
    <3>3. CASE p > Len(x)
      <4>. DEFINE j == p - Len(x)
      <4>1. j \in 1..Len(wire) /\ Len(x) + j = p
        <5>1. Len(x) \in Nat /\ Len(y) = Len(x) + Len(wire)
          BY <2>3, <2>10, <2>14, <2>15
        <5>. QED BY <2>3, <3>3, <5>1
      <4>. HIDE DEF j
      <4>2. y[Len(x) + j] = wire[j] /\ wire[j] = All[(Len(J) + Len(kept)) + j]
        BY <2>13, <2>15, <4>1, Zenon
      <4>. QED BY <2>14, <4>1, <4>2, Zenon
    <3>4. Len(J) \in Nat /\ Len(x) \in Nat /\ p \in Int
      BY <2>3, <2>10, <2>14
    <3>. QED BY <3>1, <3>2, <3>3, <3>4
  <2>18. y = All
    <3>. HIDE DEF Pair
    <3>. QED BY <2>3, <2>15, <2>16, <2>17, SameElements, Zenon
  <2>19. FlattenSeq([i \in DOMAIN stream |-> Message(i)]) = All
    BY <2>3, Zenon DEF All, Joined
  <2>. QED BY <2>8, <2>18, <2>19, Zenon DEF x, y
<1>. QED BY <1>1, InvHolds, PTL
=============================================================================
