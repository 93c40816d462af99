---------------------------- MODULE QueueLemmas ----------------------------
(* Lemmas about one FIFO queue cut into consecutive pieces, and about a    *)
(* stream of packets.                                                      *)
EXTENDS Naturals, Sequences, SequenceTheorems, TLAPS

(* A head that moves to the end of the piece before it changes nothing.    *)
LEMMA MoveHead ==
  ASSUME NEW S, NEW s \in Seq(S), NEW t \in Seq(S), t # << >>
  PROVE  Append(s, Head(t)) \o Tail(t) = s \o t
<1>1. Head(t) \in S /\ Tail(t) \in Seq(S)
  BY HeadTailProperties
<1>2. Append(s, Head(t)) = s \o <<Head(t)>>
  BY <1>1, AppendIsConcat
<1>3. <<Head(t)>> \in Seq(S)
  BY <1>1
<1>4. (s \o <<Head(t)>>) \o Tail(t) = s \o (<<Head(t)>> \o Tail(t))
  BY <1>1, <1>3, ConcatAssociative
<1>5. <<Head(t)>> \o Tail(t) = t
  BY <1>1, SMTT(20)
<1> QED
  BY <1>2, <1>4, <1>5

(* An element appended to the last piece is appended to the whole queue.   *)
LEMMA AppendToLast ==
  ASSUME NEW S, NEW s \in Seq(S), NEW t \in Seq(S), NEW e \in S
  PROVE  s \o Append(t, e) = Append(s \o t, e)
<1>1. <<e>> \in Seq(S) /\ s \o t \in Seq(S)
  OBVIOUS
<1>2. Append(t, e) = t \o <<e>> /\ Append(s \o t, e) = (s \o t) \o <<e>>
  BY <1>1, AppendIsConcat
<1> QED
  BY <1>1, <1>2, ConcatAssociative

(* The head of the queue is the head of its first non-empty piece.         *)
LEMMA HeadOfFirst ==
  ASSUME NEW S, NEW s \in Seq(S), NEW t \in Seq(S), s # << >>
  PROVE  /\ s \o t # << >>
         /\ Head(s \o t) = Head(s)
         /\ Tail(s \o t) = Tail(s) \o t
<1>1. /\ s \o t \in Seq(S)
      /\ Len(s \o t) = Len(s) + Len(t)
      /\ Len(s) \in Nat \ {0}
      /\ Len(t) \in Nat
      /\ \A i \in 1 .. Len(s) + Len(t) :
           (s \o t)[i] = IF i <= Len(s) THEN s[i] ELSE t[i - Len(s)]
  BY ConcatProperties, EmptySeq, LenProperties
<1>2. s \o t # << >>
  BY <1>1
<1>3. Head(s \o t) = Head(s)
  BY <1>1, <1>2, HeadTailProperties
<1>4. /\ Tail(s) \in Seq(S)
      /\ Len(Tail(s)) = Len(s) - 1
      /\ \A i \in 1 .. Len(Tail(s)) : Tail(s)[i] = s[i + 1]
  BY HeadTailProperties
<1>5. /\ Tail(s \o t) \in Seq(S)
      /\ Len(Tail(s \o t)) = Len(s) + Len(t) - 1
      /\ \A i \in 1 .. Len(Tail(s \o t)) : Tail(s \o t)[i] = (s \o t)[i + 1]
  BY <1>1, <1>2, HeadTailProperties
<1>6. /\ Tail(s) \o t \in Seq(S)
      /\ Len(Tail(s) \o t) = Len(s) + Len(t) - 1
      /\ \A i \in 1 .. Len(s) + Len(t) - 1 :
           (Tail(s) \o t)[i] = IF i <= Len(s) - 1 THEN Tail(s)[i]
                               ELSE t[i - (Len(s) - 1)]
  BY <1>1, <1>4, ConcatProperties
<1>7. \A i \in 1 .. Len(Tail(s \o t)) : Tail(s \o t)[i] = (Tail(s) \o t)[i]
  <2> SUFFICES ASSUME NEW i \in 1 .. Len(Tail(s \o t))
               PROVE  Tail(s \o t)[i] = (Tail(s) \o t)[i]
    OBVIOUS
  <2>1. i \in 1 .. Len(s) + Len(t) - 1 /\ i + 1 \in 1 .. Len(s) + Len(t)
    BY <1>1, <1>5
  <2>2. Tail(s \o t)[i] = (s \o t)[i + 1]
    BY <1>5
  <2>3. CASE i <= Len(s) - 1
    BY <1>1, <1>4, <1>6, <2>1, <2>2, <2>3
  <2>4. CASE ~(i <= Len(s) - 1)
    <3>1. (s \o t)[i + 1] = t[(i + 1) - Len(s)]
      BY <1>1, <2>1, <2>4
    <3>2. (Tail(s) \o t)[i] = t[i - (Len(s) - 1)]
      BY <1>6, <2>1, <2>4
    <3>3. (i + 1) - Len(s) = i - (Len(s) - 1)
      BY <1>1, <2>1
    <3> QED
      BY <2>2, <3>1, <3>2, <3>3
  <2> QED
    BY <2>3, <2>4
<1>8. Tail(s \o t) = Tail(s) \o t
  BY <1>5, <1>6, <1>7, SeqEqual
<1> QED
  BY <1>2, <1>3, <1>8

(* Two consecutive pieces may be seen as one.                              *)
LEMMA JoinPieces ==
  ASSUME NEW S, NEW r \in Seq(S), NEW s \in Seq(S), NEW t \in Seq(S)
  PROVE  (r \o << >>) \o (s \o t) = (r \o s) \o t
<1>1. r \o << >> = r
  BY ConcatEmptySeq
<1>2. (r \o s) \o t = r \o (s \o t)
  BY ConcatAssociative
<1> QED
  BY <1>1, <1>2

(* A queue cut in two anywhere.                                            *)
LEMMA CutQueue ==
  ASSUME NEW S, NEW q \in Seq(S), NEW n \in 0 .. Len(q)
  PROVE  /\ SubSeq(q, 1, n) \in Seq(S)
         /\ SubSeq(q, n + 1, Len(q)) \in Seq(S)
         /\ SubSeq(q, 1, n) \o SubSeq(q, n + 1, Len(q)) = q
<1>1. Len(q) \in Nat
  BY LenProperties
<1>2. SubSeq(q, 1, n) \in Seq(S) /\ SubSeq(q, n + 1, Len(q)) \in Seq(S)
  BY <1>1, ElementOfSeq, SubSeqProperties
<1>3. SubSeq(q, 1, n) \o SubSeq(q, n + 1, Len(q)) = SubSeq(q, 1, Len(q))
  <2>1. 1 \in 1 .. Len(q) + 1 /\ n \in 1 - 1 .. Len(q) /\ Len(q) \in n .. Len(q)
    BY <1>1
  <2> HIDE <1>1
  <2> QED
    BY <2>1, ConcatAdjacentSubSeq, Zenon
<1> QED
  BY <1>2, <1>3, SubSeqFull

(* The sequence 1, 2, ..., n grows at its end.                             *)
LEMMA AppendNext ==
  ASSUME NEW n \in Nat
  PROVE  /\ [i \in 1 .. n |-> i] \in Seq(Nat)
         /\ Append([i \in 1 .. n |-> i], n + 1) = [i \in 1 .. n + 1 |-> i]
<1> DEFINE s == [i \in 1 .. n |-> i]
           u == [i \in 1 .. n + 1 |-> i]
<1>1. s \in Seq(Nat) /\ Len(s) = n /\ u \in Seq(Nat) /\ Len(u) = n + 1
  OBVIOUS
<1>2. /\ Append(s, n + 1) \in Seq(Nat)
      /\ Len(Append(s, n + 1)) = n + 1
      /\ \A i \in 1 .. n : Append(s, n + 1)[i] = s[i]
      /\ Append(s, n + 1)[n + 1] = n + 1
  BY <1>1, AppendProperties
<1>3. \A i \in 1 .. n + 1 : Append(s, n + 1)[i] = u[i]
  BY <1>2
<1>4. Append(s, n + 1) = u
  BY <1>1, <1>2, <1>3, SeqEqual
<1> QED
  BY <1>1, <1>4

----------------------------------------------------------------------------
(* Lemmas about a stream of packets of one size.                           *)

LEMMA SplitOffset ==
  ASSUME NEW size \in Nat \ {0}, NEW a \in Nat
  PROVE  /\ a \div size \in Nat
         /\ a % size \in 0 .. size - 1
         /\ a = (a \div size) * size + (a % size)
OBVIOUS

LEMMA EndOfPacket ==
  ASSUME NEW size \in Nat \ {0}, NEW k \in Nat
  PROVE  /\ k * size \in Nat
         /\ (k * size) % size = 0
         /\ (k * size) \div size = k
         /\ (k + 1) * size = k * size + size
OBVIOUS

LEMMA NextPacketFits ==
  ASSUME NEW size \in Nat \ {0}, NEW j \in Int, NEW k \in Int, j < k
  PROVE  j * size + size <= k * size
OBVIOUS

(* Where the bytes end within h bytes of the end of a packet, and more than *)
(* h bytes follow packet k, the next packet is all there.                  *)
LEMMA WholePacketFollows ==
  ASSUME NEW size \in Nat \ {0}, NEW h \in Nat, h < size,
         NEW k \in Nat, NEW w \in Nat, w % size <= h, w - k * size > h
  PROVE  w - k * size >= size
<1> DEFINE q == w \div size
<1>1. q \in Nat /\ w % size \in Nat /\ w = q * size + (w % size)
  BY SplitOffset
<1> HIDE DEF q
<1>2. CASE q <= k
  <2>1. q * size <= k * size
    BY <1>1, <1>2
  <2> QED
    BY <1>1, <2>1
<1>3. CASE q > k
  <2>1. k * size + size <= q * size
    BY <1>1, <1>3, NextPacketFits
  <2> QED
    BY <1>1, <2>1
<1> QED
  BY <1>1, <1>2, <1>3

LEMMA NextQuotient ==
  ASSUME NEW size \in Nat \ {0}, NEW i \in Nat
  PROVE  (i + size) \div size = (i \div size) + 1
OBVIOUS

LEMMA QuotientInPacket ==
  ASSUME NEW size \in Nat \ {0}, NEW n \in Nat, NEW j \in 0 .. size - 1
  PROVE  (size * n + j) \div size = n
OBVIOUS

(* s is packets m + 1 to m + n, each unit with the number of its packet.   *)
IsPackets(s, size, m, n) ==
  s = [i \in 1 .. size * n |-> m + 1 + ((i - 1) \div size)]

LEMMA UnitsOfBoth ==
  ASSUME NEW p \in Seq(Nat), NEW q \in Seq(Nat)
  PROVE  /\ p \o q \in Seq(Nat) /\ Len(p \o q) = Len(p) + Len(q)
         /\ \A i \in 1 .. Len(p) + Len(q) :
              (p \o q)[i] = IF i <= Len(p) THEN p[i] ELSE q[i - Len(p)]
BY ConcatProperties

LEMMA ThreePieces ==
  ASSUME NEW p \in Seq(Nat), NEW q \in Seq(Nat), NEW r \in Seq(Nat)
  PROVE  /\ p \o q \in Seq(Nat) /\ q \o r \in Seq(Nat)
         /\ p \o (q \o r) = (p \o q) \o r
<1>1. p \o q \in Seq(Nat) /\ q \o r \in Seq(Nat)
  BY ConcatProperties
<1>2. p \o (q \o r) = (p \o q) \o r
  BY ConcatAssociative, SMTT(30)
<1> QED
  BY <1>1, <1>2

(* What is left of n packets of numbered units behind the first of them.   *)
LEMMA FirstPacket ==
  ASSUME NEW size \in Nat \ {0}, NEW m \in Nat, NEW n \in Nat,
         NEW p \in Seq(Nat), NEW q \in Seq(Nat), Len(p) = size,
         IsPackets(p \o q, size, m, n)
  PROVE  /\ n > 0 /\ p[1] = m + 1
         /\ IsPackets(q, size, m + 1, n - 1)
<1> DEFINE u == [i \in 1 .. size * n |-> m + 1 + ((i - 1) \div size)]
           v == [i \in 1 .. size * (n - 1) |-> m + 2 + ((i - 1) \div size)]
<1>0. p \o q = u
  BY DEF IsPackets
<1>1. /\ p \o q \in Seq(Nat) /\ Len(p \o q) = size + Len(q) /\ Len(q) \in Nat
      /\ \A i \in 1 .. size + Len(q) :
           (p \o q)[i] = IF i <= size THEN p[i] ELSE q[i - size]
  <2>1. /\ p \o q \in Seq(Nat) /\ Len(p \o q) = Len(p) + Len(q)
        /\ \A i \in 1 .. Len(p) + Len(q) :
             (p \o q)[i] = IF i <= Len(p) THEN p[i] ELSE q[i - Len(p)]
    BY UnitsOfBoth
  <2>2. Len(q) \in Nat
    BY LenProperties
  <2> QED
    BY <2>1, <2>2, Zenon
<1>2. size * n \in Nat
  OBVIOUS
<1>3. Len(u) = size * n
  BY <1>2
<1>4. size * n = size + Len(q)
  BY <1>0, <1>1, <1>3
<1>5. n > 0 /\ n - 1 \in Nat /\ size * (n - 1) = Len(q)
  <2>1. n # 0
    BY <1>1, <1>4
  <2>2. size * (n - 1) = size * n - size
    BY <2>1
  <2> QED
    BY <1>1, <1>4, <2>1, <2>2
<1>6. p[1] = m + 1
  <2>1. (p \o q)[1] = p[1]
    <3>1. 1 \in 1 .. size + Len(q) /\ 1 <= size
      BY <1>1
    <3> QED
      BY <1>1, <3>1, Zenon
  <2>2. u[1] = m + 1 + (0 \div size) /\ 0 \div size = 0
    BY <1>1, <1>4
  <2> QED
    BY <1>0, <2>1, <2>2
<1>7. ASSUME NEW i \in 1 .. Len(q)
      PROVE  q[i] = m + 2 + ((i - 1) \div size)
  <2>1. PICK j \in Nat : j = i - 1
    OBVIOUS
  <2>2. i + size \in 1 .. size * n /\ ~(i + size <= size) /\ (i + size) - size = i
    BY <1>1, <1>4
  <2>3. q[i] = u[i + size]
    <3>1. i + size \in 1 .. size + Len(q)
      <4>1. Len(q) \in Nat /\ i \in 1 .. Len(q)
        BY LenProperties
      <4> QED
        BY <4>1
    <3>2. (p \o q)[i + size] = q[(i + size) - size]
      BY <1>1, <2>2, <3>1, Zenon
    <3> QED
      BY <1>0, <2>2, <3>2
  <2>4. u[i + size] = m + 1 + ((j + size) \div size)
    BY <2>1, <2>2
  <2>5. (j + size) \div size = (j \div size) + 1 /\ j \div size \in Nat
    BY NextQuotient, SplitOffset
  <2>6. PICK k \in Nat : k = j \div size
    BY <2>5
  <2>7. q[i] = m + 1 + (k + 1)
    BY <2>3, <2>4, <2>5, <2>6
  <2>8. (i - 1) \div size = k
    BY <2>1, <2>6
  <2>9. m + 1 + (k + 1) = m + 2 + k
    OBVIOUS
  <2> QED
    BY <2>7, <2>8, <2>9
<1>8. q = v
  <2>1. q = [i \in 1 .. Len(q) |-> q[i]]
    BY LenProperties
  <2> QED
    BY <1>5, <1>7, <2>1
<1>9. v = [i \in 1 .. size * (n - 1) |-> (m + 1) + 1 + ((i - 1) \div size)]
  <2>1. \A k \in Nat : m + 2 + k = (m + 1) + 1 + k
    OBVIOUS
  <2>2. \A i \in 1 .. size * (n - 1) : (i - 1) \div size \in Nat
    <3>1. \A i \in 1 .. size * (n - 1) : i - 1 \in Nat
      BY <1>5, <1>1
    <3> QED
      BY <3>1, SplitOffset
  <2> QED
    BY <2>1, <2>2
<1>10. q = [i \in 1 .. size * (n - 1) |-> (m + 1) + 1 + ((i - 1) \div size)]
  BY <1>8, <1>9
<1>11. IsPackets(q, size, m + 1, n - 1)
  BY <1>10 DEF IsPackets
<1> QED
  BY <1>5, <1>6, <1>11

(* A packet more at the end of n packets of numbered units.                *)
LEMMA LastPacket ==
  ASSUME NEW size \in Nat \ {0}, NEW m \in Nat, NEW n \in Nat,
         NEW q \in Seq(Nat), IsPackets(q, size, m, n)
  PROVE  IsPackets(q \o [i \in 1 .. size |-> m + n + 1], size, m, n + 1)
<1> DEFINE p == [i \in 1 .. size |-> m + n + 1]
           v == [i \in 1 .. size * (n + 1) |-> m + 1 + ((i - 1) \div size)]
<1>0. q = [i \in 1 .. size * n |-> m + 1 + ((i - 1) \div size)]
  BY DEF IsPackets
<1>1. size * n \in Nat /\ size * (n + 1) = size * n + size /\ Len(q) = size * n
  BY <1>0
<1>2. p \in Seq(Nat) /\ Len(p) = size
  OBVIOUS
<1>3. /\ q \o p \in Seq(Nat) /\ Len(q \o p) = size * (n + 1)
      /\ \A i \in 1 .. size * n + size :
           (q \o p)[i] = IF i <= size * n THEN q[i] ELSE p[i - size * n]
  <2> HIDE DEF p
  <2>1. /\ q \o p \in Seq(Nat) /\ Len(q \o p) = Len(q) + Len(p)
        /\ \A i \in 1 .. Len(q) + Len(p) :
             (q \o p)[i] = IF i <= Len(q) THEN q[i] ELSE p[i - Len(q)]
    BY <1>2, UnitsOfBoth
  <2> QED
    BY <1>1, <1>2, <2>1, Zenon
<1>4. ASSUME NEW i \in 1 .. size * (n + 1)
      PROVE  (q \o p)[i] = m + 1 + ((i - 1) \div size)
  <2>1. CASE i <= size * n
    <3> HIDE DEF p
    <3> QED
      BY <1>0, <1>1, <1>3, <2>1
  <2>2. CASE ~(i <= size * n)
    <3>1. PICK j \in 0 .. size - 1 : i - 1 = size * n + j
      <4>1. i - 1 - size * n \in 0 .. size - 1
        BY <1>1, <2>2
      <4> QED
        BY <1>1, <4>1
    <3>2. i - size * n \in 1 .. size
      BY <1>1, <2>2
    <3>3. p[i - size * n] = m + 1 + n
      BY <3>2
    <3>4. (i - 1) \div size = n
      BY <3>1, QuotientInPacket
    <3>5. (q \o p)[i] = p[i - size * n]
      BY <1>1, <1>3, <2>2
    <3> HIDE DEF p
    <3> QED
      BY <3>3, <3>4, <3>5, Zenon
  <2> QED
    BY <2>1, <2>2
<1>5. q \o p = [i \in 1 .. Len(q \o p) |-> (q \o p)[i]]
  BY <1>3, LenProperties
<1> QED
  BY <1>3, <1>4, <1>5 DEF IsPackets
============================================================================
