--------------------------- MODULE SpscRingProofs ---------------------------
(***************************************************************************)
(* Proofs about the ring, for every capacity and every width of the        *)
(* counters that is a multiple of it: the two threads never touch the same *)
(* slot, and the ring implements the queue of SampleQueue.                 *)
(***************************************************************************)
EXTENDS SpscRing, SequenceTheorems, TLAPS

-----------------------------------------------------------------------------
(* Counters that wrap around.                                              *)

(* The distance between two counters.                                      *)
LEMMA MinusIs ==
  ASSUME NEW a \in Counter, NEW b \in Counter
  PROVE  Minus(a, b) = IF a >= b THEN a - b ELSE a - b + Wrap
BY RingAssumption, Z3 DEF Minus, Counter

(* The counter after this one.                                             *)
LEMMA Plus1Is ==
  ASSUME NEW c \in Counter
  PROVE  Plus1(c) = IF c + 1 = Wrap THEN 0 ELSE c + 1
BY RingAssumption, Z3 DEF Plus1, Counter

(* Division with remainder, by any positive number.                        *)
LEMMA Quotient ==
  ASSUME NEW C \in Nat \ {0}, NEW a \in Int
  PROVE  a % C \in 0 .. (C - 1) /\ \E q \in Int : a = C * q + (a % C)
<1>1. a = C * (a \div C) + (a % C) /\ a \div C \in Int
  BY Z3
<1>2. a % C \in 0 .. (C - 1)
  BY Z3
<1> QED BY <1>1, <1>2

(* The only multiple of C between -C and C is zero.                        *)
LEMMA SmallMultiple ==
  ASSUME NEW C \in Nat \ {0}, NEW q \in Int, C * q > -C, C * q < C
  PROVE  q = 0
<1>1. q >= 1 => C * q >= C
  BY Z3
<1>2. q <= -1 => C * q <= -C
  BY Z3
<1> QED BY <1>1, <1>2

(* Numbers that are less than C apart have different remainders.           *)
LEMMA CloseRemainders ==
  ASSUME NEW C \in Nat \ {0}, NEW i \in Int, NEW j \in Int, i < j, j < i + C
  PROVE  i % C # j % C
<1> SUFFICES ASSUME i % C = j % C PROVE FALSE
  OBVIOUS
<1>1. PICK p \in Int : i = C * p + (i % C)
  BY Quotient
<1>2. PICK q \in Int : j = C * q + (j % C)
  BY Quotient
<1>3. i % C \in Int /\ j % C \in Int
  BY Quotient
<1>4. j - i = C * q - C * p
  BY <1>1, <1>2, <1>3
<1>5. C * q - C * p = C * (q - p)
  BY Z3
<1>6. q - p = 0
  BY SmallMultiple, <1>4, <1>5
<1>7. C * (q - p) = 0
  BY <1>6, Z3
<1> QED BY <1>4, <1>5, <1>7

(* Going once around the counters is going a whole number of times around  *)
(* the slots.                                                              *)
LEMMA AroundIsAround ==
  ASSUME NEW a \in Int
  PROVE  (a + Wrap) % Cap = a % Cap
<1>0. Cap \in Nat \ {0} /\ Wrap \in Int
  BY RingAssumption
<1>1. PICK k \in Int : Wrap = Cap * k + (Wrap % Cap)
  BY <1>0, Quotient
<1>2. PICK q \in Int : a = Cap * q + (a % Cap)
  BY <1>0, Quotient
<1>3. PICK p \in Int : a + Wrap = Cap * p + ((a + Wrap) % Cap)
  <2>1. a + Wrap \in Int
    BY <1>0
  <2> QED BY <1>0, <2>1, Quotient
<1>4. a % Cap \in 0 .. (Cap - 1) /\ (a + Wrap) % Cap \in 0 .. (Cap - 1)
  <2>1. a + Wrap \in Int
    BY <1>0
  <2> QED BY <1>0, <2>1, Quotient
<1>5. Wrap = Cap * k
  BY <1>0, <1>1, RingAssumption
<1>6. (a % Cap) - ((a + Wrap) % Cap) = Cap * p - Cap * q - Cap * k
  <2> DEFINE X == Cap * p
             Y == Cap * q
             Z == Cap * k
             R == a % Cap
             S == (a + Wrap) % Cap
  <2>1. X \in Int /\ Y \in Int /\ Z \in Int /\ R \in Int /\ S \in Int
    BY <1>0, <1>4
  <2>2. a = Y + R /\ a + Wrap = X + S /\ Wrap = Z
    BY <1>2, <1>3, <1>5
  <2> HIDE DEF X, Y, Z, R, S
  <2>3. R - S = X - Y - Z
    BY <1>0, <2>1, <2>2
  <2> QED BY <2>3 DEF X, Y, Z, R, S
<1>7. Cap * p - Cap * q - Cap * k = Cap * (p - q - k)
  BY <1>0, Z3
<1>8. p - q - k = 0
  BY <1>0, <1>4, <1>6, <1>7, SmallMultiple
<1>9. Cap * (p - q - k) = 0
  BY <1>0, <1>8, Z3
<1> QED BY <1>0, <1>4, <1>6, <1>7, <1>9

(* Two counters less than Cap apart choose different slots.                *)
LEMMA SlotsDiffer ==
  ASSUME NEW a \in Counter, NEW b \in Counter, Minus(b, a) \in 1 .. (Cap - 1)
  PROVE  slotOf(a) # slotOf(b)
<1>0. /\ a \in Int /\ b \in Int /\ b + Wrap \in Int /\ Cap \in Nat \ {0}
      /\ Cap \in Int /\ Wrap \in Int
  BY RingAssumption DEF Counter
<1>1. CASE b >= a
  <2>1. a < b /\ b < a + Cap
    BY <1>0, <1>1, MinusIs
  <2>2. a % Cap # b % Cap
    BY <1>0, <2>1, CloseRemainders
  <2> QED BY <2>2 DEF slotOf
<1>2. CASE b < a
  <2>1. a < b + Wrap /\ b + Wrap < a + Cap
    BY <1>0, <1>2, MinusIs
  <2>2. a % Cap # (b + Wrap) % Cap
    BY <1>0, <2>1, CloseRemainders
  <2> QED BY <1>0, <2>2, AroundIsAround DEF slotOf
<1> QED BY <1>0, <1>1, <1>2

(* Every counter chooses a slot.                                           *)
LEMMA SlotType == \A c \in Counter : slotOf(c) \in Slot
BY Quotient, RingAssumption DEF slotOf, Slot, Counter

(* The counter k places after c, and how far it is from c and from one     *)
(* that is n places after c.                                               *)
LEMMA Ahead ==
  ASSUME NEW c \in Counter, NEW k \in 0 .. (Wrap - 1)
  PROVE  /\ (c + k) % Wrap \in Counter
         /\ Minus((c + k) % Wrap, c) = k
         /\ \A d \in Counter :
              /\ k <= Minus(d, c) => Minus(d, (c + k) % Wrap) = Minus(d, c) - k
              /\ Minus(d, c) = k => d = (c + k) % Wrap
<1>1. (c + k) % Wrap = IF c + k >= Wrap THEN c + k - Wrap ELSE c + k
  BY RingAssumption, Z3 DEF Counter
<1>2. (c + k) % Wrap \in Counter
  BY <1>1, RingAssumption DEF Counter
<1> DEFINE p == (c + k) % Wrap
<1>3. p \in Counter /\ p = IF c + k >= Wrap THEN c + k - Wrap ELSE c + k
  BY <1>1, <1>2
<1> HIDE DEF p
<1>4. Minus(p, c) = k
  <2>1. Minus(p, c) = IF p >= c THEN p - c ELSE p - c + Wrap
    BY <1>3, MinusIs
  <2> QED BY <1>3, <2>1, RingAssumption DEF Counter
<1>5. ASSUME NEW d \in Counter
      PROVE  /\ k <= Minus(d, c) => Minus(d, p) = Minus(d, c) - k
             /\ Minus(d, c) = k => d = p
  <2>1. /\ Minus(d, p) = IF d >= p THEN d - p ELSE d - p + Wrap
        /\ Minus(d, c) = IF d >= c THEN d - c ELSE d - c + Wrap
    BY <1>3, MinusIs
  <2> QED BY <1>3, <2>1, RingAssumption DEF Counter
<1> QED BY <1>3, <1>4, <1>5 DEF p

-----------------------------------------------------------------------------
(* The inductive invariant: the counters, the slots they hand over, and    *)
(* the sample that is written but not yet published.                       *)

Written == ppc = "publish" => buf[slotOf(head)] = v

RingInv == TypeOK /\ Bounds /\ Written /\ CopiedIsQueued

(* The number of samples queued is a number, and within the counters.      *)
LEMMA DistanceType ==
  ASSUME NEW a \in Counter, NEW b \in Counter
  PROVE  Minus(a, b) \in Counter
<1>1. Minus(a, b) = IF a >= b THEN a - b ELSE a - b + Wrap
  BY MinusIs
<1> QED BY <1>1, RingAssumption DEF Counter

(* The n samples from the counter c on.                                    *)
Segment(b, c, n) == [i \in 1 .. n |-> b[slotOf((c + i - 1) % Wrap)]]

(* They are samples, and the i-th is in the slot of the (i-1)-th counter.  *)
LEMMA SegmentType ==
  ASSUME NEW b \in [Slot -> Sample], NEW c \in Counter, NEW n \in Counter
  PROVE  /\ Segment(b, c, n) \in Seq(Sample)
         /\ Len(Segment(b, c, n)) = n
         /\ \A i \in 1 .. n :
              /\ (c + i - 1) % Wrap \in Counter
              /\ Segment(b, c, n)[i] = b[slotOf((c + i - 1) % Wrap)]
<1>1. ASSUME NEW i \in 1 .. n
      PROVE  (c + i - 1) % Wrap \in Counter
  <2>1. i - 1 \in 0 .. (Wrap - 1) /\ c + i - 1 = c + (i - 1)
    BY RingAssumption DEF Counter
  <2> QED BY <2>1, Ahead
<1>2. \A i \in 1 .. n : b[slotOf((c + i - 1) % Wrap)] \in Sample
  BY <1>1, SlotType
<1>3. n \in Nat
  BY RingAssumption DEF Counter
<1>4. Segment(b, c, n) \in [1 .. n -> Sample]
  <2> DEFINE at(i) == b[slotOf((c + i - 1) % Wrap)]
  <2>1. \A i \in 1 .. n : at(i) \in Sample
    BY <1>2
  <2> HIDE DEF at
  <2>2. [i \in 1 .. n |-> at(i)] \in [1 .. n -> Sample]
    BY <2>1
  <2> QED BY <2>2 DEF Segment, at
<1>5. Segment(b, c, n) \in Seq(Sample) /\ Len(Segment(b, c, n)) = n
  BY <1>3, <1>4
<1> QED BY <1>1, <1>5 DEF Segment

(* The queue is the samples from tail up to head.                          *)
LEMMA QueuedIs ==
  ASSUME TypeOK
  PROVE  /\ Minus(head, tail) \in Counter
         /\ Queued = Segment(buf, tail, Minus(head, tail))
         /\ Queued \in Seq(Sample)
         /\ Len(Queued) = Minus(head, tail)
         /\ \A i \in 1 .. Minus(head, tail) :
              Queued[i] = buf[slotOf((tail + i - 1) % Wrap)]
<1>1. /\ head \in Counter /\ tail \in Counter /\ buf \in [Slot -> Sample]
      /\ Minus(head, tail) \in Counter
  BY DistanceType DEF TypeOK
<1>2. Queued = Segment(buf, tail, Minus(head, tail))
  BY DEF Queued, Segment
<1> QED BY <1>1, <1>2, SegmentType

(* One more, one less: the counters as the actions change them.            *)
LEMMA OneMore ==
  ASSUME NEW a \in Counter, NEW b \in Counter
  PROVE  /\ Plus1(a) \in Counter
         /\ Minus(a, b) < Wrap - 1 => Minus(Plus1(a), b) = Minus(a, b) + 1
<1>1. Plus1(a) = IF a + 1 = Wrap THEN 0 ELSE a + 1
  BY Plus1Is
<1>2. Plus1(a) \in Counter
  BY <1>1, RingAssumption DEF Counter
<1>3. /\ Minus(a, b) = IF a >= b THEN a - b ELSE a - b + Wrap
      /\ Minus(Plus1(a), b) = IF Plus1(a) >= b THEN Plus1(a) - b
                              ELSE Plus1(a) - b + Wrap
  BY <1>2, MinusIs
<1> QED BY <1>1, <1>2, <1>3, RingAssumption DEF Counter

(* The counters start together.                                            *)
LEMMA InitRing == Init => RingInv
<1> SUFFICES ASSUME Init PROVE RingInv
  OBVIOUS
<1>1. 0 \in Counter
  BY RingAssumption DEF Counter
<1>2. Minus(0, 0) = 0
  BY <1>1, MinusIs DEF Counter
<1>3. TypeOK
  BY <1>1 DEF Init, TypeOK
<1>4. Bounds
  BY <1>2, RingAssumption DEF Init, Bounds
<1> QED BY <1>3, <1>4 DEF Init, RingInv, Written, CopiedIsQueued

-----------------------------------------------------------------------------
(* What each side sees of the other's steps.                               *)

(* A slot that is written is none of those in the queue.                   *)
LEMMA WriteSparesQueue ==
  ASSUME RingInv, PushWrite
  PROVE  Queued' = Queued
<1> USE DEF RingInv, PushWrite
<1>1. head \in Counter /\ tail \in Counter /\ Minus(head, tail) < Cap
  BY DEF TypeOK, Bounds
<1>2. ASSUME NEW i \in 1 .. Minus(head, tail)
      PROVE  buf'[slotOf((tail + i - 1) % Wrap)] = buf[slotOf((tail + i - 1) % Wrap)]
  <2> DEFINE p == (tail + i - 1) % Wrap
  <2>1. Minus(head, tail) \in Counter
    BY <1>1, DistanceType
  <2>2. i - 1 \in 0 .. (Wrap - 1) /\ tail + (i - 1) = tail + i - 1
    BY <1>1, <2>1, RingAssumption DEF Counter
  <2>3. p \in Counter /\ Minus(head, p) = Minus(head, tail) - (i - 1)
    BY <1>1, <2>1, <2>2, Ahead DEF Counter
  <2> HIDE DEF p
  <2>4. Minus(head, p) \in 1 .. (Cap - 1)
    BY <1>1, <2>1, <2>3, RingAssumption DEF Counter
  <2>5. slotOf(p) # slotOf(head)
    BY <1>1, <2>3, <2>4, SlotsDiffer
  <2>6. slotOf(p) \in Slot /\ slotOf(head) \in Slot
    BY <1>1, <2>3, SlotType
  <2>7. buf'[slotOf(p)] = buf[slotOf(p)]
    BY <2>5, <2>6 DEF TypeOK
  <2> QED BY <2>7 DEF p
<1>3. head' = head /\ tail' = tail
  BY DEF consumer
<1> QED BY <1>2, <1>3 DEF Queued

(* A sample that is published is the last of the queue.                    *)
LEMMA PublishAppends ==
  ASSUME RingInv, PushPublish
  PROVE  /\ Minus(head, tail)' = Minus(head, tail) + 1
         /\ Queued' = Append(Queued, v)
<1> USE DEF RingInv, PushPublish
<1>1. /\ head \in Counter /\ tail \in Counter /\ Minus(head, tail) < Cap
      /\ head' = Plus1(head) /\ tail' = tail /\ buf' = buf
      /\ buf[slotOf(head)] = v /\ v \in Sample
  BY DEF TypeOK, Bounds, Written, consumer
<1> DEFINE n == Minus(head, tail)
<1>2. n \in Counter /\ n < Wrap - 1
  BY <1>1, DistanceType, RingAssumption DEF Counter
<1>3. Minus(head', tail') = n + 1
  BY <1>1, <1>2, OneMore
<1>4. head = (tail + n) % Wrap
  BY <1>1, <1>2, Ahead DEF Counter
<1>5. /\ Queued \in Seq(Sample) /\ Len(Queued) = n /\ n \in Nat
      /\ \A i \in 1 .. n : Queued[i] = buf[slotOf((tail + i - 1) % Wrap)]
  BY <1>2, QueuedIs, RingAssumption DEF Counter
<1>6. n + 1 \in Counter /\ Queued' = Segment(buf, tail, n + 1)
  BY <1>1, <1>2, <1>3, RingAssumption DEF Queued, Segment, Counter
<1>7. /\ Queued' \in Seq(Sample) /\ Len(Queued') = n + 1
      /\ \A i \in 1 .. n + 1 : Queued'[i] = buf[slotOf((tail + i - 1) % Wrap)]
  <2>1. buf \in [Slot -> Sample]
    BY DEF TypeOK
  <2> HIDE DEF RingInv, PushPublish, n
  <2> QED BY <1>1, <1>6, <2>1, SegmentType
<1> HIDE DEF n
<1>8. /\ Append(Queued, v) \in Seq(Sample) /\ Len(Append(Queued, v)) = n + 1
      /\ \A i \in 1 .. n : Append(Queued, v)[i] = Queued[i]
      /\ Append(Queued, v)[n + 1] = v
  BY <1>1, <1>5, AppendProperties
<1>9. ASSUME NEW i \in 1 .. (n + 1)
      PROVE  Queued'[i] = Append(Queued, v)[i]
  <2>1. CASE i = n + 1
    <3>1. tail + i - 1 = tail + n
      BY <1>1, <1>5, <2>1 DEF Counter
    <3> QED BY <1>1, <1>4, <1>7, <1>8, <2>1, <3>1
  <2>2. CASE i # n + 1
    <3>1. i \in 1 .. n
      BY <1>5, <2>2
    <3> QED BY <1>5, <1>7, <1>8, <3>1
  <2> QED BY <2>1, <2>2
<1>10. Queued' = Append(Queued, v)
  BY <1>7, <1>8, <1>9, SeqEqual
<1> QED BY <1>3, <1>10 DEF n

(* k places ahead, and then j.                                             *)
LEMMA AheadTwice ==
  ASSUME NEW c \in Counter, NEW k \in Nat, NEW j \in Nat, k + j < Wrap
  PROVE  (((c + k) % Wrap) + j) % Wrap = (c + (k + j)) % Wrap
<1> DEFINE p == (c + k) % Wrap
           d == (c + (k + j)) % Wrap
<1>1. k \in 0 .. (Wrap - 1) /\ j \in 0 .. (Wrap - 1) /\ k + j \in 0 .. (Wrap - 1)
  BY RingAssumption
<1>2. p \in Counter /\ d \in Counter /\ Minus(d, c) = k + j
  BY <1>1, Ahead
<1>3. Minus(d, p) = j
  <2>1. Minus(d, p) = Minus(d, c) - k
    <3>1. k <= Minus(d, c)
      BY <1>1, <1>2
    <3> QED BY <1>1, <1>2, <3>1, Ahead
  <2> HIDE DEF p, d
  <2> QED BY <1>1, <1>2, <2>1
<1> HIDE DEF p, d
<1>4. d = (p + j) % Wrap
  BY <1>1, <1>2, <1>3, Ahead
<1> QED BY <1>4 DEF p, d

(* The next slot a batch copies is the next sample of the queue.           *)
LEMMA CopyExtends ==
  ASSUME RingInv, PopCopy
  PROVE  /\ Len(out) \in Nat /\ Len(out) < Minus(h, tail)
         /\ t' \in Counter /\ Minus(t', tail) = Len(out) + 1
         /\ buf[slotOf(t)] \in Sample
         /\ buf[slotOf(t)] = Queued[Len(out) + 1]
<1> USE DEF RingInv, PopCopy
<1>1. /\ t \in Counter /\ h \in Counter /\ tail \in Counter /\ head \in Counter
      /\ t # h /\ t' = Plus1(t)
      /\ Len(out) \in Nat /\ Minus(t, tail) = Len(out)
      /\ Len(out) <= Minus(h, tail) /\ Minus(h, tail) <= Minus(head, tail)
  BY DEF TypeOK, Bounds, More
<1>2. Minus(h, tail) \in Counter /\ Minus(head, tail) \in Counter
  BY <1>1, DistanceType
<1>3. Len(out) \in 0 .. (Wrap - 1)
  BY <1>1, <1>2, RingAssumption DEF Counter
<1>4. t = (tail + Len(out)) % Wrap
  BY <1>1, <1>3, Ahead
<1>5. Minus(h, tail) # Len(out)
  BY <1>1, <1>3, <1>4, Ahead
<1>6. Len(out) < Minus(h, tail)
  BY <1>1, <1>2, <1>5, RingAssumption DEF Counter
<1>7. t' \in Counter /\ Minus(t', tail) = Len(out) + 1
  <2>1. Minus(t, tail) < Wrap - 1
    BY <1>1, <1>2, <1>6, RingAssumption DEF Counter
  <2> QED BY <1>1, <2>1, OneMore
<1>8. buf[slotOf(t)] \in Sample
  BY <1>1, SlotType DEF TypeOK
<1>9. buf[slotOf(t)] = Queued[Len(out) + 1]
  <2>1. Len(out) + 1 \in 1 .. Minus(head, tail)
    BY <1>1, <1>2, <1>6, RingAssumption DEF Counter
  <2>2. tail + (Len(out) + 1) - 1 = tail + Len(out)
    BY <1>1, RingAssumption DEF Counter
  <2> QED BY <1>4, <2>1, <2>2, QueuedIs
<1> QED BY <1>1, <1>6, <1>7, <1>8, <1>9

(* The store of tail takes a batch off the front of the queue.             *)
LEMMA EndTakes ==
  ASSUME RingInv, PopEnd
  PROVE  /\ Len(out) \in Nat /\ Len(out) <= Minus(head, tail)
         /\ Minus(head, tail)' = Minus(head, tail) - Len(out)
         /\ out = SubSeq(Queued, 1, Len(out))
         /\ Queued' = SubSeq(Queued, Len(out) + 1, Len(Queued))
<1> USE DEF RingInv, PopEnd
<1> DEFINE k == Len(out)
           n == Minus(head, tail)
<1>1. /\ t \in Counter /\ tail \in Counter /\ head \in Counter
      /\ buf \in [Slot -> Sample] /\ out \in Seq(Sample)
      /\ tail' = t /\ head' = head /\ buf' = buf
      /\ k \in Nat /\ Minus(t, tail) = k
      /\ k <= Minus(h, tail) /\ Minus(h, tail) <= n
      /\ \A i \in 1 .. k : out[i] = Queued[i]
  BY DEF TypeOK, Bounds, CopiedIsQueued, producer
<1>2. n \in Counter /\ Minus(h, tail) \in Counter /\ h \in Counter
  BY <1>1, DistanceType DEF TypeOK
<1>3. /\ Queued \in Seq(Sample) /\ Len(Queued) = n
      /\ \A i \in 1 .. n : Queued[i] = buf[slotOf((tail + i - 1) % Wrap)]
  BY QueuedIs
<1> HIDE DEF k, n
<1>4. /\ k <= n /\ k \in 0 .. (Wrap - 1) /\ n \in Nat /\ k \in Nat
      /\ n < Wrap /\ Wrap \in Nat
  BY <1>1, <1>2, RingAssumption DEF Counter
<1>5. t = (tail + k) % Wrap
  BY <1>1, <1>4, Ahead
<1>6. Minus(head, t) = n - k
  BY <1>1, <1>4, <1>5, Ahead DEF n
<1>7. out = SubSeq(Queued, 1, k)
  <2>1. \A i \in 1 .. k : Queued[i] \in Sample
    BY <1>3, <1>4, ElementOfSeq
  <2>2. /\ SubSeq(Queued, 1, k) \in Seq(Sample)
        /\ Len(SubSeq(Queued, 1, k)) = k
        /\ \A i \in 1 .. k : SubSeq(Queued, 1, k)[i] = Queued[i]
    BY <1>3, <1>4
  <2>3. Len(out) = k
    BY DEF k
  <2> QED BY <1>1, <2>2, <2>3, SeqEqual
<1>8. n - k \in Counter /\ Queued' = Segment(buf, t, n - k)
  <2>1. n - k \in Counter
    BY <1>2, <1>4 DEF Counter
  <2> QED BY <1>1, <1>6, <2>1 DEF Queued, Segment
<1>9. /\ Queued' \in Seq(Sample) /\ Len(Queued') = n - k
      /\ \A i \in 1 .. n - k : Queued'[i] = buf[slotOf((t + i - 1) % Wrap)]
  BY <1>1, <1>8, SegmentType
<1>10. /\ SubSeq(Queued, k + 1, n) \in Seq(Sample)
       /\ Len(SubSeq(Queued, k + 1, n)) = n - k
       /\ \A i \in 1 .. n - k : SubSeq(Queued, k + 1, n)[i] = Queued[k + i]
  <2>1. k + 1 \in Int /\ n \in Int /\ \A i \in (k + 1) .. n : Queued[i] \in Sample
    BY <1>2, <1>3, <1>4, ElementOfSeq
  <2>2. /\ SubSeq(Queued, k + 1, n) \in Seq(Sample)
        /\ Len(SubSeq(Queued, k + 1, n)) = IF k + 1 <= n THEN n - (k + 1) + 1 ELSE 0
        /\ \A i \in 1 .. n - (k + 1) + 1 :
              SubSeq(Queued, k + 1, n)[i] = Queued[(k + 1) + i - 1]
    BY <2>1, SubSeqProperties
  <2>3. n - (k + 1) + 1 = n - k /\ k <= n
    BY <1>2, <1>4
  <2>4. \A i \in 1 .. n - k : (k + 1) + i - 1 = k + i
    BY <1>2, <1>4
  <2> QED BY <1>4, <2>2, <2>3, <2>4
<1>11. ASSUME NEW i \in 1 .. n - k
       PROVE  Queued'[i] = SubSeq(Queued, k + 1, n)[i]
  <2>1. i - 1 \in Nat /\ k + (i - 1) < Wrap /\ k + i \in 1 .. n
    BY <1>4
  <2>2. t + i - 1 = t + (i - 1) /\ tail + (k + i) - 1 = tail + (k + (i - 1))
    BY <1>1, <1>4 DEF Counter
  <2>3. (t + (i - 1)) % Wrap = (tail + (k + (i - 1))) % Wrap
    <3> DEFINE j == i - 1
    <3>1. j \in Nat /\ k + j < Wrap
      BY <2>1
    <3> HIDE DEF j
    <3>2. (((tail + k) % Wrap) + j) % Wrap = (tail + (k + j)) % Wrap
      BY <1>1, <1>4, <3>1, AheadTwice
    <3> QED BY <1>5, <3>2 DEF j
  <2>4. Queued'[i] = buf[slotOf((tail + (k + i) - 1) % Wrap)]
    BY <1>9, <2>2, <2>3
  <2>5. Queued[k + i] = buf[slotOf((tail + (k + i) - 1) % Wrap)]
    BY <1>3, <2>1
  <2> QED BY <1>10, <2>4, <2>5
<1>12. Queued' = SubSeq(Queued, k + 1, n)
  BY <1>9, <1>10, <1>11, SeqEqual
<1> QED BY <1>1, <1>3, <1>4, <1>6, <1>7, <1>12 DEF k, n
-----------------------------------------------------------------------------
(* Every step of either thread keeps the invariant.                        *)
LEMMA NextRing == RingInv /\ [Next]_vars => RingInv'
<1> SUFFICES ASSUME RingInv, [Next]_vars PROVE RingInv'
  OBVIOUS
<1> USE DEF RingInv
<1>1. CASE PushDrop
  <2>1. dropped' \in Counter
    BY <1>1, OneMore DEF PushDrop, TypeOK
  <2> QED BY <1>1, <2>1 DEF PushDrop, consumer, TypeOK, Bounds, Written,
            CopiedIsQueued, Queued
<1>2. ASSUME NEW s \in Sample, PushBegin(s) PROVE RingInv'
  <2>1. Minus(head, tail) \in Counter
    BY DistanceType DEF TypeOK
  <2>2. Minus(head, tail) < Cap
    BY <1>2, <2>1, RingAssumption DEF PushBegin, Full, Counter
  <2> QED BY <1>2, <2>2 DEF PushBegin, consumer, TypeOK, Bounds, Written,
            CopiedIsQueued, Queued
<1>3. CASE PushWrite
  <2>1. slotOf(head) \in Slot
    BY SlotType DEF TypeOK
  <2>2. buf' \in [Slot -> Sample] /\ buf'[slotOf(head)] = v
    BY <1>3, <2>1 DEF PushWrite, TypeOK
  <2>3. Queued' = Queued
    BY <1>3, WriteSparesQueue
  <2>4. TypeOK' /\ Bounds' /\ Written'
    BY <1>3, <2>2 DEF PushWrite, consumer, TypeOK, Bounds, Written
  <2> QED BY <1>3, <2>3, <2>4 DEF PushWrite, consumer, CopiedIsQueued
<1>4. CASE PushPublish
  <2>1. /\ Minus(head, tail)' = Minus(head, tail) + 1
        /\ Queued' = Append(Queued, v)
    BY <1>4, PublishAppends
  <2>2. Minus(head, tail) \in Counter /\ Minus(h, tail) \in Counter
    BY DistanceType DEF TypeOK
  <2>3. head' \in Counter
    BY <1>4, OneMore DEF PushPublish, TypeOK
  <2>4. TypeOK' /\ Written'
    BY <1>4, <2>3 DEF PushPublish, consumer, TypeOK, Written
  <2>5. Bounds'
    BY <1>4, <2>1, <2>2, RingAssumption
       DEF PushPublish, consumer, TypeOK, Bounds, Counter
  <2>6. CopiedIsQueued'
    <3> SUFFICES ASSUME cpc' = "copy", NEW i \in 1 .. Len(out')
                 PROVE  out'[i] = Queued'[i]
      BY DEF CopiedIsQueued
    <3>1. cpc = "copy" /\ out' = out
      BY <1>4 DEF PushPublish, consumer
    <3>2. Queued \in Seq(Sample) /\ Len(Queued) = Minus(head, tail)
      BY QueuedIs
    <3>3. Len(out) \in Nat /\ Len(out) <= Minus(head, tail)
      BY <2>2, <3>1 DEF TypeOK, Bounds, Counter
    <3>4. i \in 1 .. Len(Queued)
      BY <2>2, <3>1, <3>2, <3>3
    <3>5. Queued'[i] = Queued[i]
      BY <2>1, <3>2, <3>4 DEF TypeOK
    <3> QED BY <3>1, <3>5 DEF CopiedIsQueued
  <2> QED BY <2>4, <2>5, <2>6
<1>5. ASSUME NEW n \in Batch, PopBegin(n) PROVE RingInv'
  <2>1. Minus(tail, tail) = 0
    BY MinusIs, RingAssumption DEF TypeOK, Counter
  <2>2. Minus(head, tail) \in Counter /\ n \in Nat
    BY DistanceType, RingAssumption DEF TypeOK
  <2>3. TypeOK' /\ Written'
    BY <1>5, <2>2 DEF PopBegin, producer, TypeOK, Written
  <2>4. Bounds'
    BY <1>5, <2>1, <2>2, RingAssumption
       DEF PopBegin, producer, TypeOK, Bounds, Counter
  <2> QED BY <1>5, <2>3, <2>4 DEF PopBegin, producer, CopiedIsQueued
<1>6. CASE PopCopy
  <2>1. /\ Len(out) \in Nat /\ Len(out) < Minus(h, tail)
        /\ t' \in Counter /\ Minus(t', tail) = Len(out) + 1
        /\ buf[slotOf(t)] \in Sample
        /\ buf[slotOf(t)] = Queued[Len(out) + 1]
    BY <1>6, CopyExtends
  <2>2. Minus(h, tail) \in Counter
    BY DistanceType DEF TypeOK
  <2> DEFINE b == buf[slotOf(t)]
  <2>3. out' = Append(out, b) /\ out \in Seq(Sample) /\ b \in Sample
    BY <1>6, <2>1 DEF PopCopy, TypeOK
  <2> HIDE DEF b
  <2>4. /\ out' \in Seq(Sample) /\ Len(out') = Len(out) + 1
        /\ \A i \in 1 .. Len(out) : out'[i] = out[i]
        /\ out'[Len(out) + 1] = b
    BY <2>3
  <2>5. TypeOK' /\ Written'
    BY <1>6, <2>1, <2>4 DEF PopCopy, producer, TypeOK, Written
  <2>6. Bounds'
    BY <1>6, <2>1, <2>2, <2>4, RingAssumption
       DEF PopCopy, producer, TypeOK, Bounds, Counter
  <2>7. CopiedIsQueued'
    <3>1. Queued' = Queued /\ cpc = "copy"
      BY <1>6 DEF PopCopy, producer, Queued
    <3>2. \A i \in 1 .. Len(out) : out[i] = Queued[i]
      BY <3>1 DEF CopiedIsQueued
    <3>3. \A i \in 1 .. Len(out) + 1 : out'[i] = Queued[i]
      BY <2>1, <2>4, <3>2 DEF b
    <3> QED BY <2>4, <3>1, <3>3 DEF CopiedIsQueued
  <2> QED BY <2>5, <2>6, <2>7
<1>7. CASE PopEnd
  <2>1. /\ Len(out) \in Nat /\ Len(out) <= Minus(head, tail)
        /\ Minus(head, tail)' = Minus(head, tail) - Len(out)
    BY <1>7, EndTakes
  <2>2. Minus(head, tail) \in Counter
    BY DistanceType DEF TypeOK
  <2>3. TypeOK' /\ Written'
    BY <1>7 DEF PopEnd, producer, TypeOK, Written
  <2>4. Bounds'
    BY <1>7, <2>1, <2>2, RingAssumption
       DEF PopEnd, producer, TypeOK, Bounds, Counter
  <2> QED BY <1>7, <2>3, <2>4 DEF PopEnd, CopiedIsQueued
<1>8. CASE UNCHANGED vars
  BY <1>8 DEF vars, producer, consumer, TypeOK, Bounds, Written,
     CopiedIsQueued, Queued
<1> QED BY <1>1, <1>2, <1>3, <1>4, <1>5, <1>6, <1>7, <1>8
       DEF Next, Producer, Consumer

(* The counters, the slots and what the two threads hold keep their types, *)
(* for every capacity: head_ and tail_ never leave the counters' range.    *)
THEOREM RingTypeCorrect == Spec => []TypeOK
<1>1. RingInv => TypeOK
  BY DEF RingInv
<1> QED BY InitRing, NextRing, <1>1, PTL DEF Spec

(* At most Cap samples are queued, and a batch stays within them: push and *)
(* popBatch act on a counter of the other side that has moved on without   *)
(* ever running past it.                                                   *)
THEOREM NeverRunPast == Spec => []Bounds
<1>1. RingInv => Bounds
  BY DEF RingInv
<1> QED BY InitRing, NextRing, <1>1, PTL DEF Spec

(* No slot is overwritten while popBatch copies it: what was copied is the *)
(* front of the queue.                                                     *)
THEOREM NoTornSample == Spec => []CopiedIsQueued
<1>1. RingInv => CopiedIsQueued
  BY DEF RingInv
<1> QED BY InitRing, NextRing, <1>1, PTL DEF Spec
-----------------------------------------------------------------------------
(* The ring starts as the empty queue.                                     *)
LEMMA InitIsEmpty == Init => Q!Init
<1> SUFFICES ASSUME Init PROVE Q!Init
  OBVIOUS
<1>1. TypeOK /\ Minus(head, tail) = 0
  <2>1. Minus(0, 0) = 0
    BY MinusIs, RingAssumption DEF Counter
  <2> QED BY <2>1, InitRing DEF Init, RingInv
<1>2. Queued \in Seq(Sample) /\ Len(Queued) = 0
  BY <1>1, QueuedIs
<1>3. Queued = <<>>
  BY <1>2, EmptySeq
<1> QED BY <1>3 DEF Init, Q!Init

(* A step of the ring is a step of the queue, or leaves it alone: Put when *)
(* head is stored, Drop when the ring is full, Take when tail is stored.   *)
LEMMA StepIsQueueStep ==
  RingInv /\ [Next]_vars => [Q!Next]_(<<Queued, batch, dropped>>)
<1> SUFFICES ASSUME RingInv, [Next]_vars
             PROVE  Q!Next \/ UNCHANGED <<Queued, batch, dropped>>
  OBVIOUS
<1>0. /\ TypeOK /\ Minus(head, tail) \in Counter /\ Minus(head, tail) <= Cap
      /\ Queued \in Seq(Sample) /\ Len(Queued) = Minus(head, tail)
  BY QueuedIs DEF RingInv, Bounds
<1>1. CASE PushDrop
  <2>1. Len(Queued) = Cap
    BY <1>0, <1>1, RingAssumption DEF PushDrop, Full, Counter
  <2>2. Queued' = Queued /\ batch' = batch /\ dropped' = (dropped + 1) % Wrap
    BY <1>1 DEF PushDrop, consumer, Queued, Plus1
  <2> QED BY <2>1, <2>2 DEF Q!Next, Q!Drop
<1>2. ASSUME NEW s \in Sample, PushBegin(s)
      PROVE  UNCHANGED <<Queued, batch, dropped>>
  BY <1>2 DEF PushBegin, consumer, Queued
<1>3. CASE PushWrite
  <2>1. Queued' = Queued
    BY <1>3, WriteSparesQueue
  <2> QED BY <1>3, <2>1 DEF PushWrite, consumer
<1>4. CASE PushPublish
  <2>1. Queued' = Append(Queued, v) /\ v \in Sample
    BY <1>0, <1>4, PublishAppends DEF TypeOK
  <2>2. Len(Queued) < Cap
    BY <1>0, <1>4 DEF PushPublish, RingInv, Bounds
  <2>3. Q!Put(v)
    BY <1>4, <2>1, <2>2 DEF PushPublish, consumer, Q!Put
  <2> QED BY <2>1, <2>3 DEF Q!Next
<1>5. ASSUME NEW n \in Batch, PopBegin(n)
      PROVE  UNCHANGED <<Queued, batch, dropped>>
  BY <1>5 DEF PopBegin, producer, Queued
<1>6. CASE PopCopy
  BY <1>6 DEF PopCopy, producer, Queued
<1>7. CASE PopEnd
  <2>1. /\ Len(out) \in Nat /\ Len(out) <= Len(Queued)
        /\ out = SubSeq(Queued, 1, Len(out))
        /\ Queued' = SubSeq(Queued, Len(out) + 1, Len(Queued))
    BY <1>0, <1>7, EndTakes
  <2>2. Len(out) \in 0 .. Cap
    BY <1>0, <2>1, RingAssumption DEF Counter
  <2>3. Q!Take(Len(out))
    BY <1>7, <2>1 DEF PopEnd, producer, Q!Take
  <2> QED BY <2>2, <2>3 DEF Q!Next
<1>8. CASE UNCHANGED vars
  BY <1>8 DEF vars, producer, consumer, Queued
<1> QED BY <1>1, <1>2, <1>3, <1>4, <1>5, <1>6, <1>7, <1>8
       DEF Next, Producer, Consumer

(* What the realtime thread pushes and the logger takes goes through a     *)
(* bounded first-in first-out queue that drops only when it is full: the   *)
(* ring implements SampleQueue, whatever its capacity.                     *)
THEOREM RingIsQueue == Spec => ImplementsQueue
BY InitRing, NextRing, InitIsEmpty, StepIsQueueStep, PTL
   DEF Spec, ImplementsQueue, Q!Spec
=============================================================================
