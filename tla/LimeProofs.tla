------------------------------ MODULE LimeProofs -----------------------------
(***************************************************************************)
(* Proofs about LimeFifo and LimeStreamer: for any sizes of ring, packet   *)
(* and call, the ring keeps the samples of a stream in order and in time;  *)
(* for any number of calls of the program, the threads fit the streams.    *)
(*                                                                         *)
(* What the ring keeps is in two positions, one in whole packets and one   *)
(* inside a packet, which the code computes apart. The invariant reads     *)
(* them as one, and Time gives each position its sample's number.          *)
(*                                                                         *)
(* ThreadsFitStreams speaks of the threads that run; StreamerInv says what *)
(* UpdateThreads has settled at each of its steps, so that when it is over *)
(* a thread runs only where a stream is active, and what it read as it     *)
(* began is what the FPGA was configured with.                             *)
(***************************************************************************)
EXTENDS LimeFifo, LimeStreamer, FiniteSetTheorems, TLAPS

\* A packet with PktSize samples, numbered from its time stamp.
Full(p) ==
  Len(p.samples) = PktSize /\ \A j \in 1..PktSize : p.samples[j].number = p.timestamp + j - 1

Waiting == 0..(mElementsFilled - 1)

\* The packets of a receive stream are full, and none begins before the last one ends.
PacketsInOrder ==
  /\ \A k \in Waiting : Full(Packet(k)) /\ Packet(k).timestamp + PktSize <= clock
  /\ \A i, j \in Waiting : i < j => Packet(i).timestamp + PktSize <= Packet(j).timestamp

\* What the program popped comes before what it has left in the ring.
PoppedInOrder ==
  /\ Increasing(Numbers(got))
  /\ \A i \in DOMAIN got : /\ got[i].number < clock
                           /\ mElementsFilled > 0 => got[i].number < Packet(0).timestamp + mFirst
  /\ got # <<>> => got[1].number = stamp
  /\ wanted # 0 => Len(got) < wanted

Unread == mElementsFilled * PktSize - mFirst

\* An overflow loses what the program had left of a packet.
LossesCounted ==
  LET missing == arrived_samples - popped_samples - Unread
  IN  missing <= PktSize * mOverflow /\ mOverflow <= missing

RxInv ==
  direction = "rx" =>
    /\ mLast = 0 /\ push_at = "idle"
    /\ mElementsFilled = 0 => mFirst = 0
    /\ PacketsInOrder
    /\ PoppedInOrder
    /\ LossesCounted

\* The packet a transmitting program is filling.
FillingFollows ==
  mLast > 0 => LET p == mBuffer[mTail] IN
    Len(p.samples) = mLast /\ p.timestamp + mLast = clock /\ ~p.burst

TxInv ==
  direction = "tx" =>
    /\ wanted = 0
    /\ mLast <= clock
    /\ TxStamped
    /\ FillingFollows

RingInv == mTail = (mHead + mElementsFilled) % BufferSize

FifoInv == FifoTypeOK /\ RingInv /\ RxInv /\ TxInv
-----------------------------------------------------------------------------
\* Whole packets and what is left over.
LEMMA Divides ==
  ASSUME NEW n \in Nat
  PROVE  /\ n \div PktSize \in Nat /\ n % PktSize \in 0..(PktSize - 1)
         /\ n = (n \div PktSize) * PktSize + (n % PktSize)
<1>1. PICK p \in Nat : p = PktSize /\ p > 0
  BY FifoAssumption
<1>2. n \div p \in Nat
  BY <1>1
<1>3. n % p \in 0..(p - 1)
  BY <1>1
<1>4. n = p * (n \div p) + (n % p)
  BY <1>1
<1>5. p * (n \div p) = (n \div p) * p
  BY <1>1, <1>2
<1> QED
  BY <1>1, <1>2, <1>3, <1>4, <1>5

\* The packet of a position and the place in it.
LEMMA Split ==
  ASSUME NEW n \in Nat
  PROVE  \E q \in Nat, r \in Nat : q = n \div PktSize /\ r = n % PktSize /\ r < PktSize
<1>1. n \div PktSize \in Nat /\ n % PktSize \in Nat /\ n % PktSize < PktSize
  BY Divides, FifoAssumption
<1> QED
  BY <1>1

\* More packets are more samples.
LEMMA MorePackets ==
  ASSUME NEW a \in Int, NEW b \in Int, a < b
  PROVE  a * PktSize + PktSize <= b * PktSize
<1>1. PICK p \in Nat : p = PktSize /\ p > 0
  BY FifoAssumption
<1>2. PICK d \in Nat : b = a + 1 + d
  <2>1. b - a - 1 \in Nat /\ b = a + 1 + (b - a - 1)
    OBVIOUS
  <2> QED
    BY <2>1
<1>3. d * p \in Nat /\ (a + 1 + d) * p = a * p + p + d * p /\ a * p \in Int
  BY <1>1, <1>2
<1>4. a * p + p <= b * p
  <2>1. b * p = a * p + p + d * p
    BY <1>2, <1>3
  <2>2. PICK x \in Int, y \in Nat : x = a * p /\ y = d * p
    BY <1>3
  <2> QED
    BY <2>1, <2>2, <1>1
<1> QED
  BY <1>1, <1>4

\* A position in the first m packets is in one of them.
LEMMA InPackets ==
  ASSUME NEW n \in Nat, NEW m \in Nat
  PROVE  /\ n < m * PktSize => n \div PktSize < m
         /\ n <= m * PktSize => n \div PktSize <= m
         /\ n <= m * PktSize /\ n \div PktSize = m => n % PktSize = 0
         /\ n \div PktSize < m => n < m * PktSize
<1>1. PICK q \in Nat, r \in Nat : q = n \div PktSize /\ r = n % PktSize /\ r < PktSize /\
             n = q * PktSize + r
  BY Divides, FifoAssumption
<1>2. PICK x \in Nat, y \in Nat, p \in Nat : x = q * PktSize /\ y = m * PktSize /\ p = PktSize
  BY FifoAssumption
<1>3. q < m => x + p <= y
  BY <1>2, MorePackets
<1>4. m < q => y + p <= x
  BY <1>2, MorePackets
<1>5. q = m => x = y
  BY <1>2
<1>6. n = x + r /\ r < p
  BY <1>1, <1>2
<1> QED
  BY <1>1, <1>2, <1>3, <1>4, <1>5, <1>6

\* A later position is in a later packet or later in the same.
LEMMA Rising ==
  ASSUME NEW n \in Nat, NEW m \in Nat, n < m
  PROVE  \/ n \div PktSize < m \div PktSize
         \/ n \div PktSize = m \div PktSize /\ n % PktSize < m % PktSize
<1>1. PICK q \in Nat, r \in Nat : q = n \div PktSize /\ r = n % PktSize /\ r < PktSize /\
             n = q * PktSize + r
  BY Divides, FifoAssumption
<1>2. PICK s \in Nat, t \in Nat : s = m \div PktSize /\ t = m % PktSize /\ t < PktSize /\
             m = s * PktSize + t
  BY Divides, FifoAssumption
<1>3. PICK x \in Nat, y \in Nat, p \in Nat : x = q * PktSize /\ y = s * PktSize /\ p = PktSize
  BY FifoAssumption
<1>4. s < q => y + p <= x
  BY <1>3, MorePackets
<1>5. q = s => x = y
  BY <1>3
<1>6. n = x + r /\ m = y + t /\ r < p /\ t < p
  BY <1>1, <1>2, <1>3
<1> QED
  BY <1>1, <1>2, <1>4, <1>5, <1>6

\* Going round the ring, without the remainder.
LEMMA Wraps ==
  ASSUME NEW x \in Slot, NEW k \in 0..BufferSize
  PROVE  /\ (x + k) % BufferSize = IF x + k < BufferSize THEN x + k ELSE x + k - BufferSize
         /\ (x + k) % BufferSize \in Slot
<1>1. PICK b \in Nat : b = BufferSize /\ b > 0
  BY FifoAssumption
<1>2. x \in 0..(b - 1) /\ k \in 0..b
  BY <1>1 DEF Slot
<1>3. CASE x + k < b
  <2>1. (x + k) % b = x + k
    BY <1>1, <1>2, <1>3
  <2> QED
    BY <1>1, <1>2, <1>3, <2>1 DEF Slot
<1>4. CASE ~(x + k < b)
  <2>1. PICK y \in Nat : y = x + k - b /\ y < b
    BY <1>1, <1>2, <1>4
  <2>2. (1 * b + y) % b = y
    BY <1>1, <2>1
  <2>3. (x + k) % b = x + k - b
    BY <1>1, <1>2, <2>1, <2>2
  <2> QED
    BY <1>1, <1>2, <1>4, <2>1, <2>3 DEF Slot
<1> QED
  BY <1>3, <1>4

\* Two steps round the ring are one.
LEMMA WrapsTwice ==
  ASSUME NEW x \in Slot, NEW d \in Nat, NEW k \in Nat, d + k <= BufferSize
  PROVE  /\ (x + d) % BufferSize \in Slot
         /\ (((x + d) % BufferSize) + k) % BufferSize = (x + (d + k)) % BufferSize
<1>1. PICK b \in Nat : b = BufferSize /\ b > 0
  BY FifoAssumption
<1>2. x \in 0..(b - 1) /\ d \in 0..b /\ k \in 0..b /\ d + k \in 0..b
  BY <1>1 DEF Slot
<1>3. PICK y \in Slot : y = (x + d) % BufferSize /\ y = IF x + d < b THEN x + d ELSE x + d - b
  BY <1>1, <1>2, Wraps
<1>4. (y + k) % BufferSize = IF y + k < b THEN y + k ELSE y + k - b
  BY <1>1, <1>2, Wraps
<1>5. (x + (d + k)) % BufferSize = IF x + (d + k) < b THEN x + (d + k) ELSE x + (d + k) - b
  BY <1>1, <1>2, Wraps
<1>6. y \in 0..(b - 1)
  BY <1>1 DEF Slot
<1> QED
  BY <1>1, <1>2, <1>3, <1>4, <1>5, <1>6

\* Packets of the ring are in different slots.
LEMMA SlotsDiffer ==
  ASSUME NEW x \in Slot, NEW j \in Nat, NEW k \in Nat, j < k, k < BufferSize
  PROVE  (x + j) % BufferSize # (x + k) % BufferSize
<1>1. PICK b \in Nat : b = BufferSize /\ b > 0
  BY FifoAssumption
<1>2. x \in 0..(b - 1) /\ j \in 0..b /\ k \in 0..b
  BY <1>1 DEF Slot
<1>3. /\ (x + j) % BufferSize = IF x + j < b THEN x + j ELSE x + j - b
      /\ (x + k) % BufferSize = IF x + k < b THEN x + k ELSE x + k - b
  BY <1>1, <1>2, Wraps
<1> QED
  BY <1>1, <1>2, <1>3

\* The lesser of two numbers.
LEMMA LesserOfTwo ==
  ASSUME NEW a \in Int, NEW b \in Int
  PROVE  Min({a, b}) = IF a <= b THEN a ELSE b
<1>1. \E x \in {a, b} : \A y \in {a, b} : x <= y
  OBVIOUS
<1>2. Min({a, b}) \in {a, b} /\ \A y \in {a, b} : Min({a, b}) <= y
  BY <1>1, Zenon DEF Min
<1> QED
  BY <1>2
-----------------------------------------------------------------------------
\* The time of the n-th sample from the start of the oldest packet.
Time(n) == Packet(n \div PktSize).timestamp + (n % PktSize)

\* What there is to know of a packet in the ring.
LEMMA PacketFacts ==
  ASSUME FifoTypeOK, NEW k \in Nat, k <= BufferSize
  PROVE  /\ (mHead + k) % BufferSize \in Slot
         /\ Packet(k).timestamp \in Nat /\ Packet(k).samples \in Seq(Sample)
<1>1. (mHead + k) % BufferSize \in Slot
  BY Wraps, FifoAssumption DEF FifoTypeOK
<1>2. mBuffer[(mHead + k) % BufferSize] \in [timestamp : Nat, burst : BOOLEAN, samples : Seq(Sample)]
  BY <1>1 DEF FifoTypeOK
<1> QED
  BY <1>1, <1>2 DEF Packet

\* The oldest packet is at mHead.
LEMMA OldestPacket == ASSUME FifoTypeOK PROVE Packet(0) = mBuffer[mHead]
<1>1. (mHead + 0) % BufferSize = mHead
  <2>1. mHead \in Slot /\ mHead \in Nat /\ mHead < BufferSize /\ 0 \in 0..BufferSize
    BY FifoAssumption DEF FifoTypeOK, Slot
  <2>2. (mHead + 0) % BufferSize = IF mHead + 0 < BufferSize THEN mHead + 0 ELSE mHead + 0 - BufferSize
    BY <2>1, Wraps
  <2> QED
    BY <2>1, <2>2
<1> QED
  BY <1>1 DEF Packet

\* Which packets wait.
LEMMA WaitingIs ==
  ASSUME FifoTypeOK, NEW q \in Nat
  PROVE  /\ q \in Waiting <=> q < mElementsFilled
         /\ q < mElementsFilled => q <= BufferSize
<1>1. PICK e \in Nat, b \in Nat : e = mElementsFilled /\ b = BufferSize /\ e <= b
  BY FifoAssumption DEF FifoTypeOK
<1> QED
  BY <1>1 DEF Waiting

\* A sample in the ring has a time, which is past.
LEMMA TimeKnown ==
  ASSUME FifoTypeOK, PacketsInOrder, NEW n \in Nat, n < mElementsFilled * PktSize
  PROVE  /\ n \div PktSize \in Waiting /\ n % PktSize \in 0..(PktSize - 1)
         /\ Packet(n \div PktSize).samples[(n % PktSize) + 1].number = Time(n)
         /\ Packet(n \div PktSize).samples[(n % PktSize) + 1] \in Sample
         /\ Time(n) \in Nat /\ Time(n) < clock
<1>1. PICK q \in Nat, r \in Nat : q = n \div PktSize /\ r = n % PktSize /\ r < PktSize
  BY Split, Zenon
<1>2. mElementsFilled \in Nat /\ mElementsFilled <= BufferSize /\ clock \in Nat /\
        PktSize \in Nat
  BY FifoAssumption DEF FifoTypeOK
<1>3. q < mElementsFilled
  BY <1>1, <1>2, InPackets
<1>4. q \in Waiting /\ q <= BufferSize
  BY <1>3, WaitingIs
<1>5. Full(Packet(q)) /\ Packet(q).timestamp + PktSize <= clock
  BY <1>4 DEF PacketsInOrder
<1>6. Packet(q).timestamp \in Nat /\ Packet(q).samples \in Seq(Sample)
  BY <1>4, PacketFacts
<1>7. r + 1 \in 1..PktSize
  BY <1>1, <1>2
<1>8. Packet(q).samples[r + 1].number = Packet(q).timestamp + (r + 1) - 1
  BY <1>5, <1>7 DEF Full
<1>9. Packet(q).samples[r + 1] \in Sample
  BY <1>5, <1>6, <1>7 DEF Full
<1> QED
  BY <1>1, <1>2, <1>4, <1>5, <1>6, <1>8, <1>9 DEF Time

\* Later samples are later.
LEMMA TimeRises ==
  ASSUME FifoTypeOK, PacketsInOrder, NEW n \in Nat, NEW m \in Nat, n < m,
         m < mElementsFilled * PktSize
  PROVE  Time(n) < Time(m)
<1>1. PICK q \in Nat, r \in Nat : q = n \div PktSize /\ r = n % PktSize /\ r < PktSize
  BY Split, Zenon
<1>2. PICK s \in Nat, t \in Nat : s = m \div PktSize /\ t = m % PktSize /\ t < PktSize
  BY Split, Zenon
<1>3. q < s \/ (q = s /\ r < t)
  BY <1>1, <1>2, Rising
<1>4. s \in Waiting /\ s < mElementsFilled /\ s <= BufferSize
  <2>1. m \div PktSize \in Waiting
    BY TimeKnown
  <2> QED
    BY <2>1, <1>2, WaitingIs
<1>5. q \in Waiting /\ q <= BufferSize
  <2>1. PICK e \in Nat : e = mElementsFilled
    BY DEF FifoTypeOK
  <2>2. q < mElementsFilled
    BY <2>1, <1>3, <1>4
  <2> QED
    BY <2>2, WaitingIs
<1>6. q < s => Packet(q).timestamp + PktSize <= Packet(s).timestamp
  BY <1>4, <1>5 DEF PacketsInOrder
<1>7. Packet(q).timestamp \in Nat /\ Packet(s).timestamp \in Nat
  BY <1>4, <1>5, PacketFacts
<1>8. Time(n) = Packet(q).timestamp + r /\ Time(m) = Packet(s).timestamp + t
  BY <1>1, <1>2 DEF Time
<1> QED
  BY <1>1, <1>2, <1>3, <1>6, <1>7, <1>8, FifoAssumption

\* The time of the first sample that was not read.
LEMMA FirstTime == ASSUME FifoTypeOK PROVE Time(mFirst) = Packet(0).timestamp + mFirst
<1>1. PICK p \in Nat, x \in Nat : p = PktSize /\ x = mFirst /\ x < p
  BY FifoAssumption DEF FifoTypeOK
<1>2. x % p = x
  BY <1>1
<1>3. x \div p = 0
  <2>1. x < 1 * PktSize
    BY <1>1
  <2>2. x \div PktSize < 1 /\ x \div PktSize \in Nat
    BY <2>1, <1>1, InPackets, Divides
  <2> QED
    BY <2>2, <1>1
<1> QED
  BY <1>1, <1>2, <1>3 DEF Time

\* What a reader has left in the ring.
LEMMA ContentsFacts ==
  ASSUME FifoTypeOK, PacketsInOrder, mElementsFilled = 0 => mFirst = 0
  PROVE  /\ Unread \in Nat /\ mElementsFilled * PktSize \in Nat
         /\ mElementsFilled * PktSize = mFirst + Unread
         /\ Contents \in Seq(Sample) /\ Len(Contents) = Unread
         /\ \A k \in 1..Unread : Contents[k].number = Time(mFirst + k - 1)
<1>1. mElementsFilled \in Nat /\ PktSize \in Nat /\ mFirst \in Nat /\ mFirst < PktSize
  BY FifoAssumption DEF FifoTypeOK
<1>2. PICK all \in Nat : all = mElementsFilled * PktSize
  BY <1>1
<1>3. mFirst <= all
  <2>1. CASE mElementsFilled = 0
    BY <2>1, <1>2
  <2>2. CASE 0 < mElementsFilled
    <3>1. 0 * PktSize + PktSize <= mElementsFilled * PktSize
      BY <2>2, <1>1, MorePackets
    <3>2. PktSize <= all
      BY <3>1, <1>1, <1>2
    <3> QED
      BY <3>2, <1>1, <1>2
  <2> QED
    BY <2>1, <2>2, <1>1
<1>4. Unread \in Nat /\ all = mFirst + Unread
  BY <1>1, <1>2, <1>3 DEF Unread
<1>5. ASSUME NEW k \in 1..Unread
      PROVE  /\ Packet((mFirst + k - 1) \div PktSize).samples[((mFirst + k - 1) % PktSize) + 1] \in Sample
             /\ Packet((mFirst + k - 1) \div PktSize).samples[((mFirst + k - 1) % PktSize) + 1].number
                  = Time(mFirst + k - 1)
  <2>1. mFirst + k - 1 \in Nat /\ mFirst + k - 1 < mElementsFilled * PktSize
    BY <1>1, <1>2, <1>4
  <2> QED
    BY <2>1, TimeKnown
<1>6. Contents = [k \in 1..Unread |->
         Packet((mFirst + k - 1) \div PktSize).samples[((mFirst + k - 1) % PktSize) + 1]]
  BY Zenon DEF Contents, Unread
<1>7. Contents \in [1..Unread -> Sample]
  BY <1>5, <1>6
<1>8. Contents \in Seq(Sample) /\ Len(Contents) = Unread
  BY <1>4, <1>7
<1>9. \A k \in 1..Unread : Contents[k].number = Time(mFirst + k - 1)
  BY <1>5, <1>6
<1> QED
  BY <1>2, <1>4, <1>8, <1>9

\* What is popped and what is in the ring are in order.
LEMMA AllInOrder ==
  ASSUME FifoTypeOK, PacketsInOrder, mElementsFilled = 0 => mFirst = 0
  PROVE  /\ \A i, j \in 1..Unread : i < j => Contents[i].number < Contents[j].number
         /\ \A i \in 1..Unread : Contents[i].number < clock
         /\ PoppedInOrder => \A i \in DOMAIN got, k \in 1..Unread : got[i].number < Contents[k].number
<1>1. /\ Unread \in Nat /\ mFirst \in Nat /\ mElementsFilled * PktSize = mFirst + Unread
      /\ \A k \in 1..Unread : Contents[k].number = Time(mFirst + k - 1)
  BY ContentsFacts DEF FifoTypeOK
<1>2. ASSUME NEW i \in 1..Unread
      PROVE  /\ mFirst + i - 1 \in Nat /\ mFirst + i - 1 < mElementsFilled * PktSize
             /\ Time(mFirst + i - 1) < clock /\ Time(mFirst + i - 1) \in Nat
  <2>1. mFirst + i - 1 \in Nat /\ mFirst + i - 1 < mElementsFilled * PktSize
    BY <1>1
  <2> QED
    BY <2>1, TimeKnown
<1>3. ASSUME NEW i \in 1..Unread, NEW j \in 1..Unread, i < j
      PROVE  Time(mFirst + i - 1) < Time(mFirst + j - 1)
  <2>1. mFirst + i - 1 < mFirst + j - 1
    BY <1>1, <1>3
  <2> QED
    BY <2>1, <1>2, TimeRises
<1>4. ASSUME PoppedInOrder, NEW i \in DOMAIN got, NEW k \in 1..Unread
      PROVE  got[i].number < Contents[k].number
  <2>1. mElementsFilled > 0
    <3>1. mElementsFilled = 0 => mElementsFilled * PktSize = 0
      BY FifoAssumption
    <3>2. PICK e \in Nat, n \in Nat : e = mElementsFilled /\ n = mFirst + k - 1
      BY <1>2 DEF FifoTypeOK
    <3>3. n < mElementsFilled * PktSize
      BY <3>2, <1>2
    <3> QED
      BY <3>1, <3>2, <3>3
  <2>2. got[i].number < Packet(0).timestamp + mFirst
    BY <1>4, <2>1 DEF PoppedInOrder
  <2>3. mFirst \in 0..(PktSize - 1) /\ PktSize \in Nat \ {0}
    BY FifoAssumption DEF FifoTypeOK
  <2>5. Time(mFirst) = Packet(0).timestamp + mFirst
    BY FirstTime
  <2>6. 1 \in 1..Unread /\ mFirst + 1 - 1 = mFirst
    BY <1>1, <2>3
  <2>7. Time(mFirst) <= Time(mFirst + k - 1)
    <3>1. CASE k = 1
      BY <3>1, <2>6, <1>2
    <3>2. CASE k # 1
      <4>1. 1 < k
        BY <3>2, <1>1
      <4>2. Time(mFirst + 1 - 1) < Time(mFirst + k - 1)
        BY <4>1, <2>6, <1>3
      <4>3. Time(mFirst + 1 - 1) \in Nat /\ Time(mFirst + k - 1) \in Nat
        BY <2>6, <1>2
      <4> QED
        BY <4>2, <4>3, <2>6
    <3> QED
      BY <3>1, <3>2
  <2>8. got[i].number \in Nat
    <3>1. got \in Seq(Sample)
      BY DEF FifoTypeOK
    <3>2. got[i] \in Sample
      BY <3>1, <1>4
    <3> QED
      BY <3>2 DEF Sample
  <2>9. Time(mFirst) \in Nat /\ Time(mFirst + k - 1) \in Nat
    BY <2>6, <1>2
  <2> QED
    BY <2>2, <2>5, <2>7, <2>8, <2>9, <1>1
<1> QED
  BY <1>1, <1>2, <1>3, <1>4

\* The invariant is enough.
LEMMA SamplesInOrder == ASSUME FifoInv PROVE FifoInOrder
<1> USE DEF FifoInv
<1>1. ASSUME direction = "rx" PROVE RxInOrder
  <2>1. mElementsFilled = 0 => mFirst = 0
    BY <1>1 DEF RxInv
  <2>2. PacketsInOrder /\ PoppedInOrder /\ LossesCounted
    BY <1>1 DEF RxInv
  <2>3. Unread \in Nat /\ Contents \in Seq(Sample) /\ Len(Contents) = Unread
    BY <2>1, <2>2, ContentsFacts
  <2>4. got \in Seq(Sample)
    BY DEF FifoTypeOK
  <2> DEFINE all == got \o Contents
  <2>5. /\ Len(got) \in Nat /\ DOMAIN all = 1..(Len(got) + Unread) /\ DOMAIN got = 1..Len(got)
        /\ \A i \in 1..Len(got) : all[i] = got[i]
        /\ \A i \in (Len(got) + 1)..(Len(got) + Unread) : all[i] = Contents[i - Len(got)]
    BY <2>3, <2>4
  <2>6. Increasing(Numbers(all))
    <3> HIDE DEF all
    <3>1. ASSUME NEW i \in DOMAIN all, NEW j \in DOMAIN all, i < j PROVE all[i].number < all[j].number
      <4>1. PICK n \in Nat : n = Len(got)
        BY <2>5
      <4>2. i \in 1..(n + Unread) /\ j \in 1..(n + Unread)
        BY <4>1, <2>5
      <4>3. CASE j <= n
        <5>1. i \in DOMAIN got /\ j \in DOMAIN got /\ all[i] = got[i] /\ all[j] = got[j]
          BY <4>1, <4>2, <4>3, <3>1, <2>5, <2>3
        <5> QED
          BY <5>1, <3>1, <2>2 DEF PoppedInOrder, Increasing, Numbers
      <4>4. CASE i <= n /\ ~(j <= n)
        <5>1. i \in DOMAIN got /\ j - n \in 1..Unread /\ all[i] = got[i] /\
                all[j] = Contents[j - n]
          BY <4>1, <4>2, <4>4, <3>1, <2>5, <2>3
        <5> QED
          BY <5>1, <2>1, <2>2, AllInOrder
      <4>5. CASE ~(i <= n)
        <5>1. PICK u \in Nat : u = Unread
          BY <2>3
        <5>2. i - n \in 1..u /\ j - n \in 1..u /\ i - n < j - n /\
                i \in (n + 1)..(n + u) /\ j \in (n + 1)..(n + u)
          BY <4>1, <4>2, <4>5, <3>1, <5>1
        <5>3. all[i] = Contents[i - n] /\ all[j] = Contents[j - n]
          BY <4>1, <5>1, <5>2, <2>5
        <5> QED
          BY <5>1, <5>2, <5>3, <2>1, <2>2, AllInOrder
      <4> QED
        BY <4>2, <4>3, <4>4, <4>5, <4>1
    <3> QED
      BY <3>1 DEF Increasing, Numbers
  <2>7. arrived_samples - popped_samples - Len(Contents) = arrived_samples - popped_samples - Unread
    BY <2>3
  <2> QED
    BY <2>2, <2>6, <2>7 DEF RxInOrder, LossesCounted, PoppedInOrder
<1> QED
  BY <1>1 DEF FifoInOrder, RingInv, TxInv
-----------------------------------------------------------------------------
\* Init establishes the invariant.
LEMMA FifoInitInv == ASSUME FifoInit PROVE FifoInv
<1> USE DEF FifoInit
<1>1. FifoTypeOK
  <2>1. EmptyPacket \in [timestamp : Nat, burst : BOOLEAN, samples : Seq(Sample)]
    BY DEF EmptyPacket
  <2>2. mBuffer \in [Slot -> [timestamp : Nat, burst : BOOLEAN, samples : Seq(Sample)]]
    BY <2>1
  <2>3. 0 \in Slot /\ 0 \in 0..BufferSize /\ 0 \in 0..(PktSize - 1)
    BY FifoAssumption DEF Slot
  <2>4. got \in Seq(Sample)
    OBVIOUS
  <2> QED
    BY <2>2, <2>3, <2>4 DEF FifoTypeOK
<1>2. RingInv
  <2>1. (0 + 0) % BufferSize = 0
    BY FifoAssumption
  <2> QED
    BY <2>1 DEF RingInv
<1>3. mElementsFilled * PktSize = 0 /\ PktSize * mOverflow = 0
  BY FifoAssumption
<1>4. RxInv
  <2>1. PacketsInOrder
    BY DEF PacketsInOrder, Waiting
  <2>2. PoppedInOrder
    BY DEF PoppedInOrder, Increasing, Numbers
  <2>3. LossesCounted
    BY <1>3 DEF LossesCounted, Unread
  <2> QED
    BY <2>1, <2>2, <2>3 DEF RxInv
<1>5. TxInv
  <2>1. TxStamped
    BY DEF TxStamped, EmptyPacket
  <2> QED
    BY <2>1 DEF TxInv, FillingFollows
<1> QED
  BY <1>1, <1>2, <1>4, <1>5 DEF FifoInv

\* The packet a receiving thread pushes.
LEMMA PushedPacket ==
  ASSUME NEW counter \in Nat,
         NEW packet, packet = [timestamp |-> counter, burst |-> FALSE,
                               samples |-> Samples(counter, PktSize, FALSE)]
  PROVE  /\ packet \in [timestamp : Nat, burst : BOOLEAN, samples : Seq(Sample)]
         /\ Full(packet) /\ packet.timestamp = counter
<1>1. PICK p \in Nat : p = PktSize
  BY FifoAssumption
<1>2. Samples(counter, PktSize, FALSE) = [k \in 1..p |-> [number |-> counter + k - 1, end |-> FALSE]]
  BY <1>1 DEF Samples
<1>3. \A k \in 1..p : [number |-> counter + k - 1, end |-> FALSE] \in Sample
  BY <1>1 DEF Sample
<1> DEFINE samples == [k \in 1..p |-> [number |-> counter + k - 1, end |-> FALSE]]
<1>4. samples \in Seq(Sample) /\ Len(samples) = p
  BY <1>1, <1>3
<1>5. \A j \in 1..p : samples[j].number = counter + j - 1
  OBVIOUS
<1>6. samples = packet.samples
  BY <1>2
<1> HIDE DEF samples
<1> QED
  BY <1>1, <1>4, <1>5, <1>6 DEF Full

\* A push keeps the packets that stay, at their places counted from the oldest, and adds one.
LEMMA PushMoves ==
  ASSUME FifoTypeOK, RingInv, NEW packet, PushPacket(packet),
         packet \in [timestamp : Nat, burst : BOOLEAN, samples : Seq(Sample)]
  PROVE  LET gone == IF mElementsFilled >= BufferSize THEN 1 ELSE 0 IN
         /\ mBuffer' \in [Slot -> [timestamp : Nat, burst : BOOLEAN, samples : Seq(Sample)]]
         /\ mHead' \in Slot /\ mTail' \in Slot
         /\ mElementsFilled' = mElementsFilled + 1 - gone /\ mElementsFilled' \in 1..BufferSize
         /\ mTail' = (mHead' + mElementsFilled') % BufferSize
         /\ \A k \in Nat : k < mElementsFilled' - 1 => Packet(k)' = Packet(k + gone)
         /\ \A k \in Nat : k = mElementsFilled' - 1 => Packet(k)' = packet
<1>1. PICK b \in Nat, e \in Nat, h \in Slot :
        /\ b = BufferSize /\ b > 0 /\ e = mElementsFilled /\ e <= b
        /\ h = mHead /\ h \in 0..(b - 1)
  BY FifoAssumption DEF FifoTypeOK, Slot
<1>2. mTail = (h + e) % b /\ mTail \in Slot
  BY <1>1 DEF RingInv, FifoTypeOK
<1>3. mBuffer' = [mBuffer EXCEPT ![mTail] = packet] /\ mTail' = (mTail + 1) % b
  BY <1>1 DEF PushPacket, NextSlot
<1>4. /\ mBuffer' \in [Slot -> [timestamp : Nat, burst : BOOLEAN, samples : Seq(Sample)]]
      /\ mBuffer'[mTail] = packet /\ \A i \in Slot : i # mTail => mBuffer'[i] = mBuffer[i]
  BY <1>2, <1>3 DEF FifoTypeOK
<1>5. CASE e < b
  <2>1. mHead' = h /\ mElementsFilled' = e + 1 /\ ~(mElementsFilled >= BufferSize)
    BY <1>1, <1>5 DEF PushPacket
  <2>2. mTail' \in Slot /\ mTail' = (h + (e + 1)) % b
    <3>1. 1 \in Nat /\ e + 1 <= BufferSize
      BY <1>1, <1>5
    <3>2. (h + e) % BufferSize \in Slot /\
            (((h + e) % BufferSize) + 1) % BufferSize = (h + (e + 1)) % BufferSize
      BY <3>1, <1>1, WrapsTwice
    <3>3. 1 \in 0..BufferSize
      BY <1>1
    <3>4. (mTail + 1) % BufferSize \in Slot
      BY <3>3, <1>2, Wraps
    <3> QED
      BY <3>2, <3>4, <1>1, <1>2, <1>3
  <2>3. ASSUME NEW k \in Nat, k < e PROVE Packet(k)' = Packet(k + 0)
    <3>1. k \in 0..BufferSize /\ e < BufferSize
      BY <2>3, <1>1, <1>5
    <3>2. (h + k) % BufferSize \in Slot
      BY <3>1, Wraps
    <3>3. (h + k) % BufferSize # (h + e) % BufferSize
      BY <3>1, <2>3, <1>1, SlotsDiffer
    <3>4. mBuffer'[(h + k) % BufferSize] = mBuffer[(h + k) % BufferSize]
      BY <3>2, <3>3, <1>1, <1>2, <1>4
    <3>5. Packet(k)' = Packet(k) /\ k + 0 = k
      BY <3>4, <2>1, <1>1 DEF Packet
    <3> QED
      BY <3>5
  <2>4. Packet(e)' = packet
    BY <1>1, <1>2, <1>4, <2>1 DEF Packet
  <2>5. e + 1 \in 1..BufferSize /\ e + 1 - 1 = e /\ e + 1 - 0 = e + 1
    BY <1>1, <1>5
  <2>6. mTail' = (mHead' + mElementsFilled') % BufferSize
    BY <1>1, <2>1, <2>2
  <2>7. \A k \in Nat : k = mElementsFilled' - 1 => Packet(k)' = packet
    BY <2>1, <2>4, <2>5
  <2>8. \A k \in Nat : k < mElementsFilled' - 1 => Packet(k)' = Packet(k + 0)
    BY <2>1, <2>3, <2>5
  <2>9. mElementsFilled' = mElementsFilled + 1 - 0 /\ mElementsFilled' \in 1..BufferSize
    BY <1>1, <2>1, <2>5
  <2> QED
    BY <1>1, <1>4, <2>1, <2>2, <2>6, <2>7, <2>8, <2>9
<1>6. CASE e = b
  <2>1. mHead' = (h + 1) % b /\ mElementsFilled' = e /\ mElementsFilled >= BufferSize
    BY <1>1, <1>6 DEF PushPacket, NextSlot
  <2>2. mTail = h
    <3>1. e \in 0..BufferSize
      BY <1>1
    <3>2. (h + e) % BufferSize = IF h + e < BufferSize THEN h + e ELSE h + e - BufferSize
      BY <3>1, Wraps
    <3> QED
      BY <3>2, <1>1, <1>2, <1>6
  <2>3. mHead' \in Slot /\ mTail' \in Slot /\ mTail' = mHead'
    <3>1. 1 \in 0..BufferSize
      BY <1>1
    <3>2. (h + 1) % BufferSize \in Slot
      BY <3>1, Wraps
    <3> QED
      BY <3>2, <2>1, <2>2, <1>1, <1>3
  <2>4. mTail' = (mHead' + mElementsFilled') % BufferSize
    <3>1. PICK g \in Slot : g = mHead'
      BY <2>3
    <3>2. (g + e) % BufferSize = IF g + e < BufferSize THEN g + e ELSE g + e - BufferSize
      <4>1. e \in 0..BufferSize
        BY <1>1
      <4> QED
        BY <4>1, Wraps
    <3>3. (g + e) % BufferSize = g
      BY <3>2, <1>1, <1>6 DEF Slot
    <3> QED
      BY <3>1, <3>3, <2>1, <2>3
  <2>5. ASSUME NEW k \in Nat, k < b
        PROVE  (mHead' + k) % BufferSize = (h + (1 + k)) % BufferSize
    <3>1. 1 \in Nat /\ 1 + k <= BufferSize
      BY <2>5, <1>1
    <3>2. (((h + 1) % BufferSize) + k) % BufferSize = (h + (1 + k)) % BufferSize
      BY <3>1, WrapsTwice
    <3> QED
      BY <3>2, <2>1, <1>1
  <2>6. ASSUME NEW k \in Nat, k < e - 1 PROVE Packet(k)' = Packet(k + 1)
    <3>1. k < b /\ 1 + k \in Nat /\ 0 < 1 + k /\ 1 + k < BufferSize /\ 1 + k = k + 1 /\
            1 + k \in 0..BufferSize
      BY <2>6, <1>1, <1>6
    <3>2. (h + (1 + k)) % BufferSize \in Slot
      BY <3>1, Wraps
    <3>3. (h + 0) % BufferSize # (h + (1 + k)) % BufferSize
      BY <3>1, SlotsDiffer
    <3>4. (h + 0) % BufferSize = h
      <4>1. 0 \in 0..BufferSize /\ h + 0 < BufferSize /\ h + 0 = h
        BY <1>1
      <4>2. (h + 0) % BufferSize = IF h + 0 < BufferSize THEN h + 0 ELSE h + 0 - BufferSize
        BY <4>1, Wraps
      <4> QED
        BY <4>1, <4>2
    <3>5. mBuffer'[(h + (1 + k)) % BufferSize] = mBuffer[(h + (1 + k)) % BufferSize]
      BY <3>2, <3>3, <3>4, <2>2, <1>4
    <3>6. (mHead' + k) % BufferSize = (h + (1 + k)) % BufferSize
      BY <2>5, <3>1
    <3> QED
      BY <3>1, <3>5, <3>6, <1>1 DEF Packet
  <2>7. Packet(e - 1)' = packet
    <3>1. e - 1 \in Nat /\ e - 1 < b /\ 1 + (e - 1) = e
      BY <1>1, <1>6
    <3>2. (mHead' + (e - 1)) % BufferSize = (h + e) % BufferSize
      BY <2>5, <3>1
    <3> QED
      BY <3>2, <1>1, <1>2, <1>4 DEF Packet
  <2>8. e \in 1..BufferSize /\ e + 1 - 1 = e
    BY <1>1, <1>6
  <2> QED
    BY <1>1, <1>4, <2>1, <2>3, <2>4, <2>6, <2>7, <2>8
<1> QED
  BY <1>1, <1>5, <1>6

\* A received packet.
LEMMA ReceiveStep ==
  ASSUME FifoInv, NEW lost \in {0, 1}, ReceivePacket(lost)
  PROVE  FifoInv'
<1> USE DEF FifoInv
<1>1. direction = "rx" /\ direction' = "rx"
  BY DEF ReceivePacket
<1>2. PICK counter \in Nat : counter = clock + lost * PktSize /\ clock <= counter
  <2>1. PICK z \in Nat : z = lost * PktSize
    BY FifoAssumption
  <2>2. clock \in Nat
    BY DEF FifoTypeOK
  <2>3. clock + z \in Nat /\ clock <= clock + z
    BY <2>2
  <2> QED
    BY <2>1, <2>3
<1>3. PICK packet : packet = [timestamp |-> counter, burst |-> FALSE,
                              samples |-> Samples(counter, PktSize, FALSE)]
  OBVIOUS
<1>4. /\ PushPacket(packet) /\ clock' = counter + PktSize
      /\ arrived_samples' = arrived_samples + PktSize
      /\ UNCHANGED <<direction, popped_samples, wanted, got, stamp, push_at, remaining, burst>>
  BY <1>2, <1>3 DEF ReceivePacket, txVars
<1>5. /\ packet \in [timestamp : Nat, burst : BOOLEAN, samples : Seq(Sample)]
      /\ Full(packet) /\ packet.timestamp = counter
  BY <1>3, PushedPacket
<1> DEFINE gone == IF mElementsFilled >= BufferSize THEN 1 ELSE 0
<1>6. /\ mBuffer' \in [Slot -> [timestamp : Nat, burst : BOOLEAN, samples : Seq(Sample)]]
      /\ mHead' \in Slot /\ mTail' \in Slot
      /\ mElementsFilled' = mElementsFilled + 1 - gone /\ mElementsFilled' \in 1..BufferSize
      /\ mTail' = (mHead' + mElementsFilled') % BufferSize
      /\ \A k \in Nat : k < mElementsFilled' - 1 => Packet(k)' = Packet(k + gone)
      /\ \A k \in Nat : k = mElementsFilled' - 1 => Packet(k)' = packet
  BY <1>4, <1>5, PushMoves
<1>7. /\ mLast = 0 /\ push_at = "idle" /\ (mElementsFilled = 0 => mFirst = 0)
      /\ PacketsInOrder /\ PoppedInOrder /\ LossesCounted
  BY <1>1 DEF RxInv
<1>8. PICK p \in Nat, e \in Nat, f \in Nat, n \in Nat, o \in Nat, c \in Nat, g \in {0, 1} :
        /\ p = PktSize /\ p > 0 /\ e = mElementsFilled /\ f = mFirst /\ f < p
        /\ n = mElementsFilled' /\ n = e + 1 - g /\ n > 0 /\ o = mOverflow /\ c = clock /\
             g = gone
        /\ n <= BufferSize
  <2>1. gone \in {0, 1}
    OBVIOUS
  <2> HIDE DEF gone
  <2>2. /\ PktSize \in Nat /\ PktSize > 0 /\ BufferSize \in Nat /\ mElementsFilled \in Nat
        /\ mFirst \in Nat /\ mFirst < PktSize /\ mOverflow \in Nat /\ clock \in Nat
    BY FifoAssumption DEF FifoTypeOK
  <2>3. mElementsFilled' \in Nat /\ mElementsFilled' > 0 /\ mElementsFilled' <= BufferSize
    BY <1>6, <2>2
  <2>4. mElementsFilled' = mElementsFilled + 1 - gone
    BY <1>6 DEF gone
  <2> QED
    BY <2>1, <2>2, <2>3, <2>4
<1> HIDE DEF gone
<1>9. mFirst' = (IF g = 1 THEN 0 ELSE f) /\ mOverflow' = o + g /\ mLast' = mLast
  BY <1>4, <1>8 DEF PushPacket, gone
<1>10. FifoTypeOK'
  <2>1. mFirst' \in 0..(PktSize - 1) /\ mOverflow' \in Nat
    BY <1>8, <1>9
  <2>2. mElementsFilled' \in 0..BufferSize
    BY <1>6, FifoAssumption
  <2>3. arrived_samples \in Nat /\ mLast \in 0..(PktSize - 1)
    BY DEF FifoTypeOK
  <2>4. clock' \in Nat /\ arrived_samples' \in Nat /\ mLast' \in 0..(PktSize - 1)
    BY <2>3, <1>2, <1>4, <1>8, <1>9
  <2> QED
    BY <2>1, <2>2, <2>4, <1>4, <1>6 DEF FifoTypeOK
<1>11. ASSUME NEW k \in Nat, k < n - 1
       PROVE  k + g \in Waiting /\ Packet(k)' = Packet(k + g)
  BY <1>6, <1>8, <1>11 DEF Waiting
<1>12. n - 1 \in Nat /\ Packet(n - 1)' = packet
  BY <1>6, <1>8
<1>13. PacketsInOrder'
  <2>1. ASSUME NEW k \in 0..(n - 1)
        PROVE  Full(Packet(k)') /\ Packet(k)'.timestamp + PktSize <= clock'
    <3>1. CASE k < n - 1
      <4>1. Full(Packet(k + g)) /\ Packet(k + g).timestamp + PktSize <= clock
        BY <3>1, <1>7, <1>11 DEF PacketsInOrder
      <4>2. k + g \in Nat /\ k + g <= BufferSize
        <5>1. PICK b \in Nat : b = BufferSize /\ n <= b
          BY <1>8, FifoAssumption
        <5> QED
          BY <5>1, <3>1, <1>8
      <4>3. Packet(k + g).timestamp \in Nat
        BY <4>2, PacketFacts
      <4>4. clock <= clock'
        BY <1>2, <1>4, <1>8
      <4>5. Packet(k)' = Packet(k + g)
        BY <3>1, <1>11
      <4> QED
        BY <4>1, <4>3, <4>4, <4>5, <1>2, <1>4, <1>8
    <3>2. CASE k = n - 1
      BY <3>2, <1>2, <1>4, <1>5, <1>8, <1>12
    <3> QED
      BY <3>1, <3>2, <1>8
  <2>2. ASSUME NEW i \in 0..(n - 1), NEW j \in 0..(n - 1), i < j
        PROVE  Packet(i)'.timestamp + PktSize <= Packet(j)'.timestamp
    <3>1. i < n - 1 /\ i \in Nat
      BY <2>2, <1>8
    <3>2. Packet(i)' = Packet(i + g) /\ i + g \in Waiting
      BY <3>1, <1>11
    <3>3. CASE j < n - 1
      <4>1. Packet(j)' = Packet(j + g) /\ j + g \in Waiting
        BY <3>3, <1>11
      <4>2. i + g < j + g
        BY <2>2, <1>8
      <4>3. Packet(i + g).timestamp + PktSize <= Packet(j + g).timestamp
        BY <3>2, <4>1, <4>2, <1>7 DEF PacketsInOrder
      <4> QED
        BY <3>2, <4>1, <4>3
    <3>4. CASE j = n - 1
      <4>1. Packet(i + g).timestamp + PktSize <= clock
        BY <3>2, <1>7 DEF PacketsInOrder
      <4>2. i + g \in Nat /\ i + g <= BufferSize
        <5>1. PICK b \in Nat : b = BufferSize /\ n <= b
          BY <1>8, FifoAssumption
        <5> QED
          BY <5>1, <3>1, <1>8
      <4>3. Packet(i + g).timestamp \in Nat
        BY <4>2, PacketFacts
      <4> QED
        BY <3>2, <3>4, <4>1, <4>3, <1>2, <1>5, <1>8, <1>12
    <3> QED
      BY <3>3, <3>4, <1>8
  <2>3. Waiting' = 0..(n - 1)
    BY <1>8 DEF Waiting
  <2>4. \A k : Full(Packet(k))' <=> Full(Packet(k)')
    BY DEF Full
  <2> QED
    BY <2>1, <2>2, <2>3, <2>4 DEF PacketsInOrder
<1>14. PoppedInOrder'
  <2>1. ASSUME NEW i \in DOMAIN got
        PROVE  got[i].number < clock' /\ got[i].number < Packet(0)'.timestamp + mFirst'
    <3>1. got[i].number \in Nat
      <4>1. got \in Seq(Sample)
        BY DEF FifoTypeOK
      <4>2. got[i] \in Sample
        BY <4>1
      <4> QED
        BY <4>2 DEF Sample
    <3>2. got[i].number < clock /\ (e > 0 => got[i].number < Packet(0).timestamp + mFirst)
      BY <1>7, <1>8 DEF PoppedInOrder
    <3>3. got[i].number < clock'
      BY <3>1, <3>2, <1>2, <1>4, <1>8
    <3>4. CASE n = 1
      <4>1. Packet(0)' = packet
        BY <3>4, <1>12
      <4> QED
        BY <4>1, <3>1, <3>2, <3>3, <1>2, <1>5, <1>8, <1>9
    <3>5. CASE n > 1 /\ g = 0
      <4>1. Packet(0)' = Packet(0)
        BY <3>5, <1>11
      <4> QED
        BY <4>1, <3>2, <3>3, <3>5, <1>8, <1>9
    <3>6. CASE n > 1 /\ g = 1
      <4>1. Packet(0)' = Packet(1)
        BY <3>6, <1>11
      <4>2. 0 \in Waiting /\ 1 \in Waiting
        BY <3>6, <1>8 DEF Waiting
      <4>3. Packet(0).timestamp + PktSize <= Packet(1).timestamp
        BY <4>2, <1>7 DEF PacketsInOrder
      <4>4. 0 <= BufferSize /\ 1 <= BufferSize
        BY FifoAssumption
      <4>5. Packet(0).timestamp \in Nat /\ Packet(1).timestamp \in Nat
        BY <4>4, PacketFacts
      <4> QED
        BY <4>1, <4>3, <4>5, <3>1, <3>2, <3>3, <3>6, <1>8, <1>9
    <3> QED
      BY <3>4, <3>5, <3>6, <1>8
  <2>2. Increasing(Numbers(got))'
    BY <1>4, <1>7 DEF PoppedInOrder, Increasing, Numbers
  <2> QED
    BY <2>1, <2>2, <1>4, <1>7 DEF PoppedInOrder
<1>15. LossesCounted'
  <2>1. PICK a \in Int, x \in Int, y \in Int : a = arrived_samples - popped_samples /\
               x = e * p /\ y = p * o
    BY <1>8 DEF FifoTypeOK
  <2>2. a - (x - f) <= y /\ o <= a - (x - f)
    BY <2>1, <1>7, <1>8 DEF LossesCounted, Unread
  <2>3. arrived_samples' - popped_samples' = a + p
    BY <2>1, <1>4, <1>8 DEF FifoTypeOK
  <2>4. CASE g = 0
    <3>1. n * p = x + p /\ p * (o + g) = y
      <4>1. (e + 1) * p = e * p + p
        BY <1>8
      <4> QED
        BY <4>1, <2>1, <2>4, <1>8
    <3>2. Unread' = x + p - f /\ mOverflow' = o /\ PktSize * mOverflow' = y
      BY <3>1, <2>4, <1>8, <1>9 DEF Unread
    <3> QED
      BY <3>2, <2>1, <2>2, <2>3, <1>8 DEF LossesCounted
  <2>5. CASE g = 1
    <3>1. p * (o + 1) = y + p /\ n = e
      <4>1. p * (o + 1) = p * o + p
        BY <1>8
      <4> QED
        BY <4>1, <2>1, <2>5, <1>8
    <3>2. Unread' = x /\ mOverflow' = o + 1 /\ PktSize * mOverflow' = y + p
      BY <3>1, <2>1, <2>5, <1>8, <1>9 DEF Unread
    <3> QED
      BY <3>2, <2>1, <2>2, <2>3, <1>8 DEF LossesCounted
  <2> QED
    BY <2>4, <2>5, <1>8
<1>16. RxInv'
  BY <1>4, <1>7, <1>8, <1>9, <1>13, <1>14, <1>15 DEF RxInv
<1>17. TxInv' /\ RingInv'
  BY <1>1, <1>6 DEF TxInv, RingInv
<1> QED
  BY <1>10, <1>16, <1>17

\* What a pop takes.
LEMMA PopTakes ==
  ASSUME FifoInv, direction = "rx", NEW count \in Nat, NEW before \in Seq(Sample),
         before = <<>> \/ before = got, Len(before) < count, Pop(count, before)
  PROVE  \E taken \in Nat, q \in Nat, r \in Nat :
           /\ taken <= Unread /\ taken + Len(before) <= count
           /\ mElementsFilled > 0 => taken > 0
           /\ q = (mFirst + taken) \div PktSize /\ r = (mFirst + taken) % PktSize /\ r < PktSize
           /\ q <= mElementsFilled /\ (q = mElementsFilled => r = 0)
           /\ q < mElementsFilled => taken < Unread
           /\ q * PktSize + r = mFirst + taken
           /\ got' = before \o SubSeq(Contents, 1, taken)
           /\ stamp' = IF before = <<>> /\
                taken > 0 THEN mBuffer[mHead].timestamp + mFirst ELSE stamp
           /\ mHead' = (mHead + q) % BufferSize /\ mFirst' = r
           /\ mElementsFilled' = mElementsFilled - q
           /\ popped_samples' = popped_samples + taken
<1>1. /\ FifoTypeOK /\ PacketsInOrder /\ (mElementsFilled = 0 => mFirst = 0)
  BY DEF FifoInv, RxInv
<1>2. /\ Unread \in Nat /\ mElementsFilled * PktSize = mFirst + Unread /\ Len(Contents) = Unread
  BY <1>1, ContentsFacts
<1>3. PICK l \in Nat, u \in Nat, f \in Nat, e \in Nat, p \in Nat :
        /\ l = Len(before) /\ l < count /\ u = Unread /\ f = mFirst /\ e = mElementsFilled
        /\ p = PktSize /\ f < p
  BY <1>1, <1>2, FifoAssumption DEF FifoTypeOK
<1> DEFINE taken == Min({count - Len(before), Len(Contents)})
<1>4. taken = IF count - l <= u THEN count - l ELSE u
  <2>1. count - l \in Int /\ u \in Int
    BY <1>3
  <2> QED
    BY <2>1, <1>2, <1>3, LesserOfTwo
<1>5. /\ got' = before \o SubSeq(Contents, 1, taken)
      /\ stamp' = IF before = <<>> /\
           taken > 0 THEN mBuffer[mHead].timestamp + mFirst ELSE stamp
      /\ mHead' = (mHead + (mFirst + taken) \div PktSize) % BufferSize
      /\ mFirst' = (mFirst + taken) % PktSize
      /\ mElementsFilled' = mElementsFilled - (mFirst + taken) \div PktSize
      /\ popped_samples' = popped_samples + taken
  BY DEF Pop
<1> HIDE DEF taken
<1>6. taken \in Nat /\ taken <= u /\ taken + l <= count /\ (u > 0 => taken > 0)
  BY <1>3, <1>4
<1>7. e > 0 => u > 0
  <2>1. ASSUME e > 0 PROVE p <= f + u
    <3>1. 0 * PktSize + PktSize <= mElementsFilled * PktSize
      BY <2>1, <1>3, MorePackets
    <3>2. 0 * PktSize = 0
      BY <1>3
    <3> QED
      BY <3>1, <3>2, <1>2, <1>3
  <2> QED
    BY <2>1, <1>3
<1>8. f + taken \in Nat
  BY <1>3, <1>6
<1>9. PICK q \in Nat, r \in Nat : q = (f + taken) \div PktSize /\
             r = (f + taken) % PktSize /\ r < PktSize
  BY <1>8, Split, Zenon
<1>10. f + taken <= e * PktSize
  BY <1>2, <1>3, <1>6
<1>11. q <= e /\ (q = e => r = 0) /\ (q < e => f + taken < e * PktSize)
  BY <1>8, <1>9, <1>10, <1>3, InPackets
<1>12. q < e => taken < u
  BY <1>2, <1>3, <1>6, <1>11
<1>13. q * PktSize + r = f + taken
  BY <1>8, <1>9, Divides
<1>14. /\ taken <= Unread /\ taken + Len(before) <= count
       /\ mElementsFilled > 0 => taken > 0
  BY <1>3, <1>6, <1>7
<1>15. /\ q <= mElementsFilled /\ (q = mElementsFilled => r = 0)
       /\ q < mElementsFilled => taken < Unread
       /\ q * PktSize + r = mFirst + taken
  BY <1>3, <1>11, <1>12, <1>13
<1>16. q = (mFirst + taken) \div PktSize /\ r = (mFirst + taken) % PktSize
  BY <1>3, <1>9
<1> QED
  BY <1>5, <1>6, <1>9, <1>14, <1>15, <1>16

\* A pop.
LEMMA PopStep ==
  ASSUME FifoInv, direction = "rx", NEW count \in Nat, NEW before \in Seq(Sample),
         before = <<>> \/ before = got, Len(before) < count, Pop(count, before)
  PROVE  FifoInv'
<1>1. /\ FifoTypeOK /\ RingInv /\ PacketsInOrder /\ PoppedInOrder /\ LossesCounted
      /\ mLast = 0 /\ push_at = "idle" /\ (mElementsFilled = 0 => mFirst = 0)
  BY DEF FifoInv, RxInv
<1>2. PICK taken \in Nat, q \in Nat, r \in Nat :
           /\ taken <= Unread /\ taken + Len(before) <= count
           /\ mElementsFilled > 0 => taken > 0
           /\ q = (mFirst + taken) \div PktSize /\ r = (mFirst + taken) % PktSize /\ r < PktSize
           /\ q <= mElementsFilled /\ (q = mElementsFilled => r = 0)
           /\ q < mElementsFilled => taken < Unread
           /\ q * PktSize + r = mFirst + taken
           /\ got' = before \o SubSeq(Contents, 1, taken)
           /\ stamp' = IF before = <<>> /\
                taken > 0 THEN mBuffer[mHead].timestamp + mFirst ELSE stamp
           /\ mHead' = (mHead + q) % BufferSize /\ mFirst' = r
           /\ mElementsFilled' = mElementsFilled - q
           /\ popped_samples' = popped_samples + taken
  BY PopTakes, Zenon
<1>3. /\ wanted' = IF Len(got') = count THEN 0 ELSE count
      /\ UNCHANGED <<direction, mBuffer, mTail, mLast, mOverflow, clock, arrived_samples,
                     push_at, remaining, burst>>
  BY DEF Pop, txVars
<1>4. PICK l \in Nat, u \in Nat, f \in Nat, e \in Nat, p \in Nat, b \in Nat :
        /\ l = Len(before) /\ u = Unread /\ f = mFirst /\ f < p /\ e = mElementsFilled
        /\ p = PktSize /\ p > 0 /\ b = BufferSize /\ b > 0 /\ e <= b
  BY <1>1, ContentsFacts, FifoAssumption DEF FifoTypeOK
<1>5. taken <= u /\ taken + l <= count /\ q <= e /\ (q < e => taken < u) /\ r < p /\
        (q = e => r = 0)
  BY <1>2, <1>4
<1>6. /\ Contents \in Seq(Sample) /\ Len(Contents) = u /\ e * p = f + u
      /\ \A k \in 1..u : Contents[k].number = Time(f + k - 1)
  BY <1>1, <1>4, ContentsFacts
<1>7. /\ got' \in Seq(Sample) /\ Len(got') = l + taken /\ DOMAIN got' = 1..(l + taken)
      /\ DOMAIN before = 1..l
      /\ \A i \in 1..l : got'[i] = before[i]
      /\ \A i \in (l + 1)..(l + taken) : got'[i] = Contents[i - l]
  <2> DEFINE part == SubSeq(Contents, 1, taken)
  <2>1. part \in Seq(Sample) /\ Len(part) = taken /\ \A i \in 1..taken : part[i] = Contents[i]
    BY <1>5, <1>6
  <2>2. got' = before \o part
    BY <1>2
  <2> HIDE DEF part
  <2>3. /\ before \o part \in Seq(Sample) /\ Len(before \o part) = l + taken
        /\ \A i \in 1..l : (before \o part)[i] = before[i]
        /\ \A i \in (l + 1)..(l + taken) : (before \o part)[i] = part[i - l]
    BY <2>1, <1>4
  <2>4. \A i \in (l + 1)..(l + taken) : i - l \in 1..taken
    BY <1>4
  <2>5. DOMAIN got' = 1..(l + taken) /\ DOMAIN before = 1..l
    BY <2>2, <2>3, <1>4
  <2> QED
    BY <2>1, <2>2, <2>3, <2>4, <2>5
<1>8. ASSUME NEW k \in Nat, q + k <= b
      PROVE  Packet(k)' = Packet(q + k)
  <2>1. mHead \in Slot /\ q + k <= BufferSize
    BY <1>1, <1>4, <1>8 DEF FifoTypeOK
  <2>2. (((mHead + q) % BufferSize) + k) % BufferSize = (mHead + (q + k)) % BufferSize
    BY <2>1, WrapsTwice
  <2> QED
    BY <2>2, <1>2, <1>3 DEF Packet
<1>9. FifoTypeOK'
  <2>1. mHead' \in Slot
    <3>1. mHead \in Slot /\ q \in 0..BufferSize
      BY <1>1, <1>4, <1>5 DEF FifoTypeOK
    <3> QED
      BY <3>1, <1>2, Wraps
  <2>2. mElementsFilled' \in 0..BufferSize /\ mFirst' \in 0..(PktSize - 1)
    BY <1>2, <1>4, <1>5
  <2>3. popped_samples' \in Nat /\ wanted' \in Nat
    BY <1>1, <1>2, <1>3 DEF FifoTypeOK
  <2>4. stamp' \in Nat
    <3>1. mBuffer[mHead].timestamp \in Nat /\ mFirst \in Nat /\ stamp \in Nat
      BY <1>1, FifoAssumption DEF FifoTypeOK
    <3> QED
      BY <3>1, <1>2
  <2> QED
    BY <2>1, <2>2, <2>3, <2>4, <1>1, <1>3, <1>7 DEF FifoTypeOK
<1>10. RingInv'
  <2>1. e - q \in Nat /\ q + (e - q) = e /\ q + (e - q) <= BufferSize /\ mHead \in Slot
    BY <1>1, <1>4, <1>5 DEF FifoTypeOK
  <2>2. (((mHead + q) % BufferSize) + (e - q)) % BufferSize = (mHead + (q + (e - q))) % BufferSize
    BY <2>1, WrapsTwice
  <2> QED
    BY <2>1, <2>2, <1>1, <1>2, <1>3, <1>4 DEF RingInv
<1>11. \A k \in Waiting' : k \in Nat /\ q + k \in Waiting /\ q + k <= b /\
         Packet(k)' = Packet(q + k)
  <2>1. Waiting' = 0..(e - q - 1) /\ Waiting = 0..(e - 1)
    BY <1>2, <1>4 DEF Waiting
  <2>2. ASSUME NEW k \in 0..(e - q - 1) PROVE k \in Nat /\ q + k \in 0..(e - 1) /\ q + k <= b
    BY <1>4, <1>5
  <2> QED
    BY <2>1, <2>2, <1>8
<1>12. PacketsInOrder'
  <2>1. ASSUME NEW k \in Waiting'
        PROVE  Full(Packet(k))' /\ Packet(k)'.timestamp + PktSize <= clock'
    <3>1. Packet(k)' = Packet(q + k) /\ q + k \in Waiting
      BY <1>11
    <3>2. Full(Packet(q + k)) /\ Packet(q + k).timestamp + PktSize <= clock
      BY <3>1, <1>1 DEF PacketsInOrder
    <3> QED
      BY <3>1, <3>2, <1>3 DEF Full
  <2>2. ASSUME NEW i \in Waiting', NEW j \in Waiting', i < j
        PROVE  Packet(i)'.timestamp + PktSize <= Packet(j)'.timestamp
    <3>1. q + i < q + j
      BY <2>2, <1>11
    <3> QED
      BY <3>1, <1>1, <1>11 DEF PacketsInOrder
  <2> QED
    BY <2>1, <2>2 DEF PacketsInOrder
<1>13. /\ \A i, j \in 1..l : i < j => before[i].number < before[j].number
       /\ \A i \in 1..l : before[i].number < clock
       /\ \A i \in 1..l, k \in 1..u : before[i].number < Contents[k].number
       /\ before # <<>> => before[1].number = stamp
  <2>1. CASE before = <<>>
    BY <2>1, <1>4
  <2>2. CASE before = got
    <3>1. DOMAIN got = 1..l
      BY <2>2, <1>7
    <3>2. \A i, j \in 1..l : i < j => got[i].number < got[j].number
      BY <3>1, <1>1 DEF PoppedInOrder, Increasing, Numbers
    <3>3. \A i \in 1..l, k \in 1..u : got[i].number < Contents[k].number
      BY <3>1, <1>1, <1>4, AllInOrder
    <3> QED
      BY <2>2, <3>1, <3>2, <3>3, <1>1 DEF PoppedInOrder
  <2> QED
    BY <2>1, <2>2
<1>14. /\ \A i, j \in 1..u : i < j => Contents[i].number < Contents[j].number
       /\ \A i \in 1..u : Contents[i].number < clock
  BY <1>1, <1>4, AllInOrder
<1>15. Increasing(Numbers(got'))
  <2>1. ASSUME NEW i \in 1..(l + taken), NEW j \in 1..(l + taken), i < j
        PROVE  got'[i].number < got'[j].number
    <3>1. CASE j <= l
      <4>1. i \in 1..l /\ j \in 1..l
        BY <2>1, <3>1, <1>4
      <4> QED
        BY <2>1, <4>1, <1>7, <1>13
    <3>2. CASE i <= l /\ ~(j <= l)
      <4>1. i \in 1..l /\ j - l \in 1..u /\ j \in (l + 1)..(l + taken)
        BY <3>2, <1>4, <1>5
      <4> QED
        BY <4>1, <1>7, <1>13
    <3>3. CASE ~(i <= l)
      <4>1. /\ i - l \in 1..u /\ j - l \in 1..u /\ i - l < j - l
            /\ i \in (l + 1)..(l + taken) /\ j \in (l + 1)..(l + taken)
        BY <2>1, <3>3, <1>4, <1>5
      <4> QED
        BY <4>1, <1>7, <1>14
    <3> QED
      BY <3>1, <3>2, <3>3, <1>4
  <2> QED
    BY <2>1, <1>7 DEF Increasing, Numbers
<1>16. ASSUME NEW i \in 1..(l + taken)
       PROVE  /\ got'[i].number < clock
              /\ taken < u => got'[i].number < Contents[taken + 1].number
  <2>1. taken < u => taken + 1 \in 1..u
    BY <1>4
  <2>2. CASE i <= l
    <3>1. i \in 1..l
      BY <2>2, <1>4
    <3> QED
      BY <3>1, <2>1, <1>7, <1>13
  <2>3. CASE ~(i <= l)
    <3>1. i - l \in 1..u /\ i - l < taken + 1 /\ i \in (l + 1)..(l + taken)
      BY <2>3, <1>4, <1>5
    <3> QED
      BY <3>1, <2>1, <1>7, <1>14
  <2> QED
    BY <2>2, <2>3, <1>4
<1>17. mElementsFilled' > 0 => taken < u /\
         Contents[taken + 1].number = Packet(0)'.timestamp + mFirst'
  <2>1. ASSUME mElementsFilled' > 0 PROVE taken < u /\ q + 0 <= b /\ q + 0 = q
    BY <2>1, <1>2, <1>4, <1>5
  <2>2. ASSUME mElementsFilled' > 0 PROVE Packet(0)' = Packet(q)
    BY <2>1, <2>2, <1>8
  <2>3. ASSUME mElementsFilled' > 0 PROVE Contents[taken + 1].number = Time(f + taken)
    <3>1. taken + 1 \in 1..u /\ f + (taken + 1) - 1 = f + taken
      BY <2>1, <2>3, <1>4
    <3>2. Contents[taken + 1].number = Time(f + (taken + 1) - 1)
      BY <3>1, <1>6
    <3> QED
      BY <3>1, <3>2
  <2>4. Time(f + taken) = Packet(q).timestamp + r
    <3>1. q = (f + taken) \div PktSize /\ r = (f + taken) % PktSize
      BY <1>2, <1>4
    <3> QED
      BY <3>1 DEF Time
  <2> QED
    BY <2>1, <2>2, <2>3, <2>4, <1>2
<1>18. got' # <<>> => got'[1].number = stamp'
  <2>1. CASE before = <<>> /\ taken > 0
    <3>1. l = 0 /\ 1 \in (l + 1)..(l + taken) /\ 1 - l = 1 /\ 1 \in 1..u /\ f + 1 - 1 = f
      BY <2>1, <1>4, <1>5
    <3>2. got'[1] = Contents[1]
      BY <3>1, <1>7
    <3>3. Contents[1].number = Time(f + 1 - 1)
      BY <3>1, <1>6
    <3>4. Contents[1].number = Time(f)
      BY <3>1, <3>3
    <3>5. Time(f) = mBuffer[mHead].timestamp + mFirst
      BY <1>1, <1>4, FirstTime, OldestPacket
    <3> QED
      BY <2>1, <3>2, <3>4, <3>5, <1>2
  <2>2. CASE before = <<>> /\ ~(taken > 0)
    <3>1. Len(got') = 0
      BY <2>2, <1>4, <1>7
    <3> QED
      BY <3>1, <1>7
  <2>3. CASE before # <<>>
    <3>1. l # 0 /\ 1 \in 1..l
      BY <2>3, <1>4
    <3> QED
      BY <2>3, <3>1, <1>2, <1>7, <1>13
  <2> QED
    BY <2>1, <2>2, <2>3
<1>19. wanted' # 0 => Len(got') < wanted'
  BY <1>3, <1>4, <1>5, <1>7
<1>20. PoppedInOrder'
  <2>1. ASSUME NEW i \in DOMAIN got'
        PROVE  /\ got'[i].number < clock'
               /\ mElementsFilled' > 0 => got'[i].number < Packet(0)'.timestamp + mFirst'
    <3>1. i \in 1..(l + taken)
      BY <2>1, <1>7
    <3> QED
      BY <3>1, <1>3, <1>16, <1>17
  <2> QED
    BY <2>1, <1>15, <1>18, <1>19 DEF PoppedInOrder, Increasing, Numbers
<1>21. LossesCounted'
  <2>1. PICK x \in Int, y \in Int, z \in Int : x = e * p /\ y = q * p /\ z = (e - q) * p
    BY <1>4
  <2>2. z = x - y
    <3>1. (e - q) * p = e * p - q * p
      BY <1>4
    <3> QED
      BY <3>1, <2>1
  <2>3. y + r = f + taken
    BY <2>1, <1>2, <1>4
  <2>4. Unread = x - f /\ Unread' = z - r
    BY <2>1, <1>2, <1>4 DEF Unread
  <2>5. Unread' = Unread - taken
    BY <2>1, <2>2, <2>3, <2>4, <1>4
  <2>6. PICK a \in Int, d \in Int : a = arrived_samples /\ d = popped_samples
    BY <1>1 DEF FifoTypeOK
  <2>7. arrived_samples' - popped_samples' - Unread' = arrived_samples - popped_samples - Unread
    BY <2>5, <2>6, <1>2, <1>3, <1>4
  <2> QED
    BY <2>7, <1>1, <1>3 DEF LossesCounted
<1>22. mElementsFilled' = 0 => mFirst' = 0
  <2>1. mElementsFilled' = e - q /\ mFirst' = r
    BY <1>2, <1>4
  <2> QED
    BY <2>1, <1>4, <1>5
<1>23. RxInv'
  BY <1>1, <1>3, <1>12, <1>20, <1>21, <1>22 DEF RxInv
<1>24. TxInv'
  BY <1>3 DEF TxInv
<1> QED
  BY <1>9, <1>10, <1>23, <1>24 DEF FifoInv

\* What concatenation does.
LEMMA Concatenates ==
  ASSUME NEW S, NEW a \in Seq(S), NEW b \in Seq(S)
  PROVE  /\ a \o b \in Seq(S) /\ Len(a \o b) = Len(a) + Len(b)
         /\ DOMAIN (a \o b) = 1..(Len(a) + Len(b))
         /\ \A i \in 1..Len(a) : (a \o b)[i] = a[i]
         /\ \A i \in (Len(a) + 1)..(Len(a) + Len(b)) : (a \o b)[i] = b[i - Len(a)]
OBVIOUS

\* A chunk of samples is written into the packet at mTail.
LEMMA ChunkStep == ASSUME FifoInv, PushChunk PROVE FifoInv'
<1> DEFINE count == Min({remaining, PktSize - mLast})
           ends == ChunkEndsBurst(count)
           full == mLast + count = PktSize \/ ends
           old == mBuffer[mTail].samples
           kept == SubSeq(old, 1, mLast)
           added == Samples(clock, count, burst /\ count = remaining)
           packet == [timestamp |-> clock - mLast, burst |-> ends, samples |-> kept \o added]
<1>1. /\ push_at = "filling" /\ remaining > 0 /\ mElementsFilled < BufferSize
      /\ mTail' = IF full THEN NextSlot(mTail) ELSE mTail
      /\ mElementsFilled' = IF full THEN mElementsFilled + 1 ELSE mElementsFilled
      /\ mLast' = IF full THEN 0 ELSE mLast + count
      /\ clock' = clock + count /\ remaining' = remaining - count
      /\ UNCHANGED <<direction, mHead, mFirst, mOverflow, arrived_samples, popped_samples, wanted,
                     got, stamp, push_at, burst>>
  BY DEF PushChunk, rxVars
<1>2. mBuffer' = [mBuffer EXCEPT ![mTail] = packet]
  BY DEF PushChunk
<1>3. direction = "tx" /\ FifoTypeOK /\ RingInv
  BY <1>1 DEF FifoInv, RxInv, FifoTypeOK
<1>4. wanted = 0 /\ mLast <= clock /\ TxStamped /\ FillingFollows
  BY <1>3 DEF FifoInv, TxInv
<1>5. PICK n \in Nat, p \in Nat, l \in Nat, c \in Nat :
        /\ n = count /\ p = PktSize /\ l = mLast /\ c = clock /\ l < p /\ l <= c
        /\ n > 0 /\ n <= remaining /\ l + n <= p
  <2>1. remaining \in Nat /\ PktSize \in Nat /\ mLast \in Nat /\ mLast < PktSize /\
          clock \in Nat
    BY <1>3, FifoAssumption DEF FifoTypeOK
  <2>2. count = IF remaining <= PktSize - mLast THEN remaining ELSE PktSize - mLast
    BY <2>1, LesserOfTwo
  <2> HIDE DEF count
  <2>3. count \in Nat /\ count > 0 /\ count <= remaining /\ mLast + count <= PktSize
    BY <2>1, <2>2, <1>1
  <2> QED
    BY <2>1, <2>3, <1>4
<1>6. ends \in BOOLEAN /\ (ends <=> burst /\ n = remaining)
  BY <1>3, <1>5 DEF ChunkEndsBurst, FifoTypeOK
<1>7. mTail \in Slot /\ mBuffer[mTail].timestamp \in Nat /\ old \in Seq(Sample)
  BY <1>3 DEF FifoTypeOK
<1>8. l > 0 => /\ Len(old) = l /\ mBuffer[mTail].timestamp + l = c /\ ~mBuffer[mTail].burst
  BY <1>4, <1>5 DEF FillingFollows
<1>9. /\ kept \in Seq(Sample) /\ Len(kept) = l
      /\ \A k \in 1..l : kept[k].number = c - l + k - 1 /\ ~kept[k].end
  <2>1. CASE l = 0
    <3> HIDE DEF old
    <3>1. kept \in Seq(Sample) /\ Len(kept) = 0
      BY <2>1, <1>5, <1>7
    <3> QED
      BY <2>1, <3>1
  <2>2. CASE l > 0
    <3>1. Len(old) = l /\ DOMAIN old = 1..l
      BY <2>2, <1>7, <1>8
    <3>2. \A k \in 1..l : /\ old[k].number = mBuffer[mTail].timestamp + k - 1
                          /\ ~old[k].end
      <4>1. mTail \in DOMAIN mBuffer
        BY <1>3, <1>7 DEF FifoTypeOK
      <4>2. \A k \in 1..l : /\ old[k].number = mBuffer[mTail].timestamp + k - 1
                            /\ old[k].end <=> mBuffer[mTail].burst /\ k = Len(old)
        BY <3>1, <4>1, <1>4 DEF TxStamped
      <4> QED
        BY <2>2, <4>2, <1>8
    <3>3. \A k \in 1..l : old[k].number = c - l + k - 1
      <4>1. mBuffer[mTail].timestamp = c - l
        BY <2>2, <1>5, <1>7, <1>8
      <4> QED
        BY <3>2, <4>1
    <3> HIDE DEF old
    <3>4. kept \in Seq(Sample) /\ Len(kept) = l /\ \A k \in 1..l : kept[k] = old[k]
      BY <3>1, <1>5, <1>7
    <3> HIDE DEF kept
    <3> QED
      BY <3>2, <3>3, <3>4
  <2> QED
    BY <2>1, <2>2
<1>10. /\ added \in Seq(Sample) /\ Len(added) = n
       /\ \A k \in 1..n : added[k].number = c + k - 1 /\ (added[k].end <=> ends /\ k = n)
  <2> DEFINE fresh == [k \in 1..n |-> [number |-> c + k - 1, end |-> (burst /\
        n = remaining) /\ k = n]]
  <2>1. added = fresh
    BY <1>5 DEF Samples
  <2>2. \A k \in 1..n : [number |-> c + k - 1, end |-> (burst /\ n = remaining) /\
          k = n] \in Sample
    BY <1>3, <1>5 DEF Sample, FifoTypeOK
  <2>3. fresh \in Seq(Sample) /\ Len(fresh) = n
    BY <2>2
  <2>4. \A k \in 1..n : fresh[k].number = c + k - 1 /\ (fresh[k].end <=> (burst /\
          n = remaining) /\ k = n)
    OBVIOUS
  <2> HIDE DEF added, fresh, ends
  <2> QED
    BY <2>1, <2>3, <2>4, <1>6
<1> HIDE DEF kept, added
<1> DEFINE samples == kept \o added
<1>11. /\ samples \in Seq(Sample) /\ Len(samples) = l + n /\ DOMAIN samples = 1..(l + n)
       /\ \A k \in 1..l : samples[k] = kept[k]
       /\ \A k \in (l + 1)..(l + n) : samples[k] = added[k - l]
  <2>1. kept \in Seq(Sample) /\ Len(kept) = l /\ added \in Seq(Sample) /\ Len(added) = n
    BY <1>9, <1>10
  <2>2. l = Len(kept) /\ n = Len(added)
    BY <2>1
  <2>3. /\ samples \in Seq(Sample) /\ Len(samples) = Len(kept) + Len(added)
        /\ DOMAIN samples = 1..(Len(kept) + Len(added))
        /\ \A k \in 1..Len(kept) : samples[k] = kept[k]
        /\ \A k \in (Len(kept) + 1)..(Len(kept) + Len(added)) : samples[k] = added[k - Len(kept)]
    BY <2>1, Concatenates
  <2> HIDE DEF samples
  <2> QED
    BY <2>2, <2>3
<1> HIDE DEF ends
<1>12. ASSUME NEW k \in 1..(l + n)
       PROVE  samples[k].number = c - l + k - 1 /\ (samples[k].end <=> ends /\ k = l + n)
  <2> HIDE DEF samples
  <2>1. CASE k <= l
    <3>1. k \in 1..l /\ k # l + n
      BY <2>1, <1>5
    <3> QED
      BY <3>1, <1>9, <1>11
  <2>2. CASE ~(k <= l)
    <3>1. k - l \in 1..n /\ k \in (l + 1)..(l + n) /\ (k - l = n <=> k = l + n) /\
            c + (k - l) - 1 = c - l + k - 1
      BY <2>2, <1>5
    <3> QED
      BY <3>1, <1>10, <1>11
  <2> QED
    BY <2>1, <2>2, <1>5
<1>13. /\ packet.timestamp = c - l /\ packet.samples = samples /\ packet.burst = ends
       /\ packet \in [timestamp : Nat, burst : BOOLEAN, samples : Seq(Sample)]
  BY <1>5, <1>6, <1>11
<1> HIDE DEF packet, samples, full
<1>14. /\ mBuffer' \in [Slot -> [timestamp : Nat, burst : BOOLEAN, samples : Seq(Sample)]]
       /\ mBuffer'[mTail] = packet /\ DOMAIN mBuffer' = DOMAIN mBuffer
       /\ \A i \in DOMAIN mBuffer : i # mTail => mBuffer'[i] = mBuffer[i]
  BY <1>2, <1>3, <1>7, <1>13 DEF FifoTypeOK
<1>15. TxStamped'
  <2>1. ASSUME NEW k \in DOMAIN packet.samples
        PROVE  /\ packet.samples[k].number = packet.timestamp + k - 1
               /\ packet.samples[k].end <=> packet.burst /\ k = Len(packet.samples)
    <3>1. k \in 1..(l + n)
      BY <1>11, <1>13
    <3> QED
      BY <3>1, <1>11, <1>12, <1>13
  <2>2. ASSUME NEW i \in DOMAIN mBuffer', NEW k \in DOMAIN mBuffer'[i].samples
        PROVE  /\ mBuffer'[i].samples[k].number = mBuffer'[i].timestamp + k - 1
               /\ mBuffer'[i].samples[k].end <=> mBuffer'[i].burst /\
                    k = Len(mBuffer'[i].samples)
    <3>1. CASE i = mTail
      BY <3>1, <2>1, <2>2, <1>14
    <3>2. CASE i # mTail
      <4>1. i \in DOMAIN mBuffer /\ mBuffer'[i] = mBuffer[i]
        BY <3>2, <2>2, <1>14
      <4> QED
        BY <4>1, <2>2, <1>4 DEF TxStamped
    <3> QED
      BY <3>1, <3>2
  <2> QED
    BY <2>2 DEF TxStamped
<1>16. full <=> l + n = p \/ ends
  BY <1>5 DEF full
<1>17. FillingFollows'
  <2>1. CASE full
    BY <2>1, <1>1 DEF FillingFollows
  <2>2. CASE ~full
    <3>1. mTail' = mTail /\ mLast' = l + n /\ clock' = c + n /\ ~ends
      BY <2>2, <1>1, <1>5, <1>16
    <3>2. Len(packet.samples) = l + n /\ packet.timestamp + (l + n) = c + n /\ ~packet.burst
      BY <3>1, <1>5, <1>11, <1>13
    <3> QED
      BY <3>1, <3>2, <1>14 DEF FillingFollows
  <2> QED
    BY <2>1, <2>2
<1>18. TxInv' /\ RxInv'
  <2>1. mLast' <= clock'
    BY <1>1, <1>5
  <2> QED
    BY <2>1, <1>1, <1>3, <1>4, <1>15, <1>17 DEF TxInv, RxInv
<1>19. RingInv' /\ mTail' \in Slot
  <2>1. CASE full
    <3>1. PICK b \in Nat, e \in Nat : b = BufferSize /\ b > 0 /\ e = mElementsFilled /\ e < b
      BY <1>1, <1>3, FifoAssumption DEF FifoTypeOK
    <3>2. mHead \in Slot /\ 1 \in Nat /\ e + 1 <= BufferSize
      BY <3>1, <1>3 DEF FifoTypeOK
    <3>3. (((mHead + e) % BufferSize) + 1) % BufferSize = (mHead + (e + 1)) % BufferSize
      BY <3>1, <3>2, WrapsTwice
    <3>4. mTail = (mHead + e) % BufferSize
      BY <3>1, <1>3 DEF RingInv
    <3>5. mTail' = (mTail + 1) % BufferSize /\ mElementsFilled' = e + 1 /\ mHead' = mHead
      BY <2>1, <3>1, <1>1 DEF NextSlot
    <3>6. 1 \in 0..BufferSize
      BY <3>1
    <3>7. (mTail + 1) % BufferSize \in Slot
      BY <3>6, <1>7, Wraps
    <3> QED
      BY <3>3, <3>4, <3>5, <3>7 DEF RingInv
  <2>2. CASE ~full
    BY <2>2, <1>1, <1>3, <1>7 DEF RingInv
  <2> QED
    BY <2>1, <2>2
<1>20. FifoTypeOK'
  <2>1. mElementsFilled' \in 0..BufferSize
    BY <1>1, <1>3, FifoAssumption DEF FifoTypeOK
  <2>2. mLast' \in 0..(PktSize - 1)
    BY <1>1, <1>5, <1>16
  <2>3. clock' \in Nat /\ remaining' \in Nat
    <3>1. remaining \in Nat
      BY <1>3 DEF FifoTypeOK
    <3> QED
      BY <3>1, <1>1, <1>5
  <2> QED
    BY <2>1, <2>2, <2>3, <1>1, <1>3, <1>14, <1>19 DEF FifoTypeOK
<1> QED
  BY <1>18, <1>19, <1>20 DEF FifoInv

\* The other steps of a transmit stream, and a receive call that times out.
LEMMA QuietStep ==
  ASSUME FifoInv,
         \/ PopTimesOut \/ PushDone \/ PushWaits \/ PushWakes \/ PushTimesOut
         \/ \E count \in 1..MaxRead, ends \in BOOLEAN, skip \in {0, 1} : PushSamples(count, ends, skip)
  PROVE  FifoInv'
<1>1. FifoTypeOK /\ RingInv /\ RxInv /\ TxInv
  BY DEF FifoInv
<1>2. /\ UNCHANGED <<direction, ringVars, arrived_samples, popped_samples, got, stamp>>
      /\ wanted' \in {0, wanted} /\ remaining' \in Nat /\ burst' \in BOOLEAN
      /\ push_at' \in {"idle", "filling", "waiting"} /\ (direction = "rx" => push_at' = push_at)
      /\ clock' \in Nat /\ clock <= clock' /\ (mLast > 0 \/ direction = "rx" => clock' = clock)
  <2>1. CASE PopTimesOut
    BY <2>1, <1>1 DEF PopTimesOut, txVars, FifoTypeOK
  <2>2. CASE PushDone \/ PushWaits \/ PushWakes \/ PushTimesOut
    <3>1. /\ UNCHANGED <<direction, ringVars, clock, rxVars>> /\ push_at # "idle"
          /\ push_at' \in {"idle", "filling", "waiting"}
          /\ remaining' \in {0, remaining} /\ burst' \in {FALSE, burst}
      BY <2>2 DEF PushDone, PushWaits, PushWakes, PushTimesOut
    <3>2. direction # "rx"
      BY <3>1, <1>1 DEF RxInv
    <3>3. clock \in Nat /\ remaining \in Nat /\ burst \in BOOLEAN
      BY <1>1 DEF FifoTypeOK
    <3>4. clock' = clock /\ wanted' = wanted /\
            UNCHANGED <<arrived_samples, popped_samples, got, stamp>>
      BY <3>1 DEF rxVars
    <3>5. clock' \in Nat /\ clock <= clock'
      BY <3>3, <3>4
    <3>6. remaining' \in Nat /\ burst' \in BOOLEAN
      <4>1. remaining' = 0 \/ remaining' = remaining
        BY <3>1
      <4>2. burst' = FALSE \/ burst' = burst
        BY <3>1, Zenon
      <4>3. remaining' \in Nat
        BY <4>1, <3>3
      <4>4. burst' \in BOOLEAN
        BY <4>2, <3>3, Zenon
      <4> QED
        BY <4>3, <4>4
    <3> QED
      BY <3>1, <3>2, <3>4, <3>5, <3>6
  <2>3. ASSUME NEW count \in 1..MaxRead, NEW ends \in BOOLEAN, NEW skip \in {0, 1},
               PushSamples(count, ends, skip)
        PROVE  /\ UNCHANGED <<direction, ringVars, arrived_samples, popped_samples, got, stamp>>
               /\ wanted' \in {0, wanted} /\ remaining' \in Nat /\ burst' \in BOOLEAN
               /\ push_at' \in {"idle", "filling", "waiting"} /\ direction # "rx"
               /\ clock' \in Nat /\ clock <= clock' /\ (mLast > 0 => clock' = clock)
    BY <2>3, <1>1, FifoAssumption DEF PushSamples, rxVars, FifoTypeOK
  <2> QED
    BY <2>1, <2>2, <2>3
<1>3. /\ UNCHANGED <<direction, mBuffer, mHead, mTail, mFirst, mLast, mElementsFilled, mOverflow,
                     arrived_samples, popped_samples, got, stamp>>
  BY <1>2 DEF ringVars
<1>4. FifoTypeOK' /\ RingInv'
  BY <1>1, <1>2, <1>3 DEF FifoTypeOK, RingInv
<1>5. RxInv'
  <2>1. ASSUME direction = "rx"
        PROVE  PacketsInOrder' /\ PoppedInOrder' /\ LossesCounted' /\ mLast = 0 /\
                 push_at' = "idle"
    <3>1. clock' = clock /\ push_at' = "idle" /\ PacketsInOrder /\ PoppedInOrder /\
            LossesCounted
      BY <2>1, <1>1, <1>2 DEF RxInv
    <3>2. \A k : Packet(k)' = Packet(k)
      BY <1>3 DEF Packet
    <3>3. PacketsInOrder'
      BY <3>1, <3>2, <1>3 DEF PacketsInOrder, Waiting, Full
    <3>4. PoppedInOrder'
      BY <3>1, <3>2, <1>2, <1>3 DEF PoppedInOrder, Increasing, Numbers
    <3>5. LossesCounted'
      BY <3>1, <1>3 DEF LossesCounted, Unread
    <3> QED
      BY <2>1, <3>1, <3>3, <3>4, <3>5, <1>1 DEF RxInv
  <2> QED
    BY <2>1, <1>1, <1>3 DEF RxInv
<1>6. TxInv'
  <2>1. ASSUME direction = "tx"
        PROVE  wanted' = 0 /\ mLast' <= clock' /\ TxStamped' /\ FillingFollows'
    <3>1. wanted = 0 /\ mLast <= clock /\ TxStamped /\ FillingFollows
      BY <2>1, <1>1 DEF TxInv
    <3>2. mLast' <= clock'
      <4>1. mLast \in Nat /\ clock \in Nat
        BY <1>1, FifoAssumption DEF FifoTypeOK
      <4> QED
        BY <4>1, <3>1, <1>2, <1>3
    <3>3. TxStamped'
      BY <3>1, <1>3 DEF TxStamped
    <3>4. FillingFollows'
      BY <3>1, <1>2, <1>3 DEF FillingFollows
    <3> QED
      BY <3>1, <3>2, <3>3, <3>4, <1>2
  <2> QED
    BY <2>1, <1>3 DEF TxInv
<1> QED
  BY <1>4, <1>5, <1>6 DEF FifoInv

\* The transmitting thread takes a packet.
LEMMA PopPacketStep == ASSUME FifoInv, PopPacket PROVE FifoInv'
<1>1. direction = "tx" /\ FifoTypeOK /\ RingInv /\ TxInv
  BY DEF FifoInv, PopPacket
<1>2. /\ mElementsFilled > 0 /\ mHead' = (mHead + 1) % BufferSize
      /\ mElementsFilled' = mElementsFilled - 1
      /\ UNCHANGED <<direction, mBuffer, mTail, mFirst, mLast, mOverflow, clock, arrived_samples,
                     popped_samples, wanted, got, stamp, push_at, remaining, burst>>
  BY DEF PopPacket, NextSlot, rxVars, txVars
<1>3. PICK b \in Nat, e \in Nat : b = BufferSize /\ b > 0 /\ e = mElementsFilled /\
             e <= b /\ e > 0
  BY <1>1, <1>2, FifoAssumption DEF FifoTypeOK
<1>4. mHead \in Slot /\ 1 \in Nat /\ e - 1 \in Nat /\ 1 + (e - 1) = e /\
        1 + (e - 1) <= BufferSize
  BY <1>1, <1>3 DEF FifoTypeOK
<1>5. /\ (mHead + 1) % BufferSize \in Slot
      /\ (((mHead + 1) % BufferSize) + (e - 1)) % BufferSize = (mHead + (1 + (e - 1))) % BufferSize
  BY <1>4, WrapsTwice
<1>6. RingInv'
  BY <1>1, <1>2, <1>3, <1>4, <1>5 DEF RingInv
<1>7. FifoTypeOK'
  <2>1. mElementsFilled' \in 0..BufferSize /\ mHead' \in Slot
    BY <1>2, <1>3, <1>5
  <2> QED
    BY <2>1, <1>1, <1>2 DEF FifoTypeOK
<1>8. TxInv' /\ RxInv'
  BY <1>1, <1>2 DEF TxInv, RxInv, TxStamped, FillingFollows
<1> QED
  BY <1>6, <1>7, <1>8 DEF FifoInv

\* The invariant is inductive.
LEMMA FifoStepInv == ASSUME FifoInv, [FifoNext]_fifoVars PROVE FifoInv'
<1>1. ASSUME NEW lost \in {0, 1}, ReceivePacket(lost) PROVE FifoInv'
  BY <1>1, ReceiveStep
<1>2. ASSUME NEW count \in 1..MaxRead, PopSamples(count) PROVE FifoInv'
  <2>1. count \in Nat /\ <<>> \in Seq(Sample) /\ Len(<<>>) < count
    BY FifoAssumption
  <2>2. direction = "rx" /\ Pop(count, <<>>)
    BY <1>2 DEF PopSamples
  <2> QED
    BY <2>1, <2>2, PopStep
<1>3. CASE PopWakes
  <2>1. wanted # 0 /\ Pop(wanted, got)
    BY <1>3 DEF PopWakes
  <2>2. direction = "rx" /\ wanted \in Nat /\ got \in Seq(Sample)
    BY <2>1 DEF FifoInv, FifoTypeOK, TxInv
  <2>3. Len(got) < wanted
    BY <2>1, <2>2 DEF FifoInv, RxInv, PoppedInOrder
  <2> QED
    BY <2>1, <2>2, <2>3, PopStep
<1>4. CASE PushChunk
  BY <1>4, ChunkStep
<1>5. CASE PopPacket
  BY <1>5, PopPacketStep
<1>6. CASE \/ PopTimesOut \/ PushDone \/ PushWaits \/ PushWakes \/ PushTimesOut
           \/ \E count \in 1..MaxRead, ends \in BOOLEAN, skip \in {0, 1} :
                PushSamples(count, ends, skip)
  BY <1>6, QuietStep
<1>7. CASE UNCHANGED fifoVars
  BY <1>7 DEF fifoVars, ringVars, rxVars, txVars, FifoInv, FifoTypeOK, RingInv, RxInv, TxInv,
       PacketsInOrder, PoppedInOrder, LossesCounted, Waiting, Full, Packet, Unread, Increasing,
       Numbers, TxStamped, FillingFollows
<1> QED
  BY <1>1, <1>2, <1>3, <1>4, <1>5, <1>6, <1>7, Zenon DEF FifoNext

\* The invariant holds in every state.
THEOREM FifoInvariance == FifoSpec => []FifoInv
<1> QED
  BY FifoInitInv, FifoStepInv, PTL DEF FifoSpec

\* The ring keeps order and time, for any sizes of ring, packet and call.
THEOREM OrderKept == FifoSpec => []FifoInOrder
<1> QED
  BY FifoInvariance, SamplesInOrder, PTL

-----------------------------------------------------------------------------
\* Where the program's thread is when no call is on its way, and in UpdateThreads.
Settled == {"idle", "setup", "close"}
Updating == {"stop_tx", "join_tx", "stop_rx", "join_rx", "configure", "start_rx", "start_tx"}

\* The places of UpdateThreads that follow the stop of a direction's thread.
PastStop(d) == {"configure", "start_rx", "start_tx"} \cup
                 (IF d = "tx" THEN {"stop_rx", "join_rx"} ELSE {})

\* The program's thread is somewhere, and a stream that is to be closed is inactive.
CallOK ==
  /\ caller \in Settled \cup Updating /\ op.then \in Settled
  /\ used = fifo
  /\ caller = "close" => op.stream \notin mActive
  /\ caller \in Updating /\ op.then = "close" => op.stream \notin mActive

\* A thread that UpdateThreads does not stop, or has started, has an active stream.
ThreadsNeeded ==
  /\ caller \in Updating => need \subseteq Needed(mActive)
  /\ \A d \in Direction : Joinable(d) =>
       /\ caller \in PastStop(d) => d \in need
       /\ caller \in Settled => d \in Needed(mActive)

\* Threads run, or UpdateThreads is about to start one.
Running ==
  \/ \E d \in Direction : Joinable(d)
  \/ caller \in {"start_rx", "start_tx"} /\ need # {}

\* What is configured for the streams as they were set up.
Configured ==
  /\ used # {} => streamSize = Cardinality(ChannelsOf(used))
  /\ Running => fpga = streamSize /\ (\A s \in used : shares[s] = streamSize)
  /\ \A d \in Direction : thread[d] \in {"loop", "check", "use"} => chCount[d] = streamSize

StreamerInv ==
  /\ StreamerTypeOK /\ CallOK /\ ThreadsNeeded
  /\ ~disturbed => Configured
  /\ RingDeletedBesideAnother
-----------------------------------------------------------------------------
\* A channel or two.
LEMMA ChannelCount ==
  ASSUME NEW S \in SUBSET Stream
  PROVE  Cardinality(ChannelsOf(S)) \in 0..2 /\ (S # {} => Cardinality(ChannelsOf(S)) \in 1..2)
<1>1. IsFiniteSet(Channel) /\ Cardinality(Channel) = 2
  <2>1. IsFiniteSet({0, 1}) /\ Cardinality({0, 1}) = 2
    <3>1. Cardinality({0}) = 1 /\ IsFiniteSet({0})
      BY FS_Singleton
    <3> QED
      BY <3>1, FS_AddElement, {0} \cup {1} = {0, 1}
  <2> QED
    BY <2>1, 0..1 = {0, 1} DEF Channel
<1>2. ChannelsOf(S) \subseteq Channel
  BY DEF ChannelsOf, Stream
<1>3. IsFiniteSet(ChannelsOf(S)) /\ Cardinality(ChannelsOf(S)) \in 0..2
  BY <1>1, <1>2, FS_Subset, FS_CardinalityType
<1>4. ASSUME S # {} PROVE Cardinality(ChannelsOf(S)) # 0
  <2>1. ChannelsOf(S) # {}
    BY <1>4 DEF ChannelsOf
  <2> QED
    BY <2>1, <1>3, FS_EmptySet
<1> QED
  BY <1>3, <1>4

\* Nothing is set up, and no thread runs.
LEMMA StreamerInitInv == StreamerInit => StreamerInv
<1> SUFFICES ASSUME StreamerInit PROVE StreamerInv
  OBVIOUS
<1>1. StreamerTypeOK
  BY DEF StreamerInit, StreamerTypeOK, Stream, Direction, Channel
<1>2. CallOK /\ ThreadsNeeded
  BY DEF StreamerInit, CallOK, ThreadsNeeded, Settled, Updating, Joinable
<1>3. Configured /\ RingDeletedBesideAnother
  BY DEF StreamerInit, Configured, Running, RingDeletedBesideAnother, Joinable
<1> QED
  BY <1>1, <1>2, <1>3 DEF StreamerInv

\* The types.
LEMMA TypesStay == ASSUME StreamerInv, [StreamerNext]_streamerVars PROVE StreamerTypeOK'
<1> USE DEF setupVars, loopVars, callVars, Direction, Channel
<1> USE DEF StreamerInv, StreamerTypeOK
<1>1. ASSUME NEW e \in Direction, ThreadBegins(e) PROVE StreamerTypeOK'
  BY <1>1 DEF ThreadBegins, StreamerTypeOK
<1>2. ASSUME NEW e \in Direction, ThreadLoops(e) PROVE StreamerTypeOK'
  BY <1>2 DEF ThreadLoops, StreamerTypeOK
<1>3. ASSUME NEW e \in Direction, ThreadChecks(e) PROVE StreamerTypeOK'
  BY <1>3 DEF ThreadChecks, NextChannel, StreamerTypeOK
<1>4. ASSUME NEW e \in Direction, ThreadUses(e) PROVE StreamerTypeOK'
  BY <1>4 DEF ThreadUses, NextChannel, StreamerTypeOK
<1>5. ASSUME NEW e \in Direction, StopThread(e) PROVE StreamerTypeOK'
  BY <1>5 DEF StopThread, Stopping, StreamerTypeOK
<1>6. ASSUME NEW e \in Direction, JoinThread(e) PROVE StreamerTypeOK'
  BY <1>6 DEF JoinThread, Stopping, StreamerTypeOK
<1>7. ASSUME NEW e \in Direction, StartThread(e) PROVE StreamerTypeOK'
  BY <1>7 DEF StartThread, StreamerTypeOK
<1>8. CASE Configure
  <2>1. Cardinality(ChannelsOf(used)) \in 0..2
    BY ChannelCount
  <2> QED
    BY <1>8, <2>1 DEF Configure, ResizeChannelBuffers
<1>9. CASE SetUp
  <2>1. used' \in SUBSET Stream /\ used' # {}
    BY <1>9 DEF SetUp
  <2>2. Cardinality(ChannelsOf(used')) \in {1, 2}
    BY <2>1, ChannelCount
  <2>3. shares' \in [Stream -> {1, 2}]
    BY <1>9 DEF SetUp
  <2> QED
    BY <1>9, <2>1, <2>2, <2>3 DEF SetUp
<1>10. CASE Closed
  <2>1. used' \subseteq Stream /\ mActive' \subseteq used' /\ fifo' \subseteq Stream /\
       op'.stream \in Stream
    BY <1>10 DEF Closed, CallOK
  <2>2. shares' \in [Stream -> {1, 2}] /\ streamSize' \in {1, 2} /\ fpga' \in 0..2
    BY <1>10 DEF Closed
  <2>3. thread' \in [Direction -> {"none", "begin", "loop", "check", "use", "exited"}]
    BY <1>10 DEF Closed
  <2>4. at' \in [Direction -> Channel] /\ chCount' \in [Direction -> {1, 2}]
    BY <1>10 DEF Closed
  <2>5. terminate' \subseteq Direction /\ need' \subseteq Direction
    BY <1>10 DEF Closed, Needed, Stream
  <2> QED
    BY <2>1, <2>2, <2>3, <2>4, <2>5
<1>11. ASSUME NEW s \in Stream, SetupStream(s) PROVE StreamerTypeOK'
  <2>1. used' \subseteq Stream /\ mActive' \subseteq used' /\ fifo' \subseteq Stream /\
       op'.stream \in Stream
    BY <1>11 DEF SetupStream, StreamCall, UpdateThreads, CallOK
  <2>2. shares' \in [Stream -> {1, 2}] /\ streamSize' \in {1, 2} /\ fpga' \in 0..2
    BY <1>11 DEF SetupStream, StreamCall, UpdateThreads
  <2>3. thread' \in [Direction -> {"none", "begin", "loop", "check", "use", "exited"}]
    BY <1>11 DEF SetupStream, StreamCall, UpdateThreads
  <2>4. at' \in [Direction -> Channel] /\ chCount' \in [Direction -> {1, 2}]
    BY <1>11 DEF SetupStream, StreamCall, UpdateThreads
  <2>5. terminate' \subseteq Direction /\ need' \subseteq Direction
    BY <1>11 DEF SetupStream, StreamCall, UpdateThreads, Needed, Stream
  <2> QED
    BY <2>1, <2>2, <2>3, <2>4, <2>5
<1>12. ASSUME NEW s \in Stream, StartStream(s) PROVE StreamerTypeOK'
  <2>1. used' \subseteq Stream /\ mActive' \subseteq used' /\ fifo' \subseteq Stream /\
       op'.stream \in Stream
    BY <1>12 DEF StartStream, StreamCall, UpdateThreads, CallOK
  <2>2. shares' \in [Stream -> {1, 2}] /\ streamSize' \in {1, 2} /\ fpga' \in 0..2
    BY <1>12 DEF StartStream, StreamCall, UpdateThreads
  <2>3. thread' \in [Direction -> {"none", "begin", "loop", "check", "use", "exited"}]
    BY <1>12 DEF StartStream, StreamCall, UpdateThreads
  <2>4. at' \in [Direction -> Channel] /\ chCount' \in [Direction -> {1, 2}]
    BY <1>12 DEF StartStream, StreamCall, UpdateThreads
  <2>5. terminate' \subseteq Direction /\ need' \subseteq Direction
    BY <1>12 DEF StartStream, StreamCall, UpdateThreads, Needed, Stream
  <2> QED
    BY <2>1, <2>2, <2>3, <2>4, <2>5
<1>13. ASSUME NEW s \in Stream, StopStream(s) PROVE StreamerTypeOK'
  <2>1. used' \subseteq Stream /\ mActive' \subseteq used' /\ fifo' \subseteq Stream /\
       op'.stream \in Stream
    BY <1>13 DEF StopStream, StreamCall, UpdateThreads, CallOK
  <2>2. shares' \in [Stream -> {1, 2}] /\ streamSize' \in {1, 2} /\ fpga' \in 0..2
    BY <1>13 DEF StopStream, StreamCall, UpdateThreads
  <2>3. thread' \in [Direction -> {"none", "begin", "loop", "check", "use", "exited"}]
    BY <1>13 DEF StopStream, StreamCall, UpdateThreads
  <2>4. at' \in [Direction -> Channel] /\ chCount' \in [Direction -> {1, 2}]
    BY <1>13 DEF StopStream, StreamCall, UpdateThreads
  <2>5. terminate' \subseteq Direction /\ need' \subseteq Direction
    BY <1>13 DEF StopStream, StreamCall, UpdateThreads, Needed, Stream
  <2> QED
    BY <2>1, <2>2, <2>3, <2>4, <2>5
<1>14. ASSUME NEW s \in Stream, CloseStream(s) PROVE StreamerTypeOK'
  <2>1. used' \subseteq Stream /\ mActive' \subseteq used' /\ fifo' \subseteq Stream /\
       op'.stream \in Stream
    BY <1>14 DEF CloseStream, StreamCall, UpdateThreads, CallOK
  <2>2. shares' \in [Stream -> {1, 2}] /\ streamSize' \in {1, 2} /\ fpga' \in 0..2
    BY <1>14 DEF CloseStream, StreamCall, UpdateThreads
  <2>3. thread' \in [Direction -> {"none", "begin", "loop", "check", "use", "exited"}]
    BY <1>14 DEF CloseStream, StreamCall, UpdateThreads
  <2>4. at' \in [Direction -> Channel] /\ chCount' \in [Direction -> {1, 2}]
    BY <1>14 DEF CloseStream, StreamCall, UpdateThreads
  <2>5. terminate' \subseteq Direction /\ need' \subseteq Direction
    <3>1. need' = Needed(mActive') \/ need' = need
      BY <1>14 DEF CloseStream, StreamCall, UpdateThreads
    <3>2. Needed(mActive') \subseteq Direction
      BY DEF Needed, Stream
    <3>3. terminate' = terminate
      BY <1>14 DEF CloseStream, StreamCall, UpdateThreads
    <3> QED
      BY <3>1, <3>2, <3>3
  <2> QED
    BY <2>1, <2>2, <2>3, <2>4, <2>5
<1>15. CASE UNCHANGED streamerVars
  BY <1>15 DEF streamerVars, StreamerTypeOK
<1> QED
  BY <1>1, <1>2, <1>3, <1>4, <1>5, <1>6, <1>7, <1>8, <1>9, <1>10, <1>11, <1>12, <1>13,
       <1>14, <1>15 DEF StreamerNext, StreamThreadStep, CallerStep

\* The calls.
LEMMA CallsStay == ASSUME StreamerInv, [StreamerNext]_streamerVars PROVE CallOK'
<1> USE DEF setupVars, loopVars, callVars, Direction, Channel
<1> USE DEF StreamerInv, StreamerTypeOK, CallOK, Settled, Updating
<1>1. ASSUME NEW e \in Direction, ThreadBegins(e) PROVE CallOK'
  BY <1>1 DEF ThreadBegins, CallOK, Settled, Updating
<1>2. ASSUME NEW e \in Direction, ThreadLoops(e) PROVE CallOK'
  BY <1>2 DEF ThreadLoops, CallOK, Settled, Updating
<1>3. ASSUME NEW e \in Direction, ThreadChecks(e) PROVE CallOK'
  BY <1>3 DEF ThreadChecks, NextChannel, CallOK, Settled, Updating
<1>4. ASSUME NEW e \in Direction, ThreadUses(e) PROVE CallOK'
  BY <1>4 DEF ThreadUses, NextChannel, CallOK, Settled, Updating
<1>5. ASSUME NEW e \in Direction, StopThread(e) PROVE CallOK'
  BY <1>5 DEF StopThread, Stopping, CallOK, Settled, Updating
<1>6. ASSUME NEW e \in Direction, JoinThread(e) PROVE CallOK'
  BY <1>6 DEF JoinThread, Stopping, CallOK, Settled, Updating
<1>7. ASSUME NEW e \in Direction, StartThread(e) PROVE CallOK'
  BY <1>7 DEF StartThread, CallOK, Settled, Updating
<1>8. CASE Configure
  BY <1>8 DEF Configure, ResizeChannelBuffers, CallOK, Settled, Updating
<1>9. CASE SetUp
  BY <1>9 DEF SetUp, CallOK, Settled, Updating
<1>10. CASE Closed
  BY <1>10 DEF Closed, CallOK, Settled, Updating
<1>11. ASSUME NEW s \in Stream, SetupStream(s) PROVE CallOK'
  BY <1>11 DEF SetupStream, StreamCall, UpdateThreads, CallOK, Settled, Updating
<1>12. ASSUME NEW s \in Stream, StartStream(s) PROVE CallOK'
  BY <1>12 DEF StartStream, StreamCall, UpdateThreads, CallOK, Settled, Updating
<1>13. ASSUME NEW s \in Stream, StopStream(s) PROVE CallOK'
  BY <1>13 DEF StopStream, StreamCall, UpdateThreads, CallOK, Settled, Updating
<1>14. ASSUME NEW s \in Stream, CloseStream(s) PROVE CallOK'
  BY <1>14 DEF CloseStream, StreamCall, UpdateThreads, CallOK, Settled, Updating
<1>15. CASE UNCHANGED streamerVars
  BY <1>15 DEF streamerVars, CallOK, Settled, Updating
<1> QED
  BY <1>1, <1>2, <1>3, <1>4, <1>5, <1>6, <1>7, <1>8, <1>9, <1>10, <1>11, <1>12, <1>13,
       <1>14, <1>15 DEF StreamerNext, StreamThreadStep, CallerStep

\* UpdateThreads leaves the threads that are needed.
LEMMA NeedsStay == ASSUME StreamerInv, [StreamerNext]_streamerVars PROVE ThreadsNeeded'
<1> USE DEF setupVars, loopVars, callVars, Direction, Channel
<1> USE DEF StreamerInv, StreamerTypeOK, CallOK, ThreadsNeeded, Settled, Updating, PastStop,
     Joinable, Needed
<1>1. ASSUME NEW e \in Direction, ThreadBegins(e) PROVE ThreadsNeeded'
  BY <1>1 DEF ThreadBegins
<1>2. ASSUME NEW e \in Direction, ThreadLoops(e) PROVE ThreadsNeeded'
  BY <1>2 DEF ThreadLoops
<1>3. ASSUME NEW e \in Direction, ThreadChecks(e) PROVE ThreadsNeeded'
  BY <1>3 DEF ThreadChecks, NextChannel
<1>4. ASSUME NEW e \in Direction, ThreadUses(e) PROVE ThreadsNeeded'
  BY <1>4 DEF ThreadUses, NextChannel
<1>5. ASSUME NEW e \in Direction, StopThread(e) PROVE ThreadsNeeded'
  BY <1>5 DEF StopThread, Stopping
<1>6. ASSUME NEW e \in Direction, JoinThread(e) PROVE ThreadsNeeded'
  BY <1>6 DEF JoinThread, Stopping
<1>7. ASSUME NEW e \in Direction, StartThread(e) PROVE ThreadsNeeded'
  BY <1>7 DEF StartThread
<1>8. CASE Configure
  BY <1>8 DEF Configure, ResizeChannelBuffers
<1>9. CASE SetUp
  BY <1>9 DEF SetUp
<1>10. CASE Closed
  BY <1>10 DEF Closed
<1>11. ASSUME NEW s \in Stream, SetupStream(s) PROVE ThreadsNeeded'
  BY <1>11 DEF SetupStream, StreamCall, UpdateThreads
<1>12. ASSUME NEW s \in Stream, StartStream(s) PROVE ThreadsNeeded'
  BY <1>12 DEF StartStream, StreamCall, UpdateThreads
<1>13. ASSUME NEW s \in Stream, StopStream(s) PROVE ThreadsNeeded'
  BY <1>13 DEF StopStream, StreamCall, UpdateThreads
<1>14. ASSUME NEW s \in Stream, CloseStream(s) PROVE ThreadsNeeded'
  BY <1>14 DEF CloseStream, StreamCall, UpdateThreads
<1>15. CASE UNCHANGED streamerVars
  BY <1>15 DEF streamerVars
<1> QED
  BY <1>1, <1>2, <1>3, <1>4, <1>5, <1>6, <1>7, <1>8, <1>9, <1>10, <1>11, <1>12, <1>13,
       <1>14, <1>15 DEF StreamerNext, StreamThreadStep, CallerStep

\* What is configured stays.
LEMMA ConfigurationStays ==
  ASSUME StreamerInv, [StreamerNext]_streamerVars
  PROVE  ~disturbed' => Configured'
<1> USE DEF setupVars, loopVars, callVars, Direction, Channel
<1> USE DEF StreamerInv, StreamerTypeOK, CallOK, ThreadsNeeded, Settled, Updating, PastStop,
     Joinable, Configured, Running
<1>1. ASSUME NEW e \in Direction, ThreadBegins(e) PROVE ~disturbed' => Configured'
  BY <1>1 DEF ThreadBegins
<1>2. ASSUME NEW e \in Direction, ThreadLoops(e) PROVE ~disturbed' => Configured'
  BY <1>2 DEF ThreadLoops
<1>3. ASSUME NEW e \in Direction, ThreadChecks(e) PROVE ~disturbed' => Configured'
  BY <1>3 DEF ThreadChecks, NextChannel
<1>4. ASSUME NEW e \in Direction, ThreadUses(e) PROVE ~disturbed' => Configured'
  BY <1>4 DEF ThreadUses, NextChannel
<1>5. ASSUME NEW e \in Direction, StopThread(e) PROVE ~disturbed' => Configured'
  BY <1>5 DEF StopThread, Stopping
<1>6. ASSUME NEW e \in Direction, JoinThread(e) PROVE ~disturbed' => Configured'
  BY <1>6 DEF JoinThread, Stopping
<1>7. ASSUME NEW e \in Direction, StartThread(e) PROVE ~disturbed' => Configured'
  BY <1>7 DEF StartThread
<1>8. CASE Configure
  <2>1. /\ UNCHANGED <<used, streamSize, disturbed, thread, chCount, need>>
        /\ caller = "configure" /\ caller' = "start_rx"
    BY <1>8 DEF Configure, ResizeChannelBuffers
  <2>2. SUFFICES ASSUME ~disturbed, Configured PROVE Configured'
    BY <2>1
  <2>3. CASE need = {}
    <3>1. \A d \in Direction : thread[d] = "none"
      BY <2>1, <2>3
    <3>2. \A d \in Direction : thread'[d] = "none"
      BY <2>1, <3>1
    <3>3. ~Running'
      BY <2>1, <2>3, <3>2
    <3> QED
      BY <2>1, <2>2, <3>2, <3>3
  <2>4. CASE need # {} /\ \A d \in Direction : ~Joinable(d)
    <3>1. /\ fpga' = Cardinality(ChannelsOf(used))
          /\ shares' = [s \in Stream |-> IF s \in used \cap fifo THEN streamSize ELSE shares[s]]
      BY <1>8, <2>4 DEF Configure, ResizeChannelBuffers
    <3>2. used # {}
      BY <2>1, <2>4 DEF Needed
    <3>3. fpga' = streamSize
      BY <2>2, <3>1, <3>2
    <3>4. \A s \in used : shares'[s] = streamSize
      BY <3>1
    <3> QED
      BY <2>1, <2>2, <3>3, <3>4
  <2>5. CASE need # {} /\ \E d \in Direction : Joinable(d)
    <3>1. UNCHANGED <<fpga, shares>>
      BY <1>8, <2>5 DEF Configure, ResizeChannelBuffers
    <3> QED
      BY <2>1, <2>2, <2>5, <3>1
  <2> QED
    BY <2>3, <2>4, <2>5
<1>9. CASE SetUp
  BY <1>9 DEF SetUp
<1>10. CASE Closed
  BY <1>10 DEF Closed
<1>11. ASSUME NEW s \in Stream, SetupStream(s) PROVE ~disturbed' => Configured'
  BY <1>11 DEF SetupStream, StreamCall, UpdateThreads
<1>12. ASSUME NEW s \in Stream, StartStream(s) PROVE ~disturbed' => Configured'
  BY <1>12 DEF StartStream, StreamCall, UpdateThreads
<1>13. ASSUME NEW s \in Stream, StopStream(s) PROVE ~disturbed' => Configured'
  BY <1>13 DEF StopStream, StreamCall, UpdateThreads
<1>14. ASSUME NEW s \in Stream, CloseStream(s) PROVE ~disturbed' => Configured'
  BY <1>14 DEF CloseStream, StreamCall, UpdateThreads
<1>15. CASE UNCHANGED streamerVars
  BY <1>15 DEF streamerVars
<1> QED
  BY <1>1, <1>2, <1>3, <1>4, <1>5, <1>6, <1>7, <1>8, <1>9, <1>10, <1>11, <1>12, <1>13,
       <1>14, <1>15 DEF StreamerNext, StreamThreadStep, CallerStep

\* A ring is deleted under a thread only beside another stream.
LEMMA RingsStay == ASSUME StreamerInv, StreamerNext PROVE RingDeletedBesideAnother'
<1> USE DEF setupVars, loopVars, callVars, Direction, Channel
<1> ~RingGone
  BY DEF StreamerNext
<1> USE DEF RingGone, StreamerInv, StreamerTypeOK, CallOK, ThreadsNeeded, Settled, Updating,
     Joinable, Needed, RingDeletedBesideAnother, At
<1>1. ASSUME NEW e \in Direction, ThreadBegins(e) PROVE RingDeletedBesideAnother'
  BY <1>1 DEF ThreadBegins
<1>2. ASSUME NEW e \in Direction, ThreadLoops(e) PROVE RingDeletedBesideAnother'
  BY <1>2 DEF ThreadLoops
<1>3. ASSUME NEW e \in Direction, ThreadChecks(e) PROVE RingDeletedBesideAnother'
  BY <1>3 DEF ThreadChecks, NextChannel
<1>4. ASSUME NEW e \in Direction, ThreadUses(e) PROVE RingDeletedBesideAnother'
  BY <1>4 DEF ThreadUses, NextChannel
<1>5. ASSUME NEW e \in Direction, StopThread(e) PROVE RingDeletedBesideAnother'
  BY <1>5 DEF StopThread, Stopping
<1>6. ASSUME NEW e \in Direction, JoinThread(e) PROVE RingDeletedBesideAnother'
  BY <1>6 DEF JoinThread, Stopping
<1>7. ASSUME NEW e \in Direction, StartThread(e) PROVE RingDeletedBesideAnother'
  BY <1>7 DEF StartThread
<1>8. CASE Configure
  BY <1>8 DEF Configure, ResizeChannelBuffers
<1>9. CASE SetUp
  BY <1>9 DEF SetUp
<1>10. CASE Closed
  BY <1>10 DEF Closed
<1>11. ASSUME NEW s \in Stream, SetupStream(s) PROVE RingDeletedBesideAnother'
  BY <1>11 DEF SetupStream, StreamCall, UpdateThreads
<1>12. ASSUME NEW s \in Stream, StartStream(s) PROVE RingDeletedBesideAnother'
  BY <1>12 DEF StartStream, StreamCall, UpdateThreads
<1>13. ASSUME NEW s \in Stream, StopStream(s) PROVE RingDeletedBesideAnother'
  BY <1>13 DEF StopStream, StreamCall, UpdateThreads
<1>14. ASSUME NEW s \in Stream, CloseStream(s) PROVE RingDeletedBesideAnother'
  BY <1>14 DEF CloseStream, StreamCall, UpdateThreads
<1> QED
  BY <1>1, <1>2, <1>3, <1>4, <1>5, <1>6, <1>7, <1>8, <1>9, <1>10, <1>11, <1>12, <1>13, <1>14
       DEF StreamerNext, StreamThreadStep, CallerStep

\* A step of a thread, of UpdateThreads or of a call keeps the invariant.
LEMMA StreamerInvariance == StreamerSpec => []StreamerInv
<1>1. StreamerInv /\ [StreamerNext]_streamerVars => StreamerInv'
  <2> SUFFICES ASSUME StreamerInv, [StreamerNext]_streamerVars PROVE StreamerInv'
    OBVIOUS
  <2>1. StreamerTypeOK' /\ CallOK' /\ ThreadsNeeded' /\ (~disturbed' => Configured')
    BY TypesStay, CallsStay, NeedsStay, ConfigurationStays
  <2>2. CASE StreamerNext
    BY <2>1, <2>2, RingsStay DEF StreamerInv
  <2>3. CASE UNCHANGED streamerVars
    <3>1. RingDeletedBesideAnother'
      BY <2>3 DEF StreamerInv, RingDeletedBesideAnother, At, streamerVars, setupVars, loopVars
    <3> QED
      BY <2>1, <3>1 DEF StreamerInv
  <2> QED
    BY <2>2, <2>3
<1> QED
  BY <1>1, StreamerInitInv, PTL DEF StreamerSpec

\* Every variable has its type: in particular a thread takes a packet to be for one or
\* for two channels, and no ring is cut for none (Streamer::SetupStream computes the
\* size from the streams it has just added to, never from an empty set).
THEOREM StreamerTypeCorrect == StreamerSpec => []StreamerTypeOK
<1>1. StreamerInv => StreamerTypeOK
  BY DEF StreamerInv
<1> QED
  BY <1>1, StreamerInvariance, PTL

\* The threads fit the streams (Streamer::SetupStream, UpdateThreads and the loops): a
\* ring is deleted under a thread that is using it only where another active stream kept
\* the thread, and until a stream is closed or set up beside running threads, a thread
\* takes as many channels to be in a packet as the FPGA puts there and the rings have.
THEOREM RunningThreadsFit == StreamerSpec => []ThreadsFitStreams
<1>1. StreamerInv => ThreadsFitStreams
  <2> SUFFICES ASSUME StreamerInv, ~disturbed PROVE ThreadsMatchFpga
    BY DEF StreamerInv, ThreadsFitStreams
  <2> SUFFICES ASSUME NEW d \in Direction, thread[d] \in {"loop", "check", "use"}
               PROVE  /\ chCount[d] = fpga
                      /\ \A s \in used \cap mActive : s[1] = d => shares[s] = chCount[d]
    BY DEF ThreadsMatchFpga
  <2>1. Running
    BY DEF Running, Joinable
  <2>2. chCount[d] = streamSize /\ fpga = streamSize /\ \A s \in used : shares[s] = streamSize
    BY <2>1 DEF StreamerInv, Configured
  <2> QED
    BY <2>2
<1> QED
  BY <1>1, StreamerInvariance, PTL
=============================================================================
