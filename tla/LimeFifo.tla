------------------------------ MODULE LimeFifo ------------------------------
(***************************************************************************)
(* RingFIFO of LimeSuite (protocols/fifo.h), the ring of packets between   *)
(* the program and the streaming threads: on a receive stream the thread   *)
(* pushes packets and the program pops samples, on a transmit stream the   *)
(* program pushes samples and the thread pops packets. Every action is     *)
(* what an operation does while it holds the lock, and an operation that   *)
(* waits on the condition variable is several. A sample is its number on   *)
(* the clock of the stream, and whether it ends a burst.                   *)
(***************************************************************************)
EXTENDS Naturals, Sequences, SequencesExt

CONSTANTS
  PktSize,      \* mPktSize
  BufferSize,   \* mBufferSize
  MaxRead,      \* the most samples one call of the program pops or pushes
  MaxSamples    \* bound on the clock

ASSUME FifoAssumption ==
  /\ PktSize \in Nat \ {0} /\ BufferSize \in Nat \ {0}
  /\ MaxRead \in Nat \ {0} /\ MaxSamples \in Nat

VARIABLES
  direction,           \* "rx" or "tx"
  mBuffer, mHead, mTail, mFirst, mLast, mElementsFilled, mOverflow,
  clock,               \* the number of the next sample
  arrived_samples,     \* how many were pushed by the receive thread
  popped_samples,      \* how many the program popped
  wanted, got, stamp,  \* pop_samples: samplesCount, buffer and *timestamp
  push_at, remaining, burst   \* push_samples

ringVars == <<mBuffer, mHead, mTail, mFirst, mLast, mElementsFilled, mOverflow>>
rxVars == <<arrived_samples, popped_samples, wanted, got, stamp>>
txVars == <<push_at, remaining, burst>>
fifoVars == <<direction, ringVars, clock, rxVars, txVars>>

Slot == 0..(BufferSize - 1)
NextSlot(i) == (i + 1) % BufferSize
EmptyPacket == [timestamp |-> 0, burst |-> FALSE, samples |-> <<>>]

\* RingFIFO::Clear, after Resize.
FifoInit ==
  /\ direction \in {"rx", "tx"}
  /\ mBuffer = [i \in Slot |-> EmptyPacket]
  /\ mHead = 0 /\ mTail = 0 /\ mFirst = 0 /\ mLast = 0
  /\ mElementsFilled = 0 /\ mOverflow = 0
  /\ clock = 0
  /\ arrived_samples = 0 /\ popped_samples = 0
  /\ wanted = 0 /\ got = <<>> /\ stamp = 0
  /\ push_at = "idle" /\ remaining = 0 /\ burst = FALSE

\* The k-th packet of the ring from its oldest, and the samples a reader has left there:
\* what is received comes in full packets, and the first is read up to mFirst.
Packet(k) == mBuffer[(mHead + k) % BufferSize]
Contents ==
  [k \in 1..(mElementsFilled * PktSize - mFirst) |->
     LET place == mFirst + k - 1
     IN  Packet(place \div PktSize).samples[(place % PktSize) + 1]]

Samples(from, count, ends) ==
  [k \in 1..count |-> [number |-> from + k - 1, end |-> ends /\ k = count]]

-----------------------------------------------------------------------------
\* push_packet: a full ring drops its oldest packet, read from or not.
PushPacket(packet) ==
  LET full == mElementsFilled >= BufferSize
  IN  /\ mHead' = IF full THEN NextSlot(mHead) ELSE mHead
      /\ mFirst' = IF full THEN 0 ELSE mFirst
      /\ mOverflow' = IF full THEN mOverflow + 1 ELSE mOverflow
      /\ mElementsFilled' = IF full THEN mElementsFilled ELSE mElementsFilled + 1
      /\ mBuffer' = [mBuffer EXCEPT ![mTail] = packet]
      /\ mTail' = NextSlot(mTail)
      /\ UNCHANGED mLast

\* ReceivePacketsLoop has a packet; the device lost some before it.
ReceivePacket(lost) ==
  LET counter == clock + lost * PktSize
  IN  /\ direction = "rx" /\ counter + PktSize <= MaxSamples
      /\ PushPacket([timestamp |-> counter, burst |-> FALSE,
                     samples |-> Samples(counter, PktSize, FALSE)])
      /\ clock' = counter + PktSize
      /\ arrived_samples' = arrived_samples + PktSize
      /\ UNCHANGED <<direction, popped_samples, wanted, got, stamp, txVars>>

\* pop_samples until it has count samples or the ring is empty.
Pop(count, before) ==
  LET taken == Min({count - Len(before), Len(Contents)})
      offset == mFirst + taken
  IN  /\ got' = before \o SubSeq(Contents, 1, taken)
      /\ stamp' = IF before = <<>> /\ taken > 0 THEN mBuffer[mHead].timestamp + mFirst ELSE stamp
      /\ mHead' = (mHead + offset \div PktSize) % BufferSize
      /\ mFirst' = offset % PktSize
      /\ mElementsFilled' = mElementsFilled - offset \div PktSize
      /\ wanted' = IF Len(got') = count THEN 0 ELSE count
      /\ popped_samples' = popped_samples + taken
      /\ UNCHANGED <<direction, mBuffer, mTail, mLast, mOverflow, clock, arrived_samples, txVars>>

PopSamples(count) == direction = "rx" /\ wanted = 0 /\ Pop(count, <<>>)
PopWakes == wanted # 0 /\ mElementsFilled > 0 /\ Pop(wanted, got)

\* A wait that timed out returns what there is, without another look at the ring.
PopTimesOut ==
  /\ wanted # 0 /\ wanted' = 0
  /\ UNCHANGED <<direction, ringVars, clock, arrived_samples, popped_samples, got, stamp, txVars>>

-----------------------------------------------------------------------------
\* push_samples. A program skips a stretch of time only when its last packet is full or
\* its burst ended: otherwise its samples restamp those that wait in the packet.
PushSamples(count, ends, skip) ==
  /\ direction = "tx" /\ push_at = "idle"
  /\ skip > 0 => mLast = 0
  /\ clock + skip + count <= MaxSamples
  /\ push_at' = "filling" /\ remaining' = count /\ burst' = ends
  /\ clock' = clock + skip
  /\ UNCHANGED <<direction, ringVars, rxVars>>

\* END_BURST goes with the last chunk only.
ChunkEndsBurstAlways(count) == burst

ChunkEndsBurst(count) == burst /\ count = remaining

\* One pass of the loop: the packet at mTail takes what it has room for.
PushChunk ==
  LET count == Min({remaining, PktSize - mLast})
      ends  == ChunkEndsBurst(count)
      full  == mLast + count = PktSize \/ ends
  IN  /\ push_at = "filling" /\ remaining > 0 /\ mElementsFilled < BufferSize
      /\ mBuffer' = [mBuffer EXCEPT ![mTail] =
                       [timestamp |-> clock - mLast, burst |-> ends,
                        samples |-> SubSeq(@.samples, 1, mLast)
                                      \o Samples(clock, count, burst /\ count = remaining)]]
      /\ mTail' = IF full THEN NextSlot(mTail) ELSE mTail
      /\ mElementsFilled' = IF full THEN mElementsFilled + 1 ELSE mElementsFilled
      /\ mLast' = IF full THEN 0 ELSE mLast + count
      /\ clock' = clock + count /\ remaining' = remaining - count
      /\ UNCHANGED <<direction, mHead, mFirst, mOverflow, rxVars, push_at, burst>>

PushDone ==
  /\ push_at = "filling" /\ remaining = 0
  /\ push_at' = "idle" /\ burst' = FALSE
  /\ UNCHANGED <<direction, ringVars, clock, rxVars, remaining>>

PushWaits ==
  /\ push_at = "filling" /\ remaining > 0 /\ mElementsFilled >= BufferSize
  /\ push_at' = "waiting"
  /\ UNCHANGED <<direction, ringVars, clock, rxVars, remaining, burst>>

PushWakes ==
  /\ push_at = "waiting" /\ push_at' = "filling"
  /\ UNCHANGED <<direction, ringVars, clock, rxVars, remaining, burst>>

\* The time is up: the program has to push the rest again.
PushTimesOut ==
  /\ push_at = "filling" /\ remaining > 0 /\ mElementsFilled >= BufferSize
  /\ push_at' = "idle" /\ remaining' = 0 /\ burst' = FALSE
  /\ UNCHANGED <<direction, ringVars, clock, rxVars>>

\* pop_packet, in TransmitPacketsLoop.
PopPacket ==
  /\ direction = "tx" /\ push_at # "filling" /\ mElementsFilled > 0
  /\ mHead' = NextSlot(mHead) /\ mElementsFilled' = mElementsFilled - 1
  /\ UNCHANGED <<direction, mBuffer, mTail, mFirst, mLast, mOverflow, clock, rxVars, txVars>>

FifoNext ==
  \/ \E lost \in {0, 1} : ReceivePacket(lost)
  \/ \E count \in 1..MaxRead : PopSamples(count)
  \/ PopWakes \/ PopTimesOut
  \/ \E count \in 1..MaxRead, ends \in BOOLEAN, skip \in {0, 1} : PushSamples(count, ends, skip)
  \/ PushChunk \/ PushDone \/ PushWaits \/ PushWakes \/ PushTimesOut
  \/ PopPacket

FifoSpec == FifoInit /\ [][FifoNext]_fifoVars

FifoOver == clock = MaxSamples /\ push_at = "idle" /\ mElementsFilled = 0

Sample == [number : Nat, end : BOOLEAN]

FifoTypeOK ==
  /\ mBuffer \in [Slot -> [timestamp : Nat, burst : BOOLEAN, samples : Seq(Sample)]]
  /\ mOverflow \in Nat /\ clock \in Nat /\ arrived_samples \in Nat /\ popped_samples \in Nat
  /\ wanted \in Nat /\ got \in Seq(Sample) /\ stamp \in Nat
  /\ remaining \in Nat /\ burst \in BOOLEAN
  /\ direction \in {"rx", "tx"}
  /\ mHead \in Slot /\ mTail \in Slot
  /\ mElementsFilled \in 0..BufferSize
  /\ mFirst \in 0..(PktSize - 1) /\ mLast \in 0..(PktSize - 1)
  /\ push_at \in {"idle", "filling", "waiting"}

-----------------------------------------------------------------------------
Numbers(samples) == [k \in DOMAIN samples |-> samples[k].number]
Increasing(numbers) == \A i, j \in DOMAIN numbers : i < j => numbers[i] < numbers[j]

\* What the program pops is stamped with the time of its first sample, in order, and
\* followed by what is in the ring; samples are missing only for packets that
\* mOverflow counts.
RxInOrder ==
  LET missing == arrived_samples - popped_samples - Len(Contents)
  IN  /\ got # <<>> => got[1].number = stamp
      /\ Increasing(Numbers(got \o Contents))
      /\ missing <= PktSize * mOverflow /\ mOverflow <= missing

\* Each sample is sent at its time, in a packet that is stamped with the time of its
\* first, and a burst ends with its packet.
TxStamped ==
  \A i \in DOMAIN mBuffer : LET p == mBuffer[i] IN
    \A k \in DOMAIN p.samples :
      /\ p.samples[k].number = p.timestamp + k - 1
      /\ p.samples[k].end <=> p.burst /\ k = Len(p.samples)

\* The ring keeps the samples of both directions in order and in time, whatever
\* overflows, times out or is read and written in pieces.
FifoInOrder ==
  /\ mTail = (mHead + mElementsFilled) % BufferSize
  /\ direction = "rx" => RxInOrder
  /\ direction = "tx" => TxStamped
=============================================================================
