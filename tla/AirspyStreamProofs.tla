------------------------- MODULE AirspyStreamProofs -------------------------
(***************************************************************************)
(* Proofs about AirspyStream, AirspyHfStream and HydrasdrStream, for any   *)
(* number of transfers and any size of the ring.                           *)
(*                                                                         *)
(* The three drivers share most of their actions, and one inductive        *)
(* invariant holds of all of them: Step lists what any driver can do, and  *)
(* says of an action which drivers take it only where the proofs need to   *)
(* know.                                                                   *)
(***************************************************************************)
EXTENDS MCAirspyStream, FiniteSetTheorems, TLAPS

\* The places at which the program's thread may be the one that handles events.
MainHandles == Control \cup {"last_events", "draining", "stop_first"}

\* The thread handling events, and what it needs to be: a callback runs in it.
HandlerRuns ==
  /\ handler = "io" <=> pc["io"] = "events"
  /\ handler = "main" => pc["main"] \in MainHandles
  /\ pc["main"] = "draining" => handler = "main" /\ next <= TransferCount
  /\ driver = "airspyhf" /\ pc["main"] = "last_events" => handler # "main"
  /\ callback # "none" => handler # NoOne

\* A running thread was created and not joined.  A stream begins without threads, and
\* airspy_stop_rx leaves none.
ThreadsCreated ==
  /\ \A th \in {"io", "consumer"} : pc[th] # "exited" => th \in created
  /\ pc["main"] \in {"prepare", "create_consumer", "last_events", "stopped"} => created = {}
  /\ pc["main"] \in {"create_io", "join_consumer"} => "io" \notin created
  /\ driver = "airspy" =>
       /\ ~streaming => created = {}
       /\ pc["main"] \in {"prepare", "create_consumer", "create_io"} => streaming

\* Between streams no callback is past its test.
CallbackStays ==
  ~streaming /\ created = {} => callback \notin {"queue", "submit", "count"}

ThreadInv == HandlerRuns /\ ThreadsCreated /\ CallbackStays

\* Every buffer is in one place: a transfer's or a slot's.
EachBufferOnce ==
  /\ \A t, u \in Transfer : buffer[t] = buffer[u] => t = u
  /\ \A r, s \in Slot : queue[r] = queue[s] => r = s
  /\ \A t \in Transfer, s \in Slot : buffer[t] # queue[s]

\* The blocks that wait in the ring, without the one being used.
Waiting == received_buffer_count - (IF using = 0 THEN 0 ELSE 1)

\* The slot i places after the oldest waiting block.
At(i) == (tail + i) % BufferCount

RingHolds == Waiting >= 0 /\ head = At(Waiting)

\* The buffer in the consumer's hands is that of the slot before the oldest block.
UsingBeforeTail ==
  /\ using # 0 <=> pc["consumer"] \in {"using", "used"}
  /\ using # 0 => \E s \in Slot : using = queue[s] /\ tail = (s + 1) % BufferCount

RingInv == EachBufferOnce /\ RingHolds /\ UsingBeforeTail

\* The block before the i-th waiting one: the last one taken, or the one queued last.
Before(i) ==
  IF i = 0 THEN (IF using = 0 THEN consumed ELSE block[using]) ELSE block[queue[At(i - 1)]]

\* The losses queued with a block are those since the block before it, and those not
\* queued yet are the ones since the last block.
LossesQueued ==
  /\ \A i \in 0..(Waiting - 1) : block[queue[At(i)]] = Before(i) + dropped_queue[At(i)] + 1
  /\ produced = Before(Waiting) + dropped_buffers

\* A consumer has an account to rely on while its stream lasts.
Accounts == streaming /\ ("consumer" \in created \/ pc["main"] = "create_consumer")

AccountKept ==
  /\ Accounts /\ ~forgotten => LossesQueued
  /\ pc["consumer"] = "used" => consumed = block[using]

AccountInv == AccountKept /\ LossesReported

\* The transfers libusb has, and what the callback at work has not counted yet.
Active == {t \in Transfer : active[t]}

InCallback(place) == CASE place = "check" -> 1 [] place = "count" -> -1 [] OTHER -> 0

IInv == TypeOK /\ active \in [Transfer -> BOOLEAN] /\ ThreadInv /\ RingInv /\ AccountInv

\* What libairspy does, most of which the others do as well.
SharedStep ==
  \/ CallbackCheck \/ CallbackQueue \/ CallbackSubmit
  \/ (\E t \in Transfer : HandleEvent(t)) \/ IoLoop \/ IoEventsDone \/ ConsumerLock
  \/ ConsumerExits \/ ConsumerEmpty \/ ConsumerSleeps \/ ConsumerWakes \/ ConsumerTakes
  \/ ConsumerUses \/ ControlDone
  \/ (MainHandlesEvents /\ (driver = "airspyhf" => pc["main"] # "last_events")) \/ StartRx
  \/ CreateBusy \/ (CreateBegins /\ created = {}) \/ PrepareTransfer \/ PrepareFails
  \/ ResetRing \/ CreateConsumer \/ CreateIo \/ CreateThreadFails \/ StopRx
  \/ CancelTransfer \/ SignalConsumer \/ JoinIo \/ JoinConsumer \/ LastEventsDone
  \/ Stopped
  \/ (\E t \in Transfer, outcome \in {"COMPLETED", "ERROR"} : KernelCompletes(t, outcome))
  \/ UNCHANGED vars

\* What only libairspyhf does.
HfOwnStep ==
  \/ HfCallbackSubmit \/ HfCallbackCount \/ HfIoEventsDone \/ HfCreateOverOldThreads
  \/ HfCancelled \/ HfDrain \/ HfDrained \/ HfSignalConsumer \/ HfJoined

\* What only libhydrasdr does.
HydraOwnStep ==
  \/ HydraCallbackCheck \/ HydraCallbackSubmit \/ HydraIoLoop \/ HydraIoEventsDone
  \/ HydraConsumerExits \/ HydraConsumerUses \/ HydraCreateOverOldThreads \/ HydraStop
  \/ HydraStopControlDone \/ HydraClearRequest \/ HydraClearStreaming
  \/ HydraLastEventsDone \/ HydraMainHandlesEvents

Step ==
  /\ driver' = driver
  /\ \/ SharedStep
     \/ driver = "airspyhf" /\ HfOwnStep
     \/ driver = "hydrasdr" /\ HydraOwnStep
-----------------------------------------------------------------------------
(* The steps, and the ring's arithmetic *)

\* A step of any driver is one of these.
LEMMA DriverSteps == ASSUME IInv, MCNext PROVE Step
<1>1. CASE Airspy(Next)
  <2>1. CreateBegins => created = {}
    BY <1>1 DEF Airspy, CreateBegins, IInv, ThreadInv, ThreadsCreated
  <2> QED
    BY <1>1, <2>1 DEF Airspy, Next, EventStep, CallbackStep, IoStep, ConsumerStep, MainStep,
         Step,
       SharedStep
<1>2. CASE AirspyHf(HfNext)
  BY <1>2 DEF AirspyHf, HfNext, HfEventStep, HfIoStep, HfConsumerStep, HfMainStep,
       HfCallbackCheck,
     HfCallbackQueue, HfIoLoop, ConsumerStep, HfControlDone, HfPrepareTransfer, HfPrepareFails,
     HfCreate, HfCancelTransfer, HfJoin, HfStopped, HfMainHandlesEvents, HfStart, HfStop, hfVars,
     Step, SharedStep, HfOwnStep
<1>3. CASE Hydrasdr(HydraNext)
  BY <1>3 DEF Hydrasdr, HydraNext, HydraEventStep, HydraIoStep, HydraConsumerStep,
       HydraMainStep,
     HydraCallbackQueue, HydraConsumerWaits, HydraConsumerTakes, HydraControlDone, HydraPrepare,
     HydraCreate, HydraCancelTransfer, HydraJoin, HydraStart, Step, SharedStep, HydraOwnStep
<1> QED
  BY <1>1, <1>2, <1>3 DEF MCNext

\* Going round the ring, without the remainder.
LEMMA Wraps ==
  ASSUME NEW x \in Slot, NEW k \in 0..BufferCount
  PROVE  /\ (x + k) % BufferCount = IF x + k < BufferCount THEN x + k ELSE x + k - BufferCount
         /\ (x + k) % BufferCount \in Slot
<1> USE CountAssumption DEF Slot
<1>1. CASE x + k < BufferCount
  <2>1. (x + k) % BufferCount = x + k
    BY <1>1
  <2> QED
    BY <1>1, <2>1
<1>2. CASE ~(x + k < BufferCount)
  <2>1. PICK y \in Nat : y = x + k - BufferCount /\ y < BufferCount
    BY <1>2
  <2>2. (1 * BufferCount + y) % BufferCount = y
    BY <2>1
  <2>3. (x + k) % BufferCount = x + k - BufferCount
    BY <2>1, <2>2
  <2> QED
    BY <2>1, <2>3, <1>2
<1> HIDE DEF Slot
<1> QED
  BY <1>1, <1>2

\* The next slot.
LEMMA NextSlot ==
  ASSUME NEW x \in Slot
  PROVE  /\ (x + 1) % BufferCount = IF x + 1 = BufferCount THEN 0 ELSE x + 1
         /\ (x + 1) % BufferCount \in Slot
<1>1. 1 \in 0..BufferCount
  BY CountAssumption
<1>2. /\ (x + 1) % BufferCount = IF x + 1 < BufferCount THEN x + 1 ELSE x + 1 - BufferCount
      /\ (x + 1) % BufferCount \in Slot
  BY <1>1, Wraps
<1> QED
  BY <1>2, CountAssumption DEF Slot

\* The slot i places on.
LEMMA AtIs ==
  ASSUME tail \in Slot, NEW i \in 0..BufferCount
  PROVE  At(i) = (IF tail + i < BufferCount THEN tail + i ELSE tail + i - BufferCount) /\ At(i) \in Slot
  BY Wraps DEF At

\* The end of the ring stays where it is when the block before it is taken.
LEMMA TakesOne ==
  ASSUME NEW x \in Slot, NEW k \in 1..BufferCount
  PROVE  (((x + 1) % BufferCount) + (k - 1)) % BufferCount = (x + k) % BufferCount
<1>1. (x + 1) % BufferCount = (IF x + 1 = BufferCount THEN 0 ELSE x + 1) /\ (x + 1) % BufferCount \in Slot
  BY NextSlot
<1>2. PICK y \in Slot : y = (x + 1) % BufferCount
  BY <1>1
<1>3. k - 1 \in 0..BufferCount /\ k \in 0..BufferCount
  BY CountAssumption
<1>4. (x + k) % BufferCount = IF x + k < BufferCount THEN x + k ELSE x + k - BufferCount
  BY <1>3, Wraps
<1>5. (y + (k - 1)) % BufferCount
        = IF y + (k - 1) < BufferCount THEN y + (k - 1) ELSE y + (k - 1) - BufferCount
  BY <1>3, Wraps
<1>6. PICK a \in Int, b \in Int : a = (x + k) % BufferCount /\ b = (y + (k - 1)) % BufferCount
  BY <1>3, <1>4, <1>5, CountAssumption DEF Slot
<1>7. a = b
  <2>1. y = IF x + 1 = BufferCount THEN 0 ELSE x + 1
    BY <1>1, <1>2
  <2>2. /\ a = IF x + k < BufferCount THEN x + k ELSE x + k - BufferCount
        /\ b = IF y + (k - 1) < BufferCount THEN y + (k - 1) ELSE y + (k - 1) - BufferCount
    BY <1>4, <1>5, <1>6
  <2> QED
    BY <2>1, <2>2, <1>3, CountAssumption DEF Slot
<1> QED
  BY <1>2, <1>6, <1>7

-----------------------------------------------------------------------------
(* The parts of the invariant *)

\* Every step keeps the types.
LEMMA TypeStep == ASSUME IInv, Step PROVE TypeOK' /\ active' \in [Transfer -> BOOLEAN]
<1> USE DEF Goto, flagVars, ringVars, lockVars, usbVars, callbackVars, threadVars,
     historyVars, restVars
<1> USE CountAssumption DEF IInv, TypeOK, Thread, Label
<1>r. /\ pc["consumer"] = "used" => received_buffer_count > 0
      /\ pc["consumer"] = "using" => using \in Buffer
      /\ pc["main"] = "draining" => next <= TransferCount
  BY DEF ThreadInv, HandlerRuns, RingInv, RingHolds, UsingBeforeTail, Waiting
<1>1. CASE SharedStep
  <2>1. CASE CallbackCheck
    BY <2>1 DEF CallbackCheck, Usb!Call
  <2>2. CASE CallbackQueue
    <3>3. head' \in Slot /\ tail' \in Slot
      BY <2>2, NextSlot DEF CallbackQueue, RingHasRoom, SignalBlock
    <3>4. received_buffer_count' \in 0..BufferCount
      BY <2>2 DEF CallbackQueue, RingHasRoom, SignalBlock
    <3>5. queue' \in [Slot -> Buffer] /\ buffer' \in [Transfer -> Buffer]
      BY <2>2 DEF CallbackQueue, RingHasRoom, SignalBlock
    <3>6. dropped_queue' \in [Slot -> Nat] /\ dropped_buffers' \in Nat
      BY <2>2 DEF CallbackQueue, RingHasRoom, SignalBlock
    <3>12. block' \in [Buffer -> Nat]
      BY <2>2 DEF CallbackQueue, RingHasRoom, SignalBlock
    <3>13. produced' \in Nat /\ consumed' \in Nat /\ reported' \in Nat /\ forgotten' \in BOOLEAN
      BY <2>2 DEF CallbackQueue, RingHasRoom, SignalBlock
    <3> QED
      BY <2>2, <3>3, <3>4, <3>5, <3>6, <3>12, <3>13 DEF CallbackQueue, RingHasRoom, SignalBlock
  <2>3. CASE CallbackSubmit
    BY <2>3 DEF CallbackSubmit, Submit, SubmitFails, Usb!Accept
  <2>4. CASE \E t \in Transfer : HandleEvent(t)
    BY <2>4 DEF HandleEvent, Usb!Retire
  <2>5. CASE IoLoop
    BY <2>5 DEF IoLoop
  <2>6. CASE IoEventsDone
    BY <2>6 DEF IoEventsDone
  <2>7. CASE ConsumerLock
    <3>4. received_buffer_count' \in 0..BufferCount
      BY <2>7, <1>r DEF ConsumerLock
    <3>11. using' \in Buffer \cup {0}
      BY <2>7 DEF ConsumerLock
    <3> QED
      BY <2>7, <3>4, <3>11 DEF ConsumerLock
  <2>8. CASE ConsumerExits
    BY <2>8 DEF ConsumerExits
  <2>9. CASE ConsumerEmpty
    BY <2>9 DEF ConsumerEmpty
  <2>10. CASE ConsumerSleeps
    BY <2>10 DEF ConsumerSleeps
  <2>11. CASE ConsumerWakes
    BY <2>11 DEF ConsumerWakes
  <2>12. CASE ConsumerTakes
    <3>3. head' \in Slot /\ tail' \in Slot
      BY <2>12, NextSlot DEF ConsumerTakes, LossesBefore
    <3>11. using' \in Buffer \cup {0}
      BY <2>12 DEF ConsumerTakes, LossesBefore
    <3> QED
      BY <2>12, <3>3, <3>11 DEF ConsumerTakes, LossesBefore
  <2>13. CASE ConsumerUses
    <3>13. produced' \in Nat /\ consumed' \in Nat /\ reported' \in Nat /\ forgotten' \in BOOLEAN
      BY <2>13, <1>r DEF ConsumerUses
    <3> QED
      BY <2>13, <3>13 DEF ConsumerUses
  <2>14. CASE ControlDone
    BY <2>14 DEF ControlDone, Control
  <2>15. CASE MainHandlesEvents /\ (driver = "airspyhf" => pc["main"] # "last_events")
    BY <2>15 DEF MainHandlesEvents, Control
  <2>16. CASE StartRx
    <3>6. dropped_queue' \in [Slot -> Nat] /\ dropped_buffers' \in Nat
      BY <2>16 DEF StartRx
    <3>14. calls' \in 0..MaxCalls
      BY <2>16, BoundAssumption DEF StartRx
    <3> QED
      BY <2>16, <3>6, <3>14 DEF StartRx
  <2>17. CASE CreateBusy
    BY <2>17 DEF CreateBusy
  <2>18. CASE CreateBegins /\ created = {}
    BY <2>18 DEF CreateBegins
  <2>19. CASE PrepareTransfer
    <3>10. next' \in 1..(TransferCount + 1)
      BY <2>19 DEF Transfer, PrepareTransfer, Submit, Usb!Accept
    <3>7. done' \in [Transfer -> Usb!Outcome \cup {"none"}] /\ active' \in [Transfer -> BOOLEAN]
      BY <2>19 DEF PrepareTransfer, Submit, Usb!Accept
    <3> QED
      BY <2>19, <3>10, <3>7 DEF PrepareTransfer, Submit, Usb!Accept
  <2>20. CASE PrepareFails
    BY <2>20 DEF PrepareFails, SubmitFails
  <2>21. CASE ResetRing
    <3>3. head' \in Slot /\ tail' \in Slot
      BY <2>21 DEF Slot, ResetRing
    <3>13. produced' \in Nat /\ consumed' \in Nat /\ reported' \in Nat /\ forgotten' \in BOOLEAN
      BY <2>21 DEF StaleLosses, ResetRing
    <3> QED
      BY <2>21, <3>3, <3>13 DEF ResetRing
  <2>22. CASE CreateConsumer
    BY <2>22 DEF CreateConsumer
  <2>23. CASE CreateIo
    BY <2>23 DEF CreateIo
  <2>24. CASE CreateThreadFails
    BY <2>24 DEF CreateThreadFails
  <2>25. CASE StopRx
    <3>14. calls' \in 0..MaxCalls
      BY <2>25, BoundAssumption DEF StopRx
    <3>10. next' \in 1..(TransferCount + 1)
      BY <2>25 DEF StopRx
    <3>9. pc' \in [Thread -> Label]
      BY <2>25 DEF StopRx
    <3>1. streaming' \in BOOLEAN /\ stop_requested' \in BOOLEAN /\ created' \subseteq {"io",
         "consumer"}
      BY <2>25 DEF StopRx
    <3> QED
      BY <2>25, <3>14, <3>10, <3>9, <3>1 DEF StopRx
  <2>26. CASE CancelTransfer
    <3>7. done' \in [Transfer -> Usb!Outcome \cup {"none"}] /\ active' \in [Transfer -> BOOLEAN]
      BY <2>26 DEF Usb!Outcome, CancelTransfer, Cancel, Usb!Want
    <3>10. next' \in 1..(TransferCount + 1)
      BY <2>26 DEF CancelTransfer, Cancel, Usb!Want
    <3> QED
      BY <2>26, <3>7, <3>10 DEF CancelTransfer, Cancel, Usb!Want
  <2>27. CASE SignalConsumer
    BY <2>27 DEF SignalConsumer
  <2>28. CASE JoinIo
    BY <2>28 DEF JoinIo
  <2>29. CASE JoinConsumer
    BY <2>29 DEF JoinConsumer
  <2>30. CASE LastEventsDone
    BY <2>30 DEF LastEventsDone
  <2>31. CASE Stopped
    BY <2>31 DEF Stopped
  <2>32. CASE \E t \in Transfer, outcome \in {"COMPLETED", "ERROR"} : KernelCompletes(t,
       outcome)
    <3>7. done' \in [Transfer -> Usb!Outcome \cup {"none"}] /\ active' \in [Transfer -> BOOLEAN]
      BY <2>32 DEF Usb!Outcome, KernelCompletes
    <3> QED
      BY <2>32, <3>7 DEF KernelCompletes
  <2>33. CASE UNCHANGED vars
    BY <2>33 DEF vars
  <2> QED
    BY <1>1, <2>1, <2>2, <2>3, <2>4, <2>5, <2>6, <2>7, <2>8, <2>9, <2>10, <2>11, <2>12,
         <2>13, <2>14, <2>15, <2>16, <2>17, <2>18, <2>19, <2>20, <2>21, <2>22, <2>23, <2>24,
         <2>25, <2>26, <2>27, <2>28, <2>29, <2>30, <2>31, <2>32, <2>33 DEF SharedStep
<1>2. CASE driver = "airspyhf" /\ HfOwnStep
  <2>1. CASE HfCallbackSubmit
    BY <2>1, <1>2 DEF HfCallbackSubmit, Submit, SubmitFails, Usb!Accept
  <2>2. CASE HfCallbackCount
    BY <2>2, <1>2 DEF HfCallbackCount, Counted
  <2>3. CASE HfIoEventsDone
    BY <2>3, <1>2 DEF HfIoEventsDone
  <2>4. CASE HfCreateOverOldThreads
    BY <2>4, <1>2 DEF HfCreateOverOldThreads
  <2>5. CASE HfCancelled
    BY <2>5, <1>2 DEF HfCancelled
  <2>6. CASE HfDrain
    BY <2>6, <1>2 DEF HfDrain, Draining
  <2>7. CASE HfDrained
    <3>10. next' \in 1..(TransferCount + 1)
      BY <2>7, <1>2, <1>r DEF HfDrained
    <3> QED
      BY <2>7, <1>2, <3>10 DEF HfDrained
  <2>8. CASE HfSignalConsumer
    BY <2>8, <1>2 DEF HfSignalConsumer, Draining
  <2>9. CASE HfJoined
    BY <2>9, <1>2 DEF HfJoined
  <2> QED
    BY <1>2, <2>1, <2>2, <2>3, <2>4, <2>5, <2>6, <2>7, <2>8, <2>9 DEF HfOwnStep
<1>3. CASE driver = "hydrasdr" /\ HydraOwnStep
  <2>1. CASE HydraCallbackCheck
    BY <2>1, <1>3 DEF HydraCallbackCheck, Usb!Call
  <2>2. CASE HydraCallbackSubmit
    BY <2>2, <1>3 DEF HydraCallbackSubmit, Submit, SubmitFails, Usb!Accept
  <2>3. CASE HydraIoLoop
    <3>1. streaming' \in BOOLEAN /\ stop_requested' \in BOOLEAN /\ created' \subseteq {"io",
         "consumer"}
      BY <2>3, <1>3 DEF HydraIoLoop
    <3>9. pc' \in [Thread -> Label]
      BY <2>3, <1>3 DEF HydraIoLoop
    <3> QED
      BY <2>3, <1>3, <3>1, <3>9 DEF HydraIoLoop
  <2>4. CASE HydraIoEventsDone
    BY <2>4, <1>3 DEF HydraIoEventsDone
  <2>5. CASE HydraConsumerExits
    BY <2>5, <1>3 DEF HydraConsumerExits
  <2>6. CASE HydraConsumerUses
    <3>13. produced' \in Nat /\ consumed' \in Nat /\ reported' \in Nat /\ forgotten' \in BOOLEAN
      BY <2>6, <1>3, <1>r DEF HydraConsumerUses
    <3> QED
      BY <2>6, <1>3, <3>13 DEF HydraConsumerUses
  <2>7. CASE HydraCreateOverOldThreads
    BY <2>7, <1>3 DEF HydraCreateOverOldThreads
  <2>8. CASE HydraStop
    <3>14. calls' \in 0..MaxCalls
      BY <2>8, <1>3, BoundAssumption DEF HydraStop
    <3> QED
      BY <2>8, <1>3, <3>14 DEF HydraStop
  <2>9. CASE HydraStopControlDone
    BY <2>9, <1>3 DEF HydraStopControlDone
  <2>10. CASE HydraClearRequest
    BY <2>10, <1>3 DEF HydraClearRequest
  <2>11. CASE HydraClearStreaming
    <3>10. next' \in 1..(TransferCount + 1)
      BY <2>11, <1>3 DEF HydraClearStreaming
    <3>9. pc' \in [Thread -> Label]
      BY <2>11, <1>3 DEF HydraClearStreaming
    <3> QED
      BY <2>11, <1>3, <3>10, <3>9 DEF HydraClearStreaming
  <2>12. CASE HydraLastEventsDone
    BY <2>12, <1>3 DEF HydraLastEventsDone
  <2>13. CASE HydraMainHandlesEvents
    BY <2>13, <1>3 DEF HydraMainHandlesEvents, Control
  <2> QED
    BY <1>3, <2>1, <2>2, <2>3, <2>4, <2>5, <2>6, <2>7, <2>8, <2>9, <2>10, <2>11, <2>12,
         <2>13 DEF HydraOwnStep
<1> QED
  BY <1>1, <1>2, <1>3 DEF Step

\* Threads are started, end and are joined as ThreadInv says.
LEMMA ThreadsStep == ASSUME IInv, Step PROVE ThreadInv'
<1> USE DEF Goto, flagVars, ringVars, lockVars, usbVars, callbackVars, threadVars,
     historyVars, restVars, Thread, NoOne, MainHandles, Control
<1> /\ pc \in [Thread -> Label] /\ handler \in {"main", "io", NoOne}
    /\ created \subseteq {"io", "consumer"}
    /\ streaming \in BOOLEAN
    /\ next \in 1..(TransferCount + 1)
  BY DEF IInv, TypeOK
<1> TransferCount \in Nat \ {0}
  BY CountAssumption
<1> HandlerRuns /\ ThreadsCreated /\ CallbackStays /\ driver' = driver
  BY DEF IInv, ThreadInv, Step
<1>1. CASE SharedStep
  <2>1. CASE CallbackCheck
    <3>1. HandlerRuns'
      BY <2>1 DEF CallbackCheck, Usb!Call, HandlerRuns, ThreadsCreated
    <3>2. ThreadsCreated'
      BY <2>1 DEF CallbackCheck, Usb!Call, ThreadsCreated
    <3>3. CallbackStays'
      BY <2>1 DEF CallbackCheck, Usb!Call, HandlerRuns, ThreadsCreated, CallbackStays
    <3> QED
      BY <3>1, <3>2, <3>3 DEF ThreadInv
  <2>2. CASE CallbackQueue
    <3>1. HandlerRuns'
      BY <2>2 DEF CallbackQueue, RingHasRoom, SignalBlock, HandlerRuns, ThreadsCreated
    <3>2. ThreadsCreated'
      BY <2>2 DEF CallbackQueue, RingHasRoom, SignalBlock, ThreadsCreated
    <3>3. CallbackStays'
      BY <2>2 DEF CallbackQueue, RingHasRoom, SignalBlock, HandlerRuns, ThreadsCreated,
           CallbackStays
    <3> QED
      BY <3>1, <3>2, <3>3 DEF ThreadInv
  <2>3. CASE CallbackSubmit
    <3>1. HandlerRuns'
      BY <2>3 DEF CallbackSubmit, Submit, SubmitFails, Usb!Accept, HandlerRuns,
           ThreadsCreated
    <3>2. ThreadsCreated'
      BY <2>3 DEF CallbackSubmit, Submit, SubmitFails, Usb!Accept, ThreadsCreated
    <3>3. CallbackStays'
      BY <2>3 DEF CallbackSubmit, Submit, SubmitFails, Usb!Accept, HandlerRuns,
           ThreadsCreated, CallbackStays
    <3> QED
      BY <3>1, <3>2, <3>3 DEF ThreadInv
  <2>4. CASE \E t \in Transfer : HandleEvent(t)
    <3>1. HandlerRuns'
      BY <2>4 DEF HandleEvent, Usb!Retire, HandlerRuns, ThreadsCreated
    <3>2. ThreadsCreated'
      <4>1. UNCHANGED <<pc, created, streaming>>
        BY <2>4 DEF HandleEvent, Usb!Retire
      <4> QED
        BY <4>1 DEF ThreadsCreated
    <3>3. CallbackStays'
      BY <2>4 DEF HandleEvent, Usb!Retire, HandlerRuns, ThreadsCreated, CallbackStays
    <3> QED
      BY <3>1, <3>2, <3>3 DEF ThreadInv
  <2>5. CASE IoLoop
    <3>1. HandlerRuns'
      BY <2>5 DEF IoLoop, HandlerRuns, ThreadsCreated
    <3>2. ThreadsCreated'
      BY <2>5 DEF IoLoop, ThreadsCreated
    <3>3. CallbackStays'
      BY <2>5 DEF IoLoop, HandlerRuns, ThreadsCreated, CallbackStays
    <3> QED
      BY <3>1, <3>2, <3>3 DEF ThreadInv
  <2>6. CASE IoEventsDone
    <3>1. HandlerRuns'
      BY <2>6 DEF IoEventsDone, HandlerRuns, ThreadsCreated
    <3>2. ThreadsCreated'
      BY <2>6 DEF IoEventsDone, ThreadsCreated
    <3>3. CallbackStays'
      BY <2>6 DEF IoEventsDone, HandlerRuns, ThreadsCreated, CallbackStays
    <3> QED
      BY <3>1, <3>2, <3>3 DEF ThreadInv
  <2>7. CASE ConsumerLock \/ ConsumerTakes \/ ConsumerUses
    <3>1. HandlerRuns'
      BY <2>7 DEF ConsumerLock, ConsumerTakes, LossesBefore, ConsumerUses, HandlerRuns,
           ThreadsCreated
    <3>2. ThreadsCreated'
      BY <2>7 DEF ConsumerLock, ConsumerTakes, LossesBefore, ConsumerUses, ThreadsCreated
    <3>3. CallbackStays'
      BY <2>7 DEF ConsumerLock, ConsumerTakes, LossesBefore, ConsumerUses, HandlerRuns,
           ThreadsCreated, CallbackStays
    <3> QED
      BY <3>1, <3>2, <3>3 DEF ThreadInv
  <2>8. CASE ConsumerExits
    <3>1. HandlerRuns'
      BY <2>8 DEF ConsumerExits, HandlerRuns, ThreadsCreated
    <3>2. ThreadsCreated'
      BY <2>8 DEF ConsumerExits, ThreadsCreated
    <3>3. CallbackStays'
      BY <2>8 DEF ConsumerExits, HandlerRuns, ThreadsCreated, CallbackStays
    <3> QED
      BY <3>1, <3>2, <3>3 DEF ThreadInv
  <2>9. CASE ConsumerEmpty \/ ConsumerSleeps \/ ConsumerWakes
    <3>1. HandlerRuns'
      BY <2>9 DEF ConsumerEmpty, ConsumerSleeps, ConsumerWakes, HandlerRuns, ThreadsCreated
    <3>2. ThreadsCreated'
      BY <2>9 DEF ConsumerEmpty, ConsumerSleeps, ConsumerWakes, ThreadsCreated
    <3>3. CallbackStays'
      BY <2>9 DEF ConsumerEmpty, ConsumerSleeps, ConsumerWakes, HandlerRuns, ThreadsCreated,
           CallbackStays
    <3> QED
      BY <3>1, <3>2, <3>3 DEF ThreadInv
  <2>10. CASE ControlDone
    <3>1. HandlerRuns'
      BY <2>10 DEF ControlDone, Control, HandlerRuns, ThreadsCreated
    <3>2. ThreadsCreated'
      BY <2>10 DEF ControlDone, Control, ThreadsCreated
    <3>3. CallbackStays'
      BY <2>10 DEF ControlDone, Control, HandlerRuns, ThreadsCreated, CallbackStays
    <3> QED
      BY <3>1, <3>2, <3>3 DEF ThreadInv
  <2>11. CASE MainHandlesEvents /\ (driver = "airspyhf" => pc["main"] # "last_events")
    <3>1. HandlerRuns'
      BY <2>11 DEF MainHandlesEvents, Control, HandlerRuns, ThreadsCreated
    <3>2. ThreadsCreated'
      BY <2>11 DEF MainHandlesEvents, Control, ThreadsCreated
    <3>3. CallbackStays'
      BY <2>11 DEF MainHandlesEvents, Control, HandlerRuns, ThreadsCreated, CallbackStays
    <3> QED
      BY <3>1, <3>2, <3>3 DEF ThreadInv
  <2>12. CASE StartRx \/ CreateBusy
    <3>1. HandlerRuns'
      BY <2>12 DEF StartRx, CreateBusy, HandlerRuns, ThreadsCreated
    <3>2. ThreadsCreated'
      BY <2>12 DEF StartRx, CreateBusy, ThreadsCreated
    <3>3. CallbackStays'
      BY <2>12 DEF StartRx, CreateBusy, HandlerRuns, ThreadsCreated, CallbackStays
    <3> QED
      BY <3>1, <3>2, <3>3 DEF ThreadInv
  <2>13. CASE CreateBegins /\ created = {}
    <3>1. HandlerRuns'
      BY <2>13 DEF CreateBegins, HandlerRuns, ThreadsCreated
    <3>2. ThreadsCreated'
      BY <2>13 DEF CreateBegins, ThreadsCreated
    <3>3. CallbackStays'
      BY <2>13 DEF CreateBegins, HandlerRuns, ThreadsCreated, CallbackStays
    <3> QED
      BY <3>1, <3>2, <3>3 DEF ThreadInv
  <2>14. CASE PrepareTransfer \/ PrepareFails \/ ResetRing
    <3>1. HandlerRuns'
      BY <2>14 DEF PrepareTransfer, Submit, Usb!Accept, PrepareFails, SubmitFails,
           ResetRing, HandlerRuns, ThreadsCreated
    <3>2. ThreadsCreated'
      BY <2>14 DEF PrepareTransfer, Submit, Usb!Accept, PrepareFails, SubmitFails,
           ResetRing, ThreadsCreated
    <3>3. CallbackStays'
      BY <2>14 DEF PrepareTransfer, Submit, Usb!Accept, PrepareFails, SubmitFails,
           ResetRing, HandlerRuns, ThreadsCreated, CallbackStays
    <3> QED
      BY <3>1, <3>2, <3>3 DEF ThreadInv
  <2>15. CASE CreateConsumer
    <3>1. HandlerRuns'
      BY <2>15 DEF CreateConsumer, HandlerRuns, ThreadsCreated
    <3>2. ThreadsCreated'
      <4>1. \A th \in {"io", "consumer"} : pc'[th] # "exited" => th \in created'
        <5>1. \A th \in {"io", "consumer"} : th # "consumer" => pc'[th] = pc[th]
          BY <2>15 DEF CreateConsumer
        <5>2. created' = created \cup {"consumer"}
          BY <2>15 DEF CreateConsumer
        <5> QED
          BY <5>1, <5>2 DEF ThreadsCreated
      <4>2. /\ pc'["main"] = "create_io"
            /\ streaming' = streaming
            /\ created' = created \cup {"consumer"}
        BY <2>15 DEF CreateConsumer
      <4>3. pc["main"] = "create_consumer"
        BY <2>15 DEF CreateConsumer
      <4> QED
        BY <4>1, <4>2, <4>3 DEF ThreadsCreated
    <3>3. CallbackStays'
      BY <2>15 DEF CreateConsumer, HandlerRuns, ThreadsCreated, CallbackStays
    <3> QED
      BY <3>1, <3>2, <3>3 DEF ThreadInv
  <2>16. CASE CreateIo
    <3>1. HandlerRuns'
      BY <2>16 DEF CreateIo, HandlerRuns, ThreadsCreated
    <3>2. ThreadsCreated'
      <4>1. \A th \in {"io", "consumer"} : pc'[th] # "exited" => th \in created'
        <5>1. \A th \in {"io", "consumer"} : th # "io" => pc'[th] = pc[th]
          BY <2>16 DEF CreateIo
        <5>2. created' = created \cup {"io"}
          BY <2>16 DEF CreateIo
        <5> QED
          BY <5>1, <5>2 DEF ThreadsCreated
      <4>2. pc'["main"] = "idle" /\ streaming' = streaming /\ created' = created \cup {"io"}
        BY <2>16 DEF CreateIo
      <4>3. pc["main"] = "create_io"
        BY <2>16 DEF CreateIo
      <4> QED
        BY <4>1, <4>2, <4>3 DEF ThreadsCreated
    <3>3. CallbackStays'
      BY <2>16 DEF CreateIo, HandlerRuns, ThreadsCreated, CallbackStays
    <3> QED
      BY <3>1, <3>2, <3>3 DEF ThreadInv
  <2>17. CASE CreateThreadFails
    <3>1. HandlerRuns'
      BY <2>17 DEF CreateThreadFails, HandlerRuns, ThreadsCreated
    <3>2. ThreadsCreated'
      BY <2>17 DEF CreateThreadFails, ThreadsCreated
    <3>3. CallbackStays'
      BY <2>17 DEF CreateThreadFails, HandlerRuns, ThreadsCreated, CallbackStays
    <3> QED
      BY <3>1, <3>2, <3>3 DEF ThreadInv
  <2>18. CASE StopRx \/ CancelTransfer \/ SignalConsumer
    <3>1. HandlerRuns'
      BY <2>18 DEF StopRx, CancelTransfer, Cancel, Usb!Want, SignalConsumer, HandlerRuns,
           ThreadsCreated
    <3>2. ThreadsCreated'
      BY <2>18 DEF StopRx, CancelTransfer, Cancel, Usb!Want, SignalConsumer, ThreadsCreated
    <3>3. CallbackStays'
      BY <2>18 DEF StopRx, CancelTransfer, Cancel, Usb!Want, SignalConsumer, HandlerRuns,
           ThreadsCreated, CallbackStays
    <3> QED
      BY <3>1, <3>2, <3>3 DEF ThreadInv
  <2>19. CASE JoinIo
    <3>1. HandlerRuns'
      BY <2>19 DEF JoinIo, HandlerRuns, ThreadsCreated
    <3>2. ThreadsCreated'
      BY <2>19 DEF JoinIo, ThreadsCreated
    <3>3. CallbackStays'
      BY <2>19 DEF JoinIo, HandlerRuns, ThreadsCreated, CallbackStays
    <3> QED
      BY <3>1, <3>2, <3>3 DEF ThreadInv
  <2>20. CASE JoinConsumer
    <3>1. HandlerRuns'
      BY <2>20 DEF JoinConsumer, HandlerRuns, ThreadsCreated
    <3>2. ThreadsCreated'
      BY <2>20 DEF JoinConsumer, ThreadsCreated
    <3>3. CallbackStays'
      BY <2>20 DEF JoinConsumer, HandlerRuns, ThreadsCreated, CallbackStays
    <3> QED
      BY <3>1, <3>2, <3>3 DEF ThreadInv
  <2>21. CASE LastEventsDone
    <3>1. HandlerRuns'
      BY <2>21 DEF LastEventsDone, HandlerRuns, ThreadsCreated
    <3>2. ThreadsCreated'
      BY <2>21 DEF LastEventsDone, ThreadsCreated
    <3>3. CallbackStays'
      BY <2>21 DEF LastEventsDone, HandlerRuns, ThreadsCreated, CallbackStays
    <3> QED
      BY <3>1, <3>2, <3>3 DEF ThreadInv
  <2>22. CASE Stopped
    <3>1. HandlerRuns'
      BY <2>22 DEF Stopped, HandlerRuns, ThreadsCreated
    <3>2. ThreadsCreated'
      BY <2>22 DEF Stopped, ThreadsCreated
    <3>3. CallbackStays'
      BY <2>22 DEF Stopped, HandlerRuns, ThreadsCreated, CallbackStays
    <3> QED
      BY <3>1, <3>2, <3>3 DEF ThreadInv
  <2>23. CASE \E t \in Transfer, outcome \in {"COMPLETED", "ERROR"} : KernelCompletes(t,
       outcome)
    <3>1. HandlerRuns'
      BY <2>23 DEF KernelCompletes, HandlerRuns, ThreadsCreated
    <3>2. ThreadsCreated'
      <4>1. UNCHANGED <<pc, created, streaming>>
        BY <2>23 DEF KernelCompletes
      <4> QED
        BY <4>1 DEF ThreadsCreated
    <3>3. CallbackStays'
      <4>1. UNCHANGED <<created, streaming, callback>>
        BY <2>23 DEF KernelCompletes
      <4> QED
        BY <4>1 DEF CallbackStays
    <3> QED
      BY <3>1, <3>2, <3>3 DEF ThreadInv
  <2>24. CASE UNCHANGED vars
    <3>1. HandlerRuns'
      BY <2>24 DEF vars, HandlerRuns, ThreadsCreated
    <3>2. ThreadsCreated'
      BY <2>24 DEF vars, ThreadsCreated
    <3>3. CallbackStays'
      BY <2>24 DEF vars, HandlerRuns, ThreadsCreated, CallbackStays
    <3> QED
      BY <3>1, <3>2, <3>3 DEF ThreadInv
  <2> QED
    BY <1>1, <2>1, <2>2, <2>3, <2>4, <2>5, <2>6, <2>7, <2>8, <2>9, <2>10, <2>11, <2>12,
         <2>13, <2>14, <2>15, <2>16, <2>17, <2>18, <2>19, <2>20, <2>21, <2>22, <2>23, <2>24
         DEF SharedStep
<1>2. CASE driver = "airspyhf" /\ HfOwnStep
  <2>1. CASE HfCallbackSubmit \/ HfCallbackCount
    <3>1. HandlerRuns'
      BY <2>1, <1>2 DEF HfCallbackSubmit, Submit, SubmitFails, Usb!Accept, HfCallbackCount,
           Counted, HandlerRuns, ThreadsCreated
    <3>2. ThreadsCreated'
      BY <2>1, <1>2 DEF HfCallbackSubmit, Submit, SubmitFails, Usb!Accept, HfCallbackCount,
           Counted, ThreadsCreated
    <3>3. CallbackStays'
      BY <2>1, <1>2 DEF HfCallbackSubmit, Submit, SubmitFails, Usb!Accept, HfCallbackCount,
           Counted, HandlerRuns, ThreadsCreated, CallbackStays
    <3> QED
      BY <3>1, <3>2, <3>3 DEF ThreadInv
  <2>2. CASE HfIoEventsDone
    <3>1. HandlerRuns'
      BY <2>2, <1>2 DEF HfIoEventsDone, HandlerRuns, ThreadsCreated
    <3>2. ThreadsCreated'
      BY <2>2, <1>2 DEF HfIoEventsDone, ThreadsCreated
    <3>3. CallbackStays'
      BY <2>2, <1>2 DEF HfIoEventsDone, HandlerRuns, ThreadsCreated, CallbackStays
    <3> QED
      BY <3>1, <3>2, <3>3 DEF ThreadInv
  <2>3. CASE HfCreateOverOldThreads
    <3>1. HandlerRuns'
      BY <2>3, <1>2 DEF HfCreateOverOldThreads, HandlerRuns, ThreadsCreated
    <3>2. ThreadsCreated'
      BY <2>3, <1>2 DEF HfCreateOverOldThreads, ThreadsCreated
    <3>3. CallbackStays'
      BY <2>3, <1>2 DEF HfCreateOverOldThreads, HandlerRuns, ThreadsCreated, CallbackStays
    <3> QED
      BY <3>1, <3>2, <3>3 DEF ThreadInv
  <2>4. CASE HfCancelled \/ HfSignalConsumer
    <3>1. HandlerRuns'
      BY <2>4, <1>2 DEF HfCancelled, HfSignalConsumer, Draining, HandlerRuns, ThreadsCreated
    <3>2. ThreadsCreated'
      BY <2>4, <1>2 DEF HfCancelled, HfSignalConsumer, Draining, ThreadsCreated
    <3>3. CallbackStays'
      BY <2>4, <1>2 DEF HfCancelled, HfSignalConsumer, Draining, HandlerRuns,
           ThreadsCreated, CallbackStays
    <3> QED
      BY <3>1, <3>2, <3>3 DEF ThreadInv
  <2>5. CASE HfDrain
    <3>1. HandlerRuns'
      BY <2>5, <1>2 DEF HfDrain, Draining, HandlerRuns, ThreadsCreated
    <3>2. ThreadsCreated'
      BY <2>5, <1>2 DEF HfDrain, Draining, ThreadsCreated
    <3>3. CallbackStays'
      BY <2>5, <1>2 DEF HfDrain, Draining, HandlerRuns, ThreadsCreated, CallbackStays
    <3> QED
      BY <3>1, <3>2, <3>3 DEF ThreadInv
  <2>6. CASE HfDrained
    <3>1. HandlerRuns'
      BY <2>6, <1>2 DEF HfDrained, HandlerRuns, ThreadsCreated
    <3>2. ThreadsCreated'
      BY <2>6, <1>2 DEF HfDrained, ThreadsCreated
    <3>3. CallbackStays'
      BY <2>6, <1>2 DEF HfDrained, HandlerRuns, ThreadsCreated, CallbackStays
    <3> QED
      BY <3>1, <3>2, <3>3 DEF ThreadInv
  <2>7. CASE HfJoined
    <3>1. HandlerRuns'
      BY <2>7, <1>2 DEF HfJoined, HandlerRuns, ThreadsCreated
    <3>2. ThreadsCreated'
      BY <2>7, <1>2 DEF HfJoined, ThreadsCreated
    <3>3. CallbackStays'
      BY <2>7, <1>2 DEF HfJoined, HandlerRuns, ThreadsCreated, CallbackStays
    <3> QED
      BY <3>1, <3>2, <3>3 DEF ThreadInv
  <2> QED
    BY <1>2, <2>1, <2>2, <2>3, <2>4, <2>5, <2>6, <2>7 DEF HfOwnStep
<1>3. CASE driver = "hydrasdr" /\ HydraOwnStep
  <2>1. CASE HydraCallbackCheck
    <3>1. HandlerRuns'
      BY <2>1, <1>3 DEF HydraCallbackCheck, Usb!Call, HandlerRuns, ThreadsCreated
    <3>2. ThreadsCreated'
      BY <2>1, <1>3 DEF HydraCallbackCheck, Usb!Call, ThreadsCreated
    <3>3. CallbackStays'
      <4>1. callback' # "none" => UNCHANGED streaming /\ streaming
        BY <2>1, <1>3, Zenon DEF HydraCallbackCheck
      <4> QED
        BY <4>1 DEF CallbackStays
    <3> QED
      BY <3>1, <3>2, <3>3 DEF ThreadInv
  <2>2. CASE HydraCallbackSubmit
    <3>1. HandlerRuns'
      BY <2>2, <1>3 DEF HydraCallbackSubmit, Submit, SubmitFails, Usb!Accept, HandlerRuns,
           ThreadsCreated
    <3>2. ThreadsCreated'
      BY <2>2, <1>3 DEF HydraCallbackSubmit, Submit, SubmitFails, Usb!Accept, ThreadsCreated
    <3>3. CallbackStays'
      BY <2>2, <1>3 DEF HydraCallbackSubmit, Submit, SubmitFails, Usb!Accept, HandlerRuns,
           ThreadsCreated, CallbackStays
    <3> QED
      BY <3>1, <3>2, <3>3 DEF ThreadInv
  <2>3. CASE HydraIoLoop
    <3>1. HandlerRuns'
      BY <2>3, <1>3 DEF HydraIoLoop, HandlerRuns, ThreadsCreated
    <3>2. ThreadsCreated'
      BY <2>3, <1>3 DEF HydraIoLoop, ThreadsCreated
    <3>3. CallbackStays'
      BY <2>3, <1>3 DEF HydraIoLoop, HandlerRuns, ThreadsCreated, CallbackStays
    <3> QED
      BY <3>1, <3>2, <3>3 DEF ThreadInv
  <2>4. CASE HydraIoEventsDone
    <3>1. HandlerRuns'
      BY <2>4, <1>3 DEF HydraIoEventsDone, HandlerRuns, ThreadsCreated
    <3>2. ThreadsCreated'
      BY <2>4, <1>3 DEF HydraIoEventsDone, ThreadsCreated
    <3>3. CallbackStays'
      BY <2>4, <1>3 DEF HydraIoEventsDone, HandlerRuns, ThreadsCreated, CallbackStays
    <3> QED
      BY <3>1, <3>2, <3>3 DEF ThreadInv
  <2>5. CASE HydraConsumerExits
    <3>1. HandlerRuns'
      BY <2>5, <1>3 DEF HydraConsumerExits, HandlerRuns, ThreadsCreated
    <3>2. ThreadsCreated'
      BY <2>5, <1>3 DEF HydraConsumerExits, ThreadsCreated
    <3>3. CallbackStays'
      BY <2>5, <1>3 DEF HydraConsumerExits, HandlerRuns, ThreadsCreated, CallbackStays
    <3> QED
      BY <3>1, <3>2, <3>3 DEF ThreadInv
  <2>6. CASE HydraConsumerUses
    <3>1. HandlerRuns'
      BY <2>6, <1>3 DEF HydraConsumerUses, HandlerRuns, ThreadsCreated
    <3>2. ThreadsCreated'
      BY <2>6, <1>3 DEF HydraConsumerUses, ThreadsCreated
    <3>3. CallbackStays'
      BY <2>6, <1>3 DEF HydraConsumerUses, HandlerRuns, ThreadsCreated, CallbackStays
    <3> QED
      BY <3>1, <3>2, <3>3 DEF ThreadInv
  <2>7. CASE HydraCreateOverOldThreads
    <3>1. HandlerRuns'
      BY <2>7, <1>3 DEF HydraCreateOverOldThreads, HandlerRuns, ThreadsCreated
    <3>2. ThreadsCreated'
      BY <2>7, <1>3 DEF HydraCreateOverOldThreads, ThreadsCreated
    <3>3. CallbackStays'
      BY <2>7, <1>3 DEF HydraCreateOverOldThreads, HandlerRuns, ThreadsCreated,
           CallbackStays
    <3> QED
      BY <3>1, <3>2, <3>3 DEF ThreadInv
  <2>8. CASE HydraStop \/ HydraClearRequest
    <3>1. HandlerRuns'
      BY <2>8, <1>3 DEF HydraStop, HydraClearRequest, HandlerRuns, ThreadsCreated
    <3>2. ThreadsCreated'
      BY <2>8, <1>3 DEF HydraStop, HydraClearRequest, ThreadsCreated
    <3>3. CallbackStays'
      BY <2>8, <1>3 DEF HydraStop, HydraClearRequest, HandlerRuns, ThreadsCreated,
           CallbackStays
    <3> QED
      BY <3>1, <3>2, <3>3 DEF ThreadInv
  <2>9. CASE HydraStopControlDone
    <3>1. HandlerRuns'
      BY <2>9, <1>3 DEF HydraStopControlDone, HandlerRuns, ThreadsCreated
    <3>2. ThreadsCreated'
      BY <2>9, <1>3 DEF HydraStopControlDone, ThreadsCreated
    <3>3. CallbackStays'
      BY <2>9, <1>3 DEF HydraStopControlDone, HandlerRuns, ThreadsCreated, CallbackStays
    <3> QED
      BY <3>1, <3>2, <3>3 DEF ThreadInv
  <2>10. CASE HydraClearStreaming
    <3>1. HandlerRuns'
      BY <2>10, <1>3 DEF HydraClearStreaming, HandlerRuns, ThreadsCreated
    <3>2. ThreadsCreated'
      BY <2>10, <1>3 DEF HydraClearStreaming, ThreadsCreated
    <3>3. CallbackStays'
      BY <2>10, <1>3 DEF HydraClearStreaming, HandlerRuns, ThreadsCreated, CallbackStays
    <3> QED
      BY <3>1, <3>2, <3>3 DEF ThreadInv
  <2>11. CASE HydraLastEventsDone
    <3>1. HandlerRuns'
      BY <2>11, <1>3 DEF HydraLastEventsDone, HandlerRuns, ThreadsCreated
    <3>2. ThreadsCreated'
      BY <2>11, <1>3 DEF HydraLastEventsDone, ThreadsCreated
    <3>3. CallbackStays'
      BY <2>11, <1>3 DEF HydraLastEventsDone, HandlerRuns, ThreadsCreated, CallbackStays
    <3> QED
      BY <3>1, <3>2, <3>3 DEF ThreadInv
  <2>12. CASE HydraMainHandlesEvents
    <3>1. HandlerRuns'
      BY <2>12, <1>3 DEF HydraMainHandlesEvents, Control, HandlerRuns, ThreadsCreated
    <3>2. ThreadsCreated'
      BY <2>12, <1>3 DEF HydraMainHandlesEvents, Control, ThreadsCreated
    <3>3. CallbackStays'
      BY <2>12, <1>3 DEF HydraMainHandlesEvents, Control, HandlerRuns, ThreadsCreated,
           CallbackStays
    <3> QED
      BY <3>1, <3>2, <3>3 DEF ThreadInv
  <2> QED
    BY <1>3, <2>1, <2>2, <2>3, <2>4, <2>5, <2>6, <2>7, <2>8, <2>9, <2>10, <2>11, <2>12 DEF
         HydraOwnStep
<1> QED
  BY <1>1, <1>2, <1>3 DEF Step

\* What does not move the ring or the consumer keeps the ring as it is.
LEMMA RingFrame ==
  ASSUME RingInv, UNCHANGED <<buffer, queue, received_buffer_count, using, head, tail>>,
         pc["consumer"] \in {"using", "used"} <=> pc'["consumer"] \in {"using", "used"}
  PROVE  RingInv'
  BY DEF RingInv, EachBufferOnce, RingHolds, UsingBeforeTail, Waiting, At

\* Every step keeps the ring and what is in it.
LEMMA RingStep == ASSUME IInv, Step PROVE RingInv'
<1> USE DEF Goto, flagVars, ringVars, lockVars, usbVars, callbackVars, threadVars,
     historyVars, restVars, Thread
<1> /\ pc \in [Thread -> Label] /\ TypeOK
  BY DEF IInv, TypeOK
<1> RingInv /\ ThreadInv
  BY DEF IInv
<1>1. CASE SharedStep
  <2>1. CASE CallbackCheck \/ CallbackSubmit \/ (\E t \in Transfer : HandleEvent(t))
    <3>1. /\ UNCHANGED <<buffer, queue, received_buffer_count, using, head, tail>>
          /\ pc["consumer"] \in {"using", "used"} <=> pc'["consumer"] \in {"using", "used"}
      BY <2>1 DEF CallbackCheck, Usb!Call, CallbackSubmit, Submit, SubmitFails, Usb!Accept,
           HandleEvent, Usb!Retire
    <3> QED
      BY <3>1, RingFrame
  <2>2. CASE CallbackQueue
    <3>1. callback = "queue" /\ UNCHANGED <<pc, tail, using>>
      BY <2>2 DEF CallbackQueue, RingHasRoom, SignalBlock
    <3>2. CASE ~RingHasRoom
      <4>1. UNCHANGED <<buffer, queue, received_buffer_count, head>>
        BY <2>2, <3>2 DEF CallbackQueue
      <4> QED
        BY <3>1, <4>1, RingFrame
    <3>3. CASE RingHasRoom
      <4>1. /\ queue' = [queue EXCEPT ![head] = buffer[current]]
            /\ buffer' = [buffer EXCEPT ![current] = queue[head]]
            /\ head' = (head + 1) % BufferCount
            /\ received_buffer_count' = received_buffer_count + 1
        BY <2>2, <3>3 DEF CallbackQueue
      <4>2. received_buffer_count < BufferCount
        BY <3>3 DEF RingHasRoom
      <4>t. /\ queue \in [Slot -> Buffer] /\ buffer \in [Transfer -> Buffer] /\ head \in Slot /\ tail \in Slot
            /\ current \in Transfer
            /\ received_buffer_count \in 0..BufferCount
            /\ using \in Buffer \cup {0}
        BY DEF TypeOK
      <4>3. EachBufferOnce'
        BY <4>1, <4>t DEF RingInv, EachBufferOnce
      <4>4. /\ Waiting \in 0..(BufferCount - 1) /\ Waiting' = Waiting + 1
            /\ using # 0 => Waiting < BufferCount - 1
        BY <3>1, <4>1, <4>2, <4>t, CountAssumption DEF RingInv, RingHolds, Waiting
      <4>5. head = At(Waiting)
        BY DEF RingInv, RingHolds
      <4>6. RingHolds'
        <5>1. /\ At(Waiting) = IF tail + Waiting < BufferCount THEN tail + Waiting
                               ELSE tail + Waiting - BufferCount
              /\ At(Waiting + 1) = IF tail + Waiting + 1 < BufferCount THEN tail + Waiting + 1
                                   ELSE tail + Waiting + 1 - BufferCount
          <6> HIDE DEF Waiting
          <6>1. Waiting \in 0..BufferCount /\ Waiting + 1 \in 0..BufferCount
            BY <4>4, CountAssumption
          <6>2. PICK w \in 0..BufferCount : w = Waiting /\ w + 1 \in 0..BufferCount
            BY <6>1
          <6>3. /\ At(w) = IF tail + w < BufferCount THEN tail + w ELSE tail + w - BufferCount
                /\ At(w + 1) = IF tail + (w + 1) < BufferCount THEN tail + (w + 1)
                                ELSE tail + (w + 1) - BufferCount
            BY <6>2, <4>t, AtIs
          <6> QED
            BY <6>2, <6>3, <4>t, CountAssumption DEF Slot
        <5>2. (head + 1) % BufferCount = IF head + 1 = BufferCount THEN 0 ELSE head + 1
          BY <4>t, NextSlot
        <5>3. head' = At(Waiting + 1)
          <6> HIDE DEF Waiting, At
          <6> QED
            BY <4>1, <4>4, <4>5, <4>t, <5>1, <5>2, CountAssumption DEF Slot
        <5>4. At(Waiting + 1) = (At(Waiting))'
          BY <3>1, <4>4 DEF At
        <5> QED
          BY <4>4, <5>3, <5>4 DEF RingHolds
      <4>7. UsingBeforeTail'
        <5>1. ASSUME using # 0 PROVE \E s \in Slot : using = queue'[s] /\ tail = (s + 1) % BufferCount
          <6>1. PICK s \in Slot : using = queue[s] /\ tail = (s + 1) % BufferCount
            BY <5>1 DEF RingInv, UsingBeforeTail
          <6>2. tail = IF s + 1 = BufferCount THEN 0 ELSE s + 1
            BY <6>1, NextSlot
          <6>3. head = IF tail + Waiting < BufferCount THEN tail + Waiting
                       ELSE tail + Waiting - BufferCount
            <7> HIDE DEF Waiting
            <7>1. Waiting \in 0..BufferCount
              BY <4>4, CountAssumption
            <7> QED
              BY <7>1, <4>5, <4>t, Wraps DEF At
          <6>4. s # head
            <7> HIDE DEF Waiting
            <7> QED
              BY <5>1, <6>2, <6>3, <4>4, <4>t, CountAssumption DEF Slot
          <6> QED
            BY <6>1, <6>4, <4>1, <4>t
        <5> QED
          BY <3>1, <5>1 DEF RingInv, UsingBeforeTail
      <4> QED
        BY <4>3, <4>6, <4>7 DEF RingInv
    <3> QED
      BY <3>2, <3>3
  <2>3. CASE IoLoop \/ IoEventsDone
    <3>1. /\ UNCHANGED <<buffer, queue, received_buffer_count, using, head, tail>>
          /\ pc["consumer"] \in {"using", "used"} <=> pc'["consumer"] \in {"using", "used"}
      BY <2>3 DEF IoLoop, IoEventsDone
    <3> QED
      BY <3>1, RingFrame
  <2>4. CASE ConsumerLock
    <3>1. UNCHANGED <<buffer, queue, head, tail>> /\ pc' = [pc EXCEPT !["consumer"] = "check"]
      BY <2>4 DEF ConsumerLock
    <3>2. CASE pc["consumer"] = "used"
      <4>1. received_buffer_count' = received_buffer_count - 1 /\ using' = 0 /\ using # 0
        BY <2>4, <3>2 DEF ConsumerLock, RingInv, UsingBeforeTail
      <4>2. Waiting' = Waiting
        BY <4>1 DEF Waiting, TypeOK
      <4> QED
        BY <3>1, <4>1, <4>2 DEF RingInv, EachBufferOnce, RingHolds, UsingBeforeTail, At, Thread
    <3>3. CASE pc["consumer"] # "used"
      <4>1. UNCHANGED <<received_buffer_count, using>> /\ pc["consumer"] # "using"
        BY <2>4, <3>3 DEF ConsumerLock
      <4> QED
        BY <3>1, <3>3, <4>1, RingFrame DEF Thread
    <3> QED
      BY <3>2, <3>3
  <2>5. CASE ConsumerExits \/ ConsumerEmpty \/ ConsumerSleeps \/ ConsumerWakes \/
       ConsumerUses
    <3>1. /\ UNCHANGED <<buffer, queue, received_buffer_count, using, head, tail>>
          /\ pc["consumer"] \in {"using", "used"} <=> pc'["consumer"] \in {"using", "used"}
      BY <2>5 DEF ConsumerExits, ConsumerEmpty, ConsumerSleeps, ConsumerWakes, ConsumerUses
    <3> QED
      BY <3>1, RingFrame
  <2>6. CASE ConsumerTakes
    <3>1. /\ UNCHANGED <<buffer, queue, head, received_buffer_count>>
          /\ pc["consumer"] = "check" /\ pc'["consumer"] = "using"
          /\ using' = queue[tail] /\ tail' = (tail + 1) % BufferCount /\ received_buffer_count > 0
      BY <2>6 DEF ConsumerTakes, LossesBefore, Thread
    <3>2. /\ queue[tail] \in Buffer
          /\ 0 \notin Buffer
          /\ tail \in Slot
          /\ received_buffer_count \in 0..BufferCount
      BY CountAssumption DEF TypeOK, Buffer
    <3>3. using = 0 /\ using' # 0
      BY <3>1, <3>2 DEF RingInv, UsingBeforeTail
    <3>4. Waiting \in 1..BufferCount /\ Waiting' = Waiting - 1
      BY <3>1, <3>2, <3>3 DEF Waiting
    <3>5. head = (tail + Waiting) % BufferCount
      BY DEF RingInv, RingHolds, At
    <3>6. head = (tail' + Waiting') % BufferCount
      BY <3>1, <3>2, <3>4, <3>5, TakesOne
    <3>7. EachBufferOnce'
      BY <3>1 DEF RingInv, EachBufferOnce
    <3> QED
      BY <3>1, <3>2, <3>3, <3>4, <3>6, <3>7 DEF RingInv, RingHolds, UsingBeforeTail, At
  <2>7. CASE ControlDone \/ (MainHandlesEvents /\ (driver = "airspyhf" => pc["main"] #
       "last_events"))
    <3>1. /\ UNCHANGED <<buffer, queue, received_buffer_count, using, head, tail>>
          /\ pc["consumer"] \in {"using", "used"} <=> pc'["consumer"] \in {"using", "used"}
      BY <2>7 DEF ControlDone, Control, MainHandlesEvents
    <3> QED
      BY <3>1, RingFrame
  <2>8. CASE StartRx \/ CreateBusy \/ (CreateBegins /\ created = {}) \/ PrepareTransfer \/
       PrepareFails
    <3>1. /\ UNCHANGED <<buffer, queue, received_buffer_count, using, head, tail>>
          /\ pc["consumer"] \in {"using", "used"} <=> pc'["consumer"] \in {"using", "used"}
      BY <2>8 DEF StartRx, CreateBusy, CreateBegins, PrepareTransfer, Submit, Usb!Accept,
           PrepareFails, SubmitFails
    <3> QED
      BY <3>1, RingFrame
  <2>9. CASE ResetRing
    <3>1. head' = 0 /\ tail' = 0 /\ received_buffer_count' = 0 /\ UNCHANGED <<buffer, queue, using>>
      BY <2>9 DEF ResetRing
    <3>2. pc["consumer"] = "exited" /\ pc'["consumer"] = "exited"
      BY <2>9 DEF ResetRing, ThreadInv, ThreadsCreated, Thread
    <3>3. using = 0
      BY <3>2 DEF RingInv, UsingBeforeTail
    <3>4. Waiting' = 0
      BY <3>1, <3>3 DEF Waiting
    <3>5. 0 % BufferCount = 0
      BY CountAssumption
    <3>6. EachBufferOnce'
      BY <3>1 DEF RingInv, EachBufferOnce
    <3> QED
      BY <3>1, <3>2, <3>3, <3>4, <3>5, <3>6 DEF RingInv, RingHolds, UsingBeforeTail, At
  <2>10. CASE CreateConsumer
    <3>1. pc["consumer"] = "exited" /\ pc'["consumer"] = "start"
      BY <2>10 DEF CreateConsumer, ThreadInv, ThreadsCreated
    <3>2. UNCHANGED <<buffer, queue, received_buffer_count, using, head, tail>>
      BY <2>10 DEF CreateConsumer
    <3> QED
      BY <3>1, <3>2, RingFrame
  <2>11. CASE CreateIo \/ CreateThreadFails
    <3>1. /\ UNCHANGED <<buffer, queue, received_buffer_count, using, head, tail>>
          /\ pc["consumer"] \in {"using", "used"} <=> pc'["consumer"] \in {"using", "used"}
      BY <2>11 DEF CreateIo, CreateThreadFails
    <3> QED
      BY <3>1, RingFrame
  <2>12. CASE StopRx \/ CancelTransfer \/ SignalConsumer \/ JoinIo \/ JoinConsumer \/
       LastEventsDone \/ Stopped
    <3>1. /\ UNCHANGED <<buffer, queue, received_buffer_count, using, head, tail>>
          /\ pc["consumer"] \in {"using", "used"} <=> pc'["consumer"] \in {"using", "used"}
      BY <2>12 DEF StopRx, CancelTransfer, Cancel, Usb!Want, SignalConsumer, JoinIo,
           JoinConsumer, LastEventsDone, Stopped
    <3> QED
      BY <3>1, RingFrame
  <2>13. CASE \E t \in Transfer, outcome \in {"COMPLETED", "ERROR"} : KernelCompletes(t,
       outcome)
    <3>1. /\ UNCHANGED <<buffer, queue, received_buffer_count, using, head, tail>>
          /\ pc["consumer"] \in {"using", "used"} <=> pc'["consumer"] \in {"using", "used"}
      BY <2>13 DEF KernelCompletes
    <3> QED
      BY <3>1, RingFrame
  <2>14. CASE UNCHANGED vars
    <3>1. /\ UNCHANGED <<buffer, queue, received_buffer_count, using, head, tail>>
          /\ pc["consumer"] \in {"using", "used"} <=> pc'["consumer"] \in {"using", "used"}
      BY <2>14 DEF vars
    <3> QED
      BY <3>1, RingFrame
  <2> QED
    BY <1>1, <2>1, <2>2, <2>3, <2>4, <2>5, <2>6, <2>7, <2>8, <2>9, <2>10, <2>11, <2>12,
         <2>13, <2>14 DEF SharedStep
<1>2. CASE driver = "airspyhf" /\ HfOwnStep
  <2>1. CASE HfCallbackSubmit \/ HfCallbackCount \/ HfIoEventsDone \/ HfCreateOverOldThreads
    <3>1. /\ UNCHANGED <<buffer, queue, received_buffer_count, using, head, tail>>
          /\ pc["consumer"] \in {"using", "used"} <=> pc'["consumer"] \in {"using", "used"}
      BY <2>1, <1>2 DEF HfCallbackSubmit, Submit, SubmitFails, Usb!Accept, HfCallbackCount,
           Counted, HfIoEventsDone, HfCreateOverOldThreads
    <3> QED
      BY <3>1, RingFrame
  <2>2. CASE HfCancelled \/ HfDrain \/ HfDrained \/ HfSignalConsumer \/ HfJoined
    <3>1. /\ UNCHANGED <<buffer, queue, received_buffer_count, using, head, tail>>
          /\ pc["consumer"] \in {"using", "used"} <=> pc'["consumer"] \in {"using", "used"}
      BY <2>2, <1>2 DEF HfCancelled, HfDrain, Draining, HfDrained, HfSignalConsumer, HfJoined
    <3> QED
      BY <3>1, RingFrame
  <2> QED
    BY <1>2, <2>1, <2>2 DEF HfOwnStep
<1>3. CASE driver = "hydrasdr" /\ HydraOwnStep
  <2>1. CASE HydraCallbackCheck \/ HydraCallbackSubmit \/ HydraIoLoop \/ HydraIoEventsDone
    <3>1. /\ UNCHANGED <<buffer, queue, received_buffer_count, using, head, tail>>
          /\ pc["consumer"] \in {"using", "used"} <=> pc'["consumer"] \in {"using", "used"}
      BY <2>1, <1>3 DEF HydraCallbackCheck, Usb!Call, HydraCallbackSubmit, Submit,
           SubmitFails, Usb!Accept, HydraIoLoop, HydraIoEventsDone
    <3> QED
      BY <3>1, RingFrame
  <2>2. CASE HydraConsumerExits \/ HydraConsumerUses \/ HydraCreateOverOldThreads
    <3>1. /\ UNCHANGED <<buffer, queue, received_buffer_count, using, head, tail>>
          /\ pc["consumer"] \in {"using", "used"} <=> pc'["consumer"] \in {"using", "used"}
      BY <2>2, <1>3 DEF HydraConsumerExits, HydraConsumerUses, HydraCreateOverOldThreads
    <3> QED
      BY <3>1, RingFrame
  <2>3. CASE HydraStop \/ HydraStopControlDone \/ HydraClearRequest \/ HydraClearStreaming
    <3>1. /\ UNCHANGED <<buffer, queue, received_buffer_count, using, head, tail>>
          /\ pc["consumer"] \in {"using", "used"} <=> pc'["consumer"] \in {"using", "used"}
      BY <2>3, <1>3 DEF HydraStop, HydraStopControlDone, HydraClearRequest, HydraClearStreaming
    <3> QED
      BY <3>1, RingFrame
  <2>4. CASE HydraLastEventsDone \/ HydraMainHandlesEvents
    <3>1. /\ UNCHANGED <<buffer, queue, received_buffer_count, using, head, tail>>
          /\ pc["consumer"] \in {"using", "used"} <=> pc'["consumer"] \in {"using", "used"}
      BY <2>4, <1>3 DEF HydraLastEventsDone, HydraMainHandlesEvents, Control
    <3> QED
      BY <3>1, RingFrame
  <2> QED
    BY <1>3, <2>1, <2>2, <2>3, <2>4 DEF HydraOwnStep
<1> QED
  BY <1>1, <1>2, <1>3 DEF Step

\* What moves neither the ring nor the counts keeps the account.
LEMMA AccountFrame ==
  ASSUME AccountInv,
         UNCHANGED <<received_buffer_count, using, tail, queue, block, dropped_queue,
                     dropped_buffers, produced, consumed, reported, forgotten>>,
         pc'["consumer"] \in {"using", "used"} => pc'["consumer"] = pc["consumer"],
         Accounts' => Accounts
  PROVE  AccountInv'
<1>1. LossesQueued => LossesQueued'
  BY DEF LossesQueued, Waiting, At, Before
<1>2. AccountKept'
  BY <1>1 DEF AccountInv, AccountKept
<1> QED
  BY <1>2 DEF AccountInv, LossesReported

\* Every step keeps the account of the losses.
LEMMA AccountStep == ASSUME IInv, Step PROVE AccountInv'
<1> USE DEF Goto, flagVars, ringVars, lockVars, usbVars, callbackVars, threadVars,
     historyVars, restVars, Thread
<1> TypeOK /\ pc \in [Thread -> Label]
  BY DEF IInv, TypeOK
<1> RingInv /\ ThreadInv /\ AccountInv
  BY DEF IInv
<1>t. /\ queue \in [Slot -> Buffer] /\ buffer \in [Transfer -> Buffer] /\ head \in Slot /\ tail \in Slot
      /\ current \in Transfer
      /\ received_buffer_count \in 0..BufferCount
      /\ using \in Buffer \cup {0}
      /\ block \in [Buffer -> Nat] /\ produced \in Nat /\ consumed \in Nat /\ reported \in Nat
      /\ dropped_queue \in [Slot -> Nat] /\ dropped_buffers \in Nat
  BY DEF TypeOK
<1>w. Waiting \in 0..BufferCount /\ (using # 0 => Waiting < BufferCount)
  BY <1>t, CountAssumption DEF RingInv, RingHolds, Waiting
<1>1. CASE SharedStep
  <2>1. CASE CallbackCheck \/ CallbackSubmit \/ (\E t \in Transfer : HandleEvent(t))
    <3>1. UNCHANGED <<received_buffer_count, using, tail, queue, block, dropped_queue,
                     dropped_buffers, produced, consumed, reported, forgotten>>
      BY <2>1 DEF CallbackCheck, Usb!Call, CallbackSubmit, Submit, SubmitFails, Usb!Accept,
           HandleEvent, Usb!Retire
    <3>2. pc'["consumer"] \in {"using", "used"} => pc'["consumer"] = pc["consumer"]
      BY <2>1 DEF CallbackCheck, Usb!Call, CallbackSubmit, Submit, SubmitFails, Usb!Accept,
           HandleEvent, Usb!Retire
    <3>3. Accounts' => Accounts
      BY <2>1 DEF CallbackCheck, Usb!Call, CallbackSubmit, Submit, SubmitFails, Usb!Accept,
           HandleEvent, Usb!Retire, Accounts
    <3> QED
      BY <3>1, <3>2, <3>3, AccountFrame
  <2>2. CASE CallbackQueue
    <3>1. /\ callback = "queue" /\ produced' = produced + 1
          /\ UNCHANGED <<pc, streaming, created, tail, using, consumed, reported, forgotten>>
      BY <2>2 DEF CallbackQueue, RingHasRoom, SignalBlock
    <3>2. Accounts' = Accounts
      BY <3>1 DEF Accounts
    <3>3. CASE ~RingHasRoom
      <4>1. /\ UNCHANGED <<queue, received_buffer_count, dropped_queue, block>>
            /\ dropped_buffers' = dropped_buffers + 1
        BY <2>2, <3>3 DEF CallbackQueue
      <4>2. Waiting' = Waiting /\ \A i \in Int : At(i)' = At(i) /\ Before(i)' = Before(i)
        BY <3>1, <4>1 DEF Waiting, At, Before
      <4>3. LossesQueued => LossesQueued'
        <5>1. Before(Waiting) \in Int
          BY <1>w, <1>t, AtIs, CountAssumption DEF Before
        <5>2. LossesQueued' <=>
                /\ \A i \in 0..(Waiting - 1) : block[queue[At(i)]] = Before(i) + dropped_queue[At(i)] + 1
                /\ produced' = Before(Waiting) + dropped_buffers'
          <6> HIDE DEF Waiting, At, Before
          <6>1. PICK w \in Int : w = Waiting /\ w = Waiting'
            BY <1>w, <4>2
          <6> QED
            BY <4>1, <4>2, <6>1 DEF LossesQueued
        <5> HIDE DEF Waiting, At, Before
        <5> QED
          BY <5>1, <5>2, <3>1, <4>1, <1>t DEF LossesQueued
      <4> QED
        BY <3>1, <3>2, <4>1, <4>3 DEF AccountInv, AccountKept, LossesReported
    <3>4. CASE RingHasRoom
      <4>1. /\ queue' = [queue EXCEPT ![head] = buffer[current]]
            /\ dropped_queue' = [dropped_queue EXCEPT ![head] = dropped_buffers]
            /\ dropped_buffers' = 0
            /\ block' = [block EXCEPT ![buffer[current]] = produced + 1]
            /\ received_buffer_count' = received_buffer_count + 1
        BY <2>2, <3>1, <3>4 DEF CallbackQueue
      <4>2. received_buffer_count < BufferCount
        BY <3>4 DEF RingHasRoom
      <4>3. PICK w \in 0..(BufferCount - 1) : w = Waiting /\ Waiting' = w + 1
        BY <3>1, <4>1, <4>2, <1>t, <1>w, CountAssumption DEF Waiting
      <4>4. \A s \in Slot : s # head => block'[queue'[s]] = block[queue[s]] /\ dropped_queue'[s] = dropped_queue[s]
        BY <4>1, <1>t DEF RingInv, EachBufferOnce
      <4>5. block'[queue'[head]] = produced + 1 /\ dropped_queue'[head] = dropped_buffers
        BY <4>1, <1>t
      <4>6. using # 0 => block'[using] = block[using]
        BY <4>1, <1>t DEF RingInv, EachBufferOnce, UsingBeforeTail
      <4>7. \A i \in Int : At(i)' = At(i)
        BY <3>1 DEF At
      <4>8. head = At(w) /\ \A i \in 0..(w - 1) : At(i) \in Slot /\ At(i) # head
        <5>1. head = At(w)
          BY <4>3 DEF RingInv, RingHolds
        <5>2. ASSUME NEW i \in 0..(w - 1) PROVE At(i) \in Slot /\ At(i) # At(w)
          <6>1. i \in 0..BufferCount /\ w \in 0..BufferCount
            BY CountAssumption
          <6>2. /\ At(i) = (IF tail + i < BufferCount THEN tail + i ELSE tail + i - BufferCount) /\ At(i) \in Slot
                /\ At(w) = (IF tail + w < BufferCount THEN tail + w ELSE tail + w - BufferCount)
            BY <6>1, <1>t, AtIs
          <6> QED
            BY <6>2, <1>t, CountAssumption DEF Slot
        <5> QED
          BY <5>1, <5>2
      <4>9. \A i \in 0..w : Before(i)' = Before(i)
        <5>1. ASSUME NEW i \in 1..w PROVE Before(i)' = block'[queue'[At(i - 1)]]
          BY <4>7 DEF Before
        <5>2. ASSUME NEW i \in 1..w PROVE Before(i)' = Before(i)
          <6>1. i - 1 \in 0..(w - 1) /\ Before(i) = block[queue[At(i - 1)]]
            BY DEF Before
          <6> QED
            BY <5>1, <6>1, <4>4, <4>8
        <5>3. Before(0)' = Before(0)
          BY <3>1, <4>6 DEF Before
        <5> QED
          BY <5>2, <5>3
      <4>10. Before(w + 1)' = produced + 1
        <5>1. Before(w + 1)' = block'[queue'[At(w)']]
          BY DEF Before
        <5> QED
          BY <5>1, <4>5, <4>7, <4>8
      <4>11. LossesQueued => LossesQueued'
        <5> SUFFICES ASSUME LossesQueued PROVE LossesQueued'
          OBVIOUS
        <5>1. /\ \A i \in 0..(w - 1) : block[queue[At(i)]] = Before(i) + dropped_queue[At(i)] + 1
              /\ produced = Before(w) + dropped_buffers
          BY <4>3 DEF LossesQueued
        <5>2. ASSUME NEW i \in 0..w PROVE block'[queue'[At(i)]] = Before(i)' + dropped_queue'[At(i)] + 1
          <6>1. CASE i = w
            BY <6>1, <5>1, <4>5, <4>8, <4>9
          <6>2. CASE i # w
            <7>1. i \in 0..(w - 1)
              BY <6>2
            <7> QED
              BY <7>1, <5>1, <4>4, <4>8, <4>9
          <6> QED
            BY <6>1, <6>2
        <5>3. produced' = Before(w + 1)' + dropped_buffers'
          BY <4>10, <4>1, <3>1, <1>t
        <5>4. \A i \in 0..w : block'[queue'[At(i)']] = Before(i)' + dropped_queue'[At(i)'] + 1
          BY <5>2, <4>7
        <5> HIDE DEF Waiting, At, Before
        <5> QED
          BY <5>3, <5>4, <4>3 DEF LossesQueued
      <4> QED
        BY <3>1, <3>2, <4>6, <4>11 DEF AccountInv, AccountKept, LossesReported, RingInv,
             UsingBeforeTail
    <3> QED
      BY <3>3, <3>4
  <2>3. CASE IoLoop \/ IoEventsDone
    <3>1. UNCHANGED <<received_buffer_count, using, tail, queue, block, dropped_queue,
                     dropped_buffers, produced, consumed, reported, forgotten>>
      BY <2>3 DEF IoLoop, IoEventsDone
    <3>2. pc'["consumer"] \in {"using", "used"} => pc'["consumer"] = pc["consumer"]
      BY <2>3 DEF IoLoop, IoEventsDone
    <3>3. Accounts' => Accounts
      BY <2>3 DEF IoLoop, IoEventsDone, Accounts
    <3> QED
      BY <3>1, <3>2, <3>3, AccountFrame
  <2>4. CASE ConsumerLock
    <3>1. /\ UNCHANGED <<tail, queue, block, dropped_queue, dropped_buffers, produced, consumed,
                        reported, forgotten, streaming, created>>
          /\ pc' = [pc EXCEPT !["consumer"] = "check"]
      BY <2>4 DEF ConsumerLock
    <3>2. Accounts' = Accounts /\ pc'["consumer"] = "check"
      BY <3>1 DEF Accounts
    <3>3. CASE pc["consumer"] = "used"
      <4>1. received_buffer_count' = received_buffer_count - 1 /\ using' = 0 /\ using # 0
        BY <2>4, <3>3 DEF ConsumerLock, RingInv, UsingBeforeTail
      <4>2. Waiting' = Waiting
        BY <4>1, <1>t DEF Waiting
      <4>3. consumed = block[using]
        BY <3>3 DEF AccountInv, AccountKept
      <4>4. \A i \in Int : At(i)' = At(i) /\ Before(i)' = Before(i)
        BY <3>1, <4>1, <4>3 DEF At, Before
      <4>5. LossesQueued => LossesQueued'
        <5>1. PICK w \in Int : w = Waiting /\ w = Waiting'
          BY <1>w, <4>2
        <5>2. UNCHANGED <<queue, block, dropped_queue, dropped_buffers, produced>>
          BY <3>1
        <5> HIDE DEF Waiting, At, Before
        <5>3. \A i \in 0..(w - 1) : At(i)' = At(i) /\ Before(i)' = Before(i)
          BY <4>4
        <5>4. Before(w)' = Before(w)
          BY <4>4
        <5> QED
          BY <5>1, <5>2, <5>3, <5>4 DEF LossesQueued
      <4> QED
        BY <3>1, <3>2, <4>5 DEF AccountInv, AccountKept, LossesReported
    <3>4. CASE pc["consumer"] # "used"
      <4>1. UNCHANGED <<received_buffer_count, using>>
        BY <2>4, <3>4 DEF ConsumerLock
      <4> QED
        BY <3>1, <3>2, <4>1, AccountFrame
    <3> QED
      BY <3>3, <3>4
  <2>5. CASE ConsumerExits \/ ConsumerEmpty \/ ConsumerSleeps \/ ConsumerWakes
    <3>1. UNCHANGED <<received_buffer_count, using, tail, queue, block, dropped_queue,
                     dropped_buffers, produced, consumed, reported, forgotten>>
      BY <2>5 DEF ConsumerExits, ConsumerEmpty, ConsumerSleeps, ConsumerWakes
    <3>2. pc'["consumer"] \in {"using", "used"} => pc'["consumer"] = pc["consumer"]
      BY <2>5 DEF ConsumerExits, ConsumerEmpty, ConsumerSleeps, ConsumerWakes
    <3>3. Accounts' => Accounts
      BY <2>5 DEF ConsumerExits, ConsumerEmpty, ConsumerSleeps, ConsumerWakes, Accounts
    <3> QED
      BY <3>1, <3>2, <3>3, AccountFrame
  <2>6. CASE ConsumerTakes
    <3>1. /\ UNCHANGED <<queue, received_buffer_count, dropped_queue, dropped_buffers, block, produced,
                        consumed, forgotten, streaming, created>>
          /\ pc["consumer"] = "check" /\ pc' = [pc EXCEPT !["consumer"] = "using"]
          /\ using' = queue[tail] /\ tail' = (tail + 1) % BufferCount /\ received_buffer_count > 0
          /\ reported' = dropped_queue[tail] /\ streaming
      BY <2>6 DEF ConsumerTakes, LossesBefore
    <3>2. using = 0 /\ using' # 0
      BY <3>1, <1>t, CountAssumption DEF RingInv, UsingBeforeTail, Buffer
    <3>3. PICK w \in 1..BufferCount : w = Waiting /\ w - 1 = Waiting'
      BY <3>1, <3>2, <1>t DEF Waiting
    <3>4. Accounts' = Accounts /\ Accounts /\ pc'["consumer"] = "using"
      BY <3>1 DEF Accounts, ThreadInv, ThreadsCreated
    <3>5. At(0) = tail
      BY <1>t, AtIs, CountAssumption DEF Slot
    <3>6. \A i \in 0..(w - 1) : At(i)' = At(i + 1)
      <4>1. ASSUME NEW i \in 0..(w - 1) PROVE (((tail + 1) % BufferCount) + i) % BufferCount = (tail + (i + 1)) % BufferCount
        <5>1. i + 1 \in 1..BufferCount /\ (i + 1) - 1 = i
          BY CountAssumption
        <5> QED
          BY <5>1, <1>t, TakesOne
      <4> QED
        BY <4>1, <3>1 DEF At
    <3>7. \A i \in 0..(w - 1) : Before(i)' = Before(i + 1)
      <4>1. Before(0)' = Before(1)
        BY <3>1, <3>2, <3>5 DEF Before
      <4>2. ASSUME NEW i \in 1..(w - 1) PROVE Before(i)' = Before(i + 1)
        <5>1. i - 1 \in 0..(w - 1) /\ (i - 1) + 1 = i /\ (i + 1) - 1 = i
          OBVIOUS
        <5>2. Before(i)' = block[queue[At(i - 1)']]
          BY <3>1 DEF Before
        <5>3. Before(i + 1) = block[queue[At(i)]]
          BY <5>1 DEF Before
        <5> QED
          BY <5>1, <5>2, <5>3, <3>6
      <4> QED
        BY <4>1, <4>2
    <3>8. LossesQueued => LossesQueued' /\ block[using'] = consumed + reported' + 1
      <4> SUFFICES ASSUME LossesQueued PROVE LossesQueued' /\ block[using'] = consumed + reported' + 1
        OBVIOUS
      <4>1. /\ \A i \in 0..(w - 1) : block[queue[At(i)]] = Before(i) + dropped_queue[At(i)] + 1
            /\ produced = Before(w) + dropped_buffers
        BY <3>3 DEF LossesQueued
      <4>2. ASSUME NEW i \in 0..(w - 2) PROVE block[queue[At(i)']] = Before(i)' + dropped_queue[At(i)'] + 1
        <5>1. i \in 0..(w - 1) /\ i + 1 \in 0..(w - 1)
          OBVIOUS
        <5> QED
          BY <5>1, <4>1, <3>6, <3>7
      <4>3. produced = Before(w - 1)' + dropped_buffers
        <5>1. w - 1 \in 0..(w - 1) /\ (w - 1) + 1 = w
          OBVIOUS
        <5> QED
          BY <5>1, <4>1, <3>7
      <4>4. LossesQueued'
        <5> HIDE DEF Waiting, At, Before
        <5>1. (w - 1) - 1 = w - 2
          OBVIOUS
        <5> QED
          BY <4>2, <4>3, <3>3, <3>1, <5>1 DEF LossesQueued
      <4>5. Before(0) = consumed
        BY <3>2 DEF Before
      <4>6. block[using'] = consumed + reported' + 1
        BY <4>1, <4>5, <3>1, <3>5
      <4> QED
        BY <4>4, <4>6
    <3> QED
      BY <3>1, <3>4, <3>8 DEF AccountInv, AccountKept, LossesReported
  <2>7. CASE ConsumerUses
    <3>1. /\ UNCHANGED <<received_buffer_count, using, tail, queue, block, dropped_queue,
                        dropped_buffers, produced, reported, forgotten, created>>
          /\ pc["consumer"] = "using"
          /\ pc' = [pc EXCEPT !["consumer"] = "used"]
          /\ consumed' = block[using]
          /\ (streaming' => streaming)
      BY <2>7 DEF ConsumerUses
    <3>2. Accounts' => Accounts
      BY <3>1 DEF Accounts
    <3>3. using # 0
      BY <3>1 DEF RingInv, UsingBeforeTail
    <3>4. Waiting' = Waiting /\ \A i \in Int : At(i)' = At(i) /\ Before(i)' = Before(i)
      BY <3>1, <3>3 DEF Waiting, At, Before
    <3>5. LossesQueued => LossesQueued'
      <4>1. PICK w \in Int : w = Waiting /\ w = Waiting'
        BY <1>w, <3>4
      <4> HIDE DEF Waiting, At, Before
      <4> QED
        BY <3>1, <3>4, <4>1 DEF LossesQueued
    <3> QED
      BY <3>1, <3>2, <3>5 DEF AccountInv, AccountKept, LossesReported
  <2>8. CASE ControlDone \/ (MainHandlesEvents /\ (driver = "airspyhf" => pc["main"] #
       "last_events"))
    <3>1. UNCHANGED <<received_buffer_count, using, tail, queue, block, dropped_queue,
                     dropped_buffers, produced, consumed, reported, forgotten>>
      BY <2>8 DEF ControlDone, Control, MainHandlesEvents
    <3>2. pc'["consumer"] \in {"using", "used"} => pc'["consumer"] = pc["consumer"]
      BY <2>8 DEF ControlDone, Control, MainHandlesEvents
    <3>3. Accounts' => Accounts
      BY <2>8 DEF ControlDone, Control, MainHandlesEvents, Accounts
    <3> QED
      BY <3>1, <3>2, <3>3, AccountFrame
  <2>9. CASE StartRx
    <3>1. /\ UNCHANGED <<streaming, created, using, block, consumed, reported>>
          /\ pc' = [pc EXCEPT !["main"] = "start_off"]
      BY <2>9 DEF StartRx
    <3>2. forgotten' = (forgotten \/ streaming)
      BY <2>9 DEF StartRx
    <3>3. Accounts' => forgotten'
      BY <3>1, <3>2 DEF Accounts
    <3>4. forgotten => forgotten'
      BY <3>2
    <3> QED
      BY <3>1, <3>3, <3>4 DEF AccountInv, AccountKept, LossesReported
  <2>10. CASE CreateBusy \/ (CreateBegins /\ created = {}) \/ PrepareTransfer \/
       PrepareFails
    <3>1. UNCHANGED <<received_buffer_count, using, tail, queue, block, dropped_queue,
                     dropped_buffers, produced, consumed, reported, forgotten>>
      BY <2>10 DEF CreateBusy, CreateBegins, PrepareTransfer, Submit, Usb!Accept,
           PrepareFails, SubmitFails
    <3>2. pc'["consumer"] \in {"using", "used"} => pc'["consumer"] = pc["consumer"]
      BY <2>10 DEF CreateBusy, CreateBegins, PrepareTransfer, Submit, Usb!Accept,
           PrepareFails, SubmitFails
    <3>3. Accounts' => Accounts
      BY <2>10 DEF CreateBusy, CreateBegins, PrepareTransfer, Submit, Usb!Accept,
           PrepareFails, SubmitFails, Accounts
    <3> QED
      BY <3>1, <3>2, <3>3, AccountFrame
  <2>11. CASE ResetRing
    <3>1. /\ tail' = 0 /\ received_buffer_count' = 0 /\ produced' = 0 /\ consumed' = 0
          /\ UNCHANGED <<using, dropped_buffers>>
      BY <2>11 DEF ResetRing
    <3>2. pc["consumer"] = "exited" /\ pc'["consumer"] = "exited"
      BY <2>11 DEF ResetRing, ThreadInv, ThreadsCreated
    <3>3. using' = 0
      BY <3>1, <3>2 DEF RingInv, UsingBeforeTail
    <3>4. Waiting' = 0 /\ Before(0)' = 0
      BY <3>1, <3>3 DEF Waiting, Before
    <3>5. ~forgotten' => dropped_buffers' = 0
      BY <2>11 DEF ResetRing, StaleLosses
    <3>6. ~forgotten' => LossesQueued'
      <4> HIDE DEF Waiting, At, Before
      <4> QED
        BY <3>1, <3>4, <3>5 DEF LossesQueued
    <3> QED
      BY <3>2, <3>6 DEF AccountInv, AccountKept, LossesReported
  <2>12. CASE CreateConsumer
    <3>1. UNCHANGED <<received_buffer_count, using, tail, queue, block, dropped_queue,
                     dropped_buffers, produced, consumed, reported, forgotten>>
      BY <2>12 DEF CreateConsumer
    <3>2. pc'["consumer"] \in {"using", "used"} => pc'["consumer"] = pc["consumer"]
      BY <2>12 DEF CreateConsumer
    <3>3. Accounts' => Accounts
      BY <2>12 DEF CreateConsumer, Accounts
    <3> QED
      BY <3>1, <3>2, <3>3, AccountFrame
  <2>13. CASE CreateIo \/ CreateThreadFails
    <3>1. UNCHANGED <<received_buffer_count, using, tail, queue, block, dropped_queue,
                     dropped_buffers, produced, consumed, reported, forgotten>>
      BY <2>13 DEF CreateIo, CreateThreadFails
    <3>2. pc'["consumer"] \in {"using", "used"} => pc'["consumer"] = pc["consumer"]
      BY <2>13 DEF CreateIo, CreateThreadFails
    <3>3. Accounts' => Accounts
      BY <2>13 DEF CreateIo, CreateThreadFails, Accounts
    <3> QED
      BY <3>1, <3>2, <3>3, AccountFrame
  <2>14. CASE StopRx \/ CancelTransfer \/ SignalConsumer \/ JoinIo \/ JoinConsumer \/
       LastEventsDone \/ Stopped
    <3>1. UNCHANGED <<received_buffer_count, using, tail, queue, block, dropped_queue,
                     dropped_buffers, produced, consumed, reported, forgotten>>
      BY <2>14 DEF StopRx, CancelTransfer, Cancel, Usb!Want, SignalConsumer, JoinIo,
           JoinConsumer, LastEventsDone, Stopped
    <3>2. pc'["consumer"] \in {"using", "used"} => pc'["consumer"] = pc["consumer"]
      BY <2>14 DEF StopRx, CancelTransfer, Cancel, Usb!Want, SignalConsumer, JoinIo,
           JoinConsumer, LastEventsDone, Stopped
    <3>3. Accounts' => Accounts
      BY <2>14 DEF StopRx, CancelTransfer, Cancel, Usb!Want, SignalConsumer, JoinIo,
           JoinConsumer, LastEventsDone, Stopped, Accounts
    <3> QED
      BY <3>1, <3>2, <3>3, AccountFrame
  <2>15. CASE \E t \in Transfer, outcome \in {"COMPLETED", "ERROR"} : KernelCompletes(t,
       outcome)
    <3>1. UNCHANGED <<received_buffer_count, using, tail, queue, block, dropped_queue,
                     dropped_buffers, produced, consumed, reported, forgotten>>
      BY <2>15 DEF KernelCompletes
    <3>2. pc'["consumer"] \in {"using", "used"} => pc'["consumer"] = pc["consumer"]
      BY <2>15 DEF KernelCompletes
    <3>3. Accounts' => Accounts
      BY <2>15 DEF KernelCompletes, Accounts
    <3> QED
      BY <3>1, <3>2, <3>3, AccountFrame
  <2>16. CASE UNCHANGED vars
    <3>1. UNCHANGED <<received_buffer_count, using, tail, queue, block, dropped_queue,
                     dropped_buffers, produced, consumed, reported, forgotten>>
      BY <2>16 DEF vars
    <3>2. pc'["consumer"] \in {"using", "used"} => pc'["consumer"] = pc["consumer"]
      BY <2>16 DEF vars
    <3>3. Accounts' => Accounts
      BY <2>16 DEF vars, Accounts
    <3> QED
      BY <3>1, <3>2, <3>3, AccountFrame
  <2> QED
    BY <1>1, <2>1, <2>2, <2>3, <2>4, <2>5, <2>6, <2>7, <2>8, <2>9, <2>10, <2>11, <2>12,
         <2>13, <2>14, <2>15, <2>16 DEF SharedStep
<1>2. CASE driver = "airspyhf" /\ HfOwnStep
  <2>1. CASE HfCallbackSubmit \/ HfCallbackCount \/ HfIoEventsDone \/ HfCreateOverOldThreads
    <3>1. UNCHANGED <<received_buffer_count, using, tail, queue, block, dropped_queue,
                     dropped_buffers, produced, consumed, reported, forgotten>>
      BY <2>1, <1>2 DEF HfCallbackSubmit, Submit, SubmitFails, Usb!Accept, HfCallbackCount,
           Counted, HfIoEventsDone, HfCreateOverOldThreads
    <3>2. pc'["consumer"] \in {"using", "used"} => pc'["consumer"] = pc["consumer"]
      BY <2>1, <1>2 DEF HfCallbackSubmit, Submit, SubmitFails, Usb!Accept, HfCallbackCount,
           Counted, HfIoEventsDone, HfCreateOverOldThreads
    <3>3. Accounts' => Accounts
      BY <2>1, <1>2 DEF HfCallbackSubmit, Submit, SubmitFails, Usb!Accept, HfCallbackCount,
           Counted, HfIoEventsDone, HfCreateOverOldThreads, Accounts
    <3> QED
      BY <3>1, <3>2, <3>3, AccountFrame
  <2>2. CASE HfCancelled \/ HfDrain \/ HfDrained \/ HfSignalConsumer \/ HfJoined
    <3>1. UNCHANGED <<received_buffer_count, using, tail, queue, block, dropped_queue,
                     dropped_buffers, produced, consumed, reported, forgotten>>
      BY <2>2, <1>2 DEF HfCancelled, HfDrain, Draining, HfDrained, HfSignalConsumer, HfJoined
    <3>2. pc'["consumer"] \in {"using", "used"} => pc'["consumer"] = pc["consumer"]
      BY <2>2, <1>2 DEF HfCancelled, HfDrain, Draining, HfDrained, HfSignalConsumer, HfJoined
    <3>3. Accounts' => Accounts
      BY <2>2, <1>2 DEF HfCancelled, HfDrain, Draining, HfDrained, HfSignalConsumer, HfJoined,
           Accounts
    <3> QED
      BY <3>1, <3>2, <3>3, AccountFrame
  <2> QED
    BY <1>2, <2>1, <2>2 DEF HfOwnStep
<1>3. CASE driver = "hydrasdr" /\ HydraOwnStep
  <2>1. CASE HydraCallbackCheck \/ HydraCallbackSubmit \/ HydraIoLoop \/ HydraIoEventsDone
    <3>1. UNCHANGED <<received_buffer_count, using, tail, queue, block, dropped_queue,
                     dropped_buffers, produced, consumed, reported, forgotten>>
      BY <2>1, <1>3 DEF HydraCallbackCheck, Usb!Call, HydraCallbackSubmit, Submit,
           SubmitFails, Usb!Accept, HydraIoLoop, HydraIoEventsDone
    <3>2. pc'["consumer"] \in {"using", "used"} => pc'["consumer"] = pc["consumer"]
      BY <2>1, <1>3 DEF HydraCallbackCheck, Usb!Call, HydraCallbackSubmit, Submit,
           SubmitFails, Usb!Accept, HydraIoLoop, HydraIoEventsDone
    <3>3. Accounts' => Accounts
      BY <2>1, <1>3 DEF HydraCallbackCheck, Usb!Call, HydraCallbackSubmit, Submit,
           SubmitFails, Usb!Accept, HydraIoLoop, HydraIoEventsDone, Accounts
    <3> QED
      BY <3>1, <3>2, <3>3, AccountFrame
  <2>2. CASE HydraConsumerExits \/ HydraCreateOverOldThreads
    <3>1. UNCHANGED <<received_buffer_count, using, tail, queue, block, dropped_queue,
                     dropped_buffers, produced, consumed, reported, forgotten>>
      BY <2>2, <1>3 DEF HydraConsumerExits, HydraCreateOverOldThreads
    <3>2. pc'["consumer"] \in {"using", "used"} => pc'["consumer"] = pc["consumer"]
      BY <2>2, <1>3 DEF HydraConsumerExits, HydraCreateOverOldThreads
    <3>3. Accounts' => Accounts
      BY <2>2, <1>3 DEF HydraConsumerExits, HydraCreateOverOldThreads, Accounts
    <3> QED
      BY <3>1, <3>2, <3>3, AccountFrame
  <2>3. CASE HydraConsumerUses
    <3>1. /\ UNCHANGED <<received_buffer_count, using, tail, queue, block, dropped_queue,
                        dropped_buffers, produced, reported, forgotten, created>>
          /\ pc["consumer"] = "using"
          /\ pc' = [pc EXCEPT !["consumer"] = "used"]
          /\ consumed' = block[using]
          /\ (streaming' => streaming)
      BY <2>3, <1>3 DEF HydraConsumerUses
    <3>2. Accounts' => Accounts
      BY <3>1 DEF Accounts
    <3>3. using # 0
      BY <3>1 DEF RingInv, UsingBeforeTail
    <3>4. Waiting' = Waiting /\ \A i \in Int : At(i)' = At(i) /\ Before(i)' = Before(i)
      BY <3>1, <3>3 DEF Waiting, At, Before
    <3>5. LossesQueued => LossesQueued'
      <4>1. PICK w \in Int : w = Waiting /\ w = Waiting'
        BY <1>w, <3>4
      <4> HIDE DEF Waiting, At, Before
      <4> QED
        BY <3>1, <3>4, <4>1 DEF LossesQueued
    <3> QED
      BY <3>1, <3>2, <3>5 DEF AccountInv, AccountKept, LossesReported
  <2>4. CASE HydraStop \/ HydraStopControlDone \/ HydraClearRequest \/ HydraClearStreaming
    <3>1. UNCHANGED <<received_buffer_count, using, tail, queue, block, dropped_queue,
                     dropped_buffers, produced, consumed, reported, forgotten>>
      BY <2>4, <1>3 DEF HydraStop, HydraStopControlDone, HydraClearRequest, HydraClearStreaming
    <3>2. pc'["consumer"] \in {"using", "used"} => pc'["consumer"] = pc["consumer"]
      BY <2>4, <1>3 DEF HydraStop, HydraStopControlDone, HydraClearRequest, HydraClearStreaming
    <3>3. Accounts' => Accounts
      BY <2>4, <1>3 DEF HydraStop, HydraStopControlDone, HydraClearRequest,
           HydraClearStreaming, Accounts
    <3> QED
      BY <3>1, <3>2, <3>3, AccountFrame
  <2>5. CASE HydraLastEventsDone \/ HydraMainHandlesEvents
    <3>1. UNCHANGED <<received_buffer_count, using, tail, queue, block, dropped_queue,
                     dropped_buffers, produced, consumed, reported, forgotten>>
      BY <2>5, <1>3 DEF HydraLastEventsDone, HydraMainHandlesEvents, Control
    <3>2. pc'["consumer"] \in {"using", "used"} => pc'["consumer"] = pc["consumer"]
      BY <2>5, <1>3 DEF HydraLastEventsDone, HydraMainHandlesEvents, Control
    <3>3. Accounts' => Accounts
      BY <2>5, <1>3 DEF HydraLastEventsDone, HydraMainHandlesEvents, Control, Accounts
    <3> QED
      BY <3>1, <3>2, <3>3, AccountFrame
  <2> QED
    BY <1>3, <2>1, <2>2, <2>3, <2>4, <2>5 DEF HydraOwnStep
<1> QED
  BY <1>1, <1>2, <1>3 DEF Step

-----------------------------------------------------------------------------
(* The transfers libairspyhf counts *)

\* The transfers libusb has, counted.
LEMMA ActiveCount ==
  ASSUME TypeOK, active \in [Transfer -> BOOLEAN]
  PROVE  IsFiniteSet(Active) /\ Cardinality(Active) \in Nat
<1>1. IsFiniteSet(Transfer)
  BY CountAssumption, FS_Interval DEF Transfer
<1>2. Active \in SUBSET Transfer
  BY DEF Active
<1> QED
  BY <1>1, <1>2, FS_Subset, FS_CardinalityType

\* An accepted submission adds a transfer to them.
LEMMA Accepted ==
  ASSUME TypeOK, active \in [Transfer -> BOOLEAN], NEW t \in Transfer, Usb!Accept(t)
  PROVE  Cardinality(Active') = Cardinality(Active) + 1
<1>1. Active' = Active \cup {t} /\ t \notin Active
  BY DEF Active, Usb!Accept
<1> QED
  BY <1>1, ActiveCount, FS_AddElement

\* A retired transfer is no longer counted.
LEMMA Retired ==
  ASSUME TypeOK, active \in [Transfer -> BOOLEAN], NEW t \in Transfer, active[t],
         active' = [active EXCEPT ![t] = FALSE]
  PROVE  Cardinality(Active') = Cardinality(Active) - 1
<1>1. Active' = Active \ {t} /\ t \in Active
  BY DEF Active
<1> QED
  BY <1>1, ActiveCount, FS_RemoveElement

\* TransfersCounted in these terms.
LEMMA LiveIs ==
  ASSUME driver = "airspyhf"
  PROVE  TransfersCounted <=> transfer_live = Cardinality(Active) + InCallback(callback)
  BY DEF TransfersCounted, LiveCountExact, Active, InCallback

\* libairspyhf counts the transfers libusb has.
LEMMA LiveStep == ASSUME IInv, TransfersCounted, MCNext PROVE TransfersCounted'
<1> USE DEF Goto, flagVars, ringVars, lockVars, usbVars, callbackVars, threadVars, historyVars,
         restVars, Counted, Uncounted
<1>t. /\ TypeOK
      /\ active \in [Transfer -> BOOLEAN] /\ current \in Transfer /\ Cardinality(Active) \in Nat
  BY ActiveCount DEF IInv, TypeOK
<1>d. driver' = driver
  BY DEF MCNext, Airspy, AirspyHf, Hydrasdr
<1>1. CASE driver # "airspyhf"
  BY <1>1, <1>d DEF TransfersCounted
<1>2. CASE driver = "airspyhf"
  <2>1. HfNext /\ transfer_live = Cardinality(Active) + InCallback(callback)
    BY <1>2, LiveIs DEF MCNext, Airspy, AirspyHf, Hydrasdr
  <2>2. (transfer_live = Cardinality(Active) + InCallback(callback))' => TransfersCounted'
    <3>1. driver' = "airspyhf"
      BY <1>2, <1>d
    <3> QED
      BY <3>1 DEF TransfersCounted, LiveCountExact, Active, InCallback
  <2> HIDE DEF Active
  <2>3. SUFFICES transfer_live' = Cardinality(Active') + InCallback(callback')
    BY <2>2 DEF InCallback
  <2>4. ASSUME UNCHANGED active PROVE Active' = Active
    BY <2>4 DEF Active
  <2>5. ASSUME UNCHANGED <<active, transfer_live, callback>>
        PROVE  transfer_live' = Cardinality(Active') + InCallback(callback')
    BY <2>1, <2>4, <2>5
  <2>6. CASE HfCallbackCheck
    <3>1. /\ UNCHANGED active
          /\ callback = "check"
          /\ callback' \in {"none", "queue"}
          /\ transfer_live' = transfer_live + -1
      BY <2>6 DEF HfCallbackCheck, CallbackCheck, Usb!Call
    <3> QED
      BY <1>t, <2>1, <2>4, <3>1 DEF InCallback
  <2>7. CASE HfCallbackQueue
    <3>1. UNCHANGED <<active, transfer_live>> /\ callback = "queue" /\ callback' = "submit"
      BY <2>7 DEF HfCallbackQueue, CallbackQueue
    <3> QED
      BY <1>t, <2>1, <2>4, <3>1 DEF InCallback
  <2>8. CASE HfCallbackSubmit
    <3>1. callback = "submit" /\ UNCHANGED transfer_live
      BY <2>8 DEF HfCallbackSubmit
    <3>2. CASE Submit(current) /\ callback' = "count"
      BY <1>t, <2>1, <3>1, <3>2, Accepted DEF InCallback, Submit
    <3>3. CASE UNCHANGED active /\ callback' = "none"
      BY <1>t, <2>1, <2>4, <3>1, <3>3 DEF InCallback
    <3> QED
      BY <2>8, <3>2, <3>3 DEF HfCallbackSubmit, SubmitFails
  <2>9. CASE HfCallbackCount
    <3>1. /\ UNCHANGED active
          /\ callback = "count"
          /\ callback' = "none"
          /\ transfer_live' = transfer_live + 1
      BY <2>9 DEF HfCallbackCount
    <3> QED
      BY <1>t, <2>1, <2>4, <3>1 DEF InCallback
  <2>10. CASE (\E t \in Transfer : HandleEvent(t)) /\ Uncounted
    <3>1. PICK t \in Transfer : HandleEvent(t)
      BY <2>10
    <3>2. /\ active[t] /\ active' = [active EXCEPT ![t] = FALSE]
          /\ callback = "none" /\ callback' = "check" /\ UNCHANGED transfer_live
      BY <2>10, <3>1 DEF HandleEvent, Usb!Retire
    <3>3. Cardinality(Active') = Cardinality(Active) - 1
      BY <1>t, <3>2, Retired
    <3> QED
      BY <1>t, <2>1, <3>2, <3>3 DEF InCallback
  <2>11. CASE HfPrepareTransfer
    <3>1. /\ next \in Transfer
          /\ Usb!Accept(next)
          /\ UNCHANGED callback
          /\ transfer_live' = transfer_live + 1
      BY <1>t, <2>11, CountAssumption DEF HfPrepareTransfer, PrepareTransfer, Submit, TypeOK,
           Transfer
    <3>2. InCallback(callback) \in Int
      BY DEF InCallback
    <3> QED
      BY <1>t, <2>1, <3>1, <3>2, Accepted
  <2>12. CASE HfIoStep
    BY <2>5, <2>12 DEF HfIoStep, HfIoLoop, IoLoop, HfIoEventsDone
  <2>13. CASE HfConsumerStep
    BY <2>5, <2>13 DEF HfConsumerStep, ConsumerStep, ConsumerLock, ConsumerExits, ConsumerEmpty,
       ConsumerSleeps, ConsumerWakes, ConsumerTakes, ConsumerUses
  <2>14. CASE HfControlDone \/ HfPrepareFails \/ HfCreate
    BY <2>5, <2>14 DEF HfControlDone, ControlDone, HfPrepareFails, PrepareFails, SubmitFails,
         HfCreate,
       CreateBusy, CreateBegins, HfCreateOverOldThreads, ResetRing, CreateConsumer, CreateIo,
       CreateThreadFails
  <2>15. CASE HfCancelTransfer \/ HfCancelled \/ HfDrain \/ HfDrained \/ HfSignalConsumer
    BY <2>5, <2>15 DEF HfCancelTransfer, CancelTransfer, Cancel, Usb!Want, HfCancelled, HfDrain,
       HfDrained, HfSignalConsumer
  <2>16. CASE HfJoin \/ HfJoined \/ HfStopped \/ HfMainHandlesEvents \/ HfStart \/ HfStop
    BY <2>5, <2>16 DEF HfJoin, JoinIo, JoinConsumer, HfJoined, HfStopped, Stopped,
       HfMainHandlesEvents, MainHandlesEvents, HfStart, StartRx, HfStop, StopRx
  <2>17. CASE (\E t \in Transfer, outcome \in {"COMPLETED", "ERROR"} : KernelCompletes(t, outcome)) /\ Uncounted
    BY <2>5, <2>17 DEF KernelCompletes
  <2>18. CASE UNCHANGED hfVars
    BY <2>5, <2>18 DEF hfVars, vars
  <2> QED
    BY <2>1, <2>6, <2>7, <2>8, <2>9, <2>10, <2>11, <2>12, <2>13, <2>14, <2>15, <2>16, <2>17,
         <2>18
    DEF HfNext, HfEventStep, HfMainStep
<1> QED
  BY <1>1, <1>2

-----------------------------------------------------------------------------
(* The invariant and what follows from it *)

\* The first state.
LEMMA InitInv == ASSUME MCInit PROVE IInv /\ TransfersCounted
<1> USE DEF MCInit, HfInit, Init
<1>1. TypeOK /\ active \in [Transfer -> BOOLEAN]
  <2>1. /\ queue \in [Slot -> Buffer] /\ buffer \in [Transfer -> Buffer]
        /\ head \in Slot /\ tail \in Slot
    BY CountAssumption DEF Slot, Buffer, Transfer
  <2>2. /\ current \in Transfer
        /\ next \in 1..(TransferCount + 1)
        /\ received_buffer_count \in 0..BufferCount
    BY CountAssumption DEF Transfer
  <2>3. pc \in [Thread -> Label]
    BY DEF Thread, Label
  <2>4. calls \in 0..MaxCalls
    BY BoundAssumption
  <2>5. active \in [Transfer -> BOOLEAN]
    BY DEF Usb!Init
  <2> QED
    BY <2>1, <2>2, <2>3, <2>4, <2>5 DEF TypeOK, NoOne
<1>2. ThreadInv
  <2>1. pc["io"] = "exited" /\ pc["consumer"] = "exited" /\ pc["main"] = "idle"
    OBVIOUS
  <2>2. handler = "no one" /\ callback = "none" /\ created = {}
    BY DEF NoOne
  <2> HIDE DEF MCInit, HfInit, Init
  <2> QED
    BY <2>1, <2>2 DEF ThreadInv, HandlerRuns, ThreadsCreated, CallbackStays, NoOne,
         MainHandles, Control
<1>3. RingInv
  <2>1. EachBufferOnce
    BY CountAssumption DEF EachBufferOnce, Slot, Transfer
  <2>2. Waiting = 0 /\ At(0) = 0
    BY CountAssumption DEF Waiting, At
  <2> QED
    BY <2>1, <2>2 DEF RingInv, RingHolds, UsingBeforeTail
<1>4. AccountInv
  BY DEF AccountInv, AccountKept, Accounts, LossesReported
<1>5. TransfersCounted
  <2>1. Active = {}
    BY DEF Active, Usb!Init
  <2>2. Cardinality(Active) = 0
    BY <2>1, FS_EmptySet
  <2> QED
    BY <2>2 DEF TransfersCounted, LiveCountExact, Active
<1> QED
  BY <1>1, <1>2, <1>3, <1>4, <1>5 DEF IInv

\* The invariant holds of every driver.
LEMMA Invariance == MCSpec => []IInv
<1>1. MCInit => IInv
  BY InitInv
<1>2. IInv /\ [MCNext]_mcVars => IInv'
  <2> SUFFICES ASSUME IInv, [MCNext]_mcVars PROVE IInv'
    OBVIOUS
  <2>1. CASE MCNext
    BY <2>1, DriverSteps, TypeStep, ThreadsStep, RingStep, AccountStep DEF IInv
  <2>2. CASE UNCHANGED mcVars
    <3>1. Step
      BY <2>2 DEF Step, SharedStep, mcVars, hfVars
    <3> QED
      BY <3>1, TypeStep, ThreadsStep, RingStep, AccountStep DEF IInv
  <2> QED
    BY <2>1, <2>2
<1> QED
  BY <1>1, <1>2, PTL DEF MCSpec

\* No index leaves the ring, no count of it goes below zero or past its size, and every
\* thread is at a place of the code.
THEOREM TypeCorrect == MCSpec => []TypeOK
<1>1. IInv => TypeOK
  BY DEF IInv
<1> QED
  BY <1>1, Invariance, PTL

\* The buffer the program reads is not one a transfer writes to, whatever the callback,
\* the consumer and the program's thread do meanwhile.
THEOREM BufferKept == MCSpec => []BufferNotOverwritten
<1>1. IInv => BufferNotOverwritten
  <2> SUFFICES ASSUME IInv PROVE BufferNotOverwritten
    OBVIOUS
  <2>1. EachBufferOnce /\ UsingBeforeTail
    BY DEF IInv, RingInv
  <2>2. ASSUME using # 0, NEW t \in Transfer PROVE buffer[t] # using
    BY <2>1, <2>2 DEF EachBufferOnce, UsingBeforeTail
  <2> QED
    BY <2>1, <2>2 DEF BufferNotOverwritten, EachBufferOnce
<1> QED
  BY <1>1, Invariance, PTL

\* The two ends of the ring and the number of buffers in it agree.
THEOREM RingKept == MCSpec => []RingConsistent
<1>1. IInv => RingConsistent
  BY DEF IInv, RingInv, RingHolds, Waiting, At, RingConsistent
<1> QED
  BY <1>1, Invariance, PTL

\* The program is told of every block it missed, with the block that follows it.
THEOREM LossesTold == MCSpec => []LossesReported
<1>1. IInv => LossesReported
  BY DEF IInv, AccountInv
<1> QED
  BY <1>1, Invariance, PTL

\* Between streams no thread runs and no callback is past its test.
THEOREM StreamsEnd == MCSpec => []NoThreadOutlivesStream
<1>1. IInv => NoThreadOutlivesStream
  <2> SUFFICES ASSUME IInv, ~streaming, driver # "airspy" => created = {}
               PROVE  /\ pc["io"] = "exited" /\ pc["consumer"] = "exited"
                      /\ callback \notin {"queue", "submit", "count"}
    BY DEF NoThreadOutlivesStream
  <2>1. created = {}
    BY DEF IInv, ThreadInv, ThreadsCreated
  <2> QED
    BY <2>1 DEF IInv, ThreadInv, ThreadsCreated, CallbackStays
<1> QED
  BY <1>1, Invariance, PTL

\* transfer_live of libairspyhf, which no lock protects, counts the transfers libusb has.
THEOREM LiveKept == MCSpec => []TransfersCounted
<1>1. MCInit => TransfersCounted
  BY InitInv
<1>2. IInv /\ TransfersCounted /\ [MCNext]_mcVars => TransfersCounted'
  <2>1. ASSUME TransfersCounted, UNCHANGED mcVars PROVE TransfersCounted'
    BY <2>1 DEF mcVars, hfVars, vars, usbVars, callbackVars, TransfersCounted, LiveCountExact
  <2> QED
    BY <2>1, LiveStep
<1> QED
  BY <1>1, <1>2, Invariance, PTL DEF MCSpec
=============================================================================
