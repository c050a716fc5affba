---------------------------- MODULE AirspyStream ----------------------------
(***************************************************************************)
(* Streaming in libairspy: airspy_start_rx and airspy_stop_rx in the       *)
(* program's thread, the transfer thread that handles libusb's events and  *)
(* runs the transfer callback, the consumer thread that hands blocks to    *)
(* the program, and the ring of RAW_BUFFER_COUNT buffers between the two.  *)
(* libusb is the TransferContract that UsbTransfer implements, plus the    *)
(* kernel's side of a transfer (done).                                     *)
(***************************************************************************)
EXTENDS Integers, FiniteSets

CONSTANTS
  TransferCount,   \* transfer_count
  BufferCount,     \* RAW_BUFFER_COUNT, a power of two
  CanFail,         \* whether submissions and thread creation may fail
  MaxBlocks,       \* bound on the blocks the device delivers
  MaxCalls         \* bound on the calls of the program

ASSUME CountAssumption == TransferCount \in Nat \ {0} /\ BufferCount \in Nat \ {0}
ASSUME FailAssumption == CanFail \in BOOLEAN
ASSUME BoundAssumption == MaxBlocks \in Nat /\ MaxCalls \in Nat

Transfer == 1..TransferCount
Slot == 0..(BufferCount - 1)
Buffer == 1..(TransferCount + BufferCount)
Thread == {"main", "io", "consumer"}
NoOne == "no one"

\* The places of the threads, in libairspy and in its descendants.
Label == {"idle", "start_off", "start_rx", "create", "prepare", "create_consumer",
          "create_io", "cancel", "join_io", "join_consumer", "last_events", "stopped",
          "stop_off", "loop", "events", "start", "check", "wait", "asleep", "woken",
          "using", "used", "exited",
          "drain", "draining", "stop_first", "kill", "clear", "doubled"}

VARIABLES
  streaming, stop_requested,
  consumer_mp, sleeping,           \* the mutex, and whether the consumer waits on the cv
  head, tail, received_buffer_count,
  queue, dropped_queue,            \* received_samples_queue, dropped_buffers_queue
  dropped_buffers,
  buffer,                          \* buffer[t]: usb_transfer->buffer
  active, wants, due,              \* libusb: the contract
  done,                            \* done[t]: the outcome the kernel has for t
  handler,                         \* the thread handling events
  callback,                        \* where the transfer callback is, and for which
  current,                         \*   transfer
  pc, next,                        \* threads; the transfer main's loop is at
  using,                           \* the buffer in the consumer's hands
  created,                         \* threads created and not joined
  block,                           \* block[b]: number of the block buffer b holds
  produced, consumed, reported,    \* blocks taken by the callback, the last one the
                                   \*   program got, the losses it was told with it
  forgotten,                       \* the losses were cleared, or are not this stream's
  calls

usbVars == <<active, wants, due, done>>
flagVars == <<streaming, stop_requested>>
ringVars == <<head, tail, received_buffer_count, queue, dropped_queue, dropped_buffers, buffer>>
lockVars == <<consumer_mp, sleeping>>
callbackVars == <<handler, callback, current>>
threadVars == <<next, using, created>>
historyVars == <<block, produced, consumed, reported, forgotten>>
restVars == <<threadVars, historyVars, calls>>
vars == <<flagVars, ringVars, lockVars, usbVars, callbackVars, pc, restVars>>

Usb == INSTANCE TransferContract

Init ==
  /\ streaming = FALSE /\ stop_requested = FALSE
  /\ consumer_mp = NoOne /\ sleeping = FALSE
  /\ head = 0 /\ tail = 0 /\ received_buffer_count = 0
  /\ queue = [s \in Slot |-> TransferCount + s + 1]
  /\ dropped_queue = [s \in Slot |-> 0] /\ dropped_buffers = 0
  /\ buffer = [t \in Transfer |-> t]
  /\ Usb!Init /\ done = [t \in Transfer |-> "none"]
  /\ handler = NoOne /\ callback = "none" /\ current = 1
  /\ pc = [main |-> "idle", io |-> "exited", consumer |-> "exited"]
  /\ next = 1
  /\ using = 0
  /\ created = {}
  /\ block = [b \in Buffer |-> 0]
  /\ produced = 0 /\ consumed = 0 /\ reported = 0 /\ forgotten = FALSE
  /\ calls = 0

Goto(th, label) == pc' = [pc EXCEPT ![th] = label]
-----------------------------------------------------------------------------
(* libusb *)

\* libusb_submit_transfer: BUSY while in flight; it may fail for other reasons.
Submit(t) == Usb!Accept(t) /\ UNCHANGED done
SubmitFails(t) == (active[t] \/ CanFail) /\ UNCHANGED usbVars

\* libusb_cancel_transfer: the URBs are discarded, unless t is already done.
Cancel(t) ==
  IF active[t] /\ done[t] = "none"
  THEN Usb!Want(t, "user") /\ done' = [done EXCEPT ![t] = "CANCELLED"]
  ELSE UNCHANGED usbVars

\* The device fills the transfer, or the transfer fails or comes up short.
KernelCompletes(t, outcome) ==
  /\ active[t] /\ done[t] = "none"
  /\ outcome = "COMPLETED" => produced < MaxBlocks
  /\ done' = [done EXCEPT ![t] = outcome]
  /\ UNCHANGED <<active, wants, due, flagVars, ringVars, lockVars, callbackVars, pc,
                 restVars>>

\* The event handler reaps a transfer.
HandleEvent(t) ==
  /\ handler # NoOne /\ callback = "none" /\ done[t] # "none"
  /\ Usb!Retire(t, done[t])
  /\ done' = [done EXCEPT ![t] = "none"]
  /\ callback' = "check" /\ current' = t
  /\ UNCHANGED <<flagVars, ringVars, lockVars, handler, pc, restVars>>
-----------------------------------------------------------------------------
(* airspy_libusb_transfer_callback *)

\* Not streaming: the transfer is not resubmitted.  Failed: stop.
CallbackCheck ==
  /\ callback = "check"
  /\ Usb!Call /\ UNCHANGED done
  /\ \/ /\ ~streaming \/ stop_requested
        /\ callback' = "none" /\ UNCHANGED stop_requested
     \/ /\ streaming /\ ~stop_requested /\ due.outcome = "COMPLETED"
        /\ callback' = "queue" /\ UNCHANGED stop_requested
     \/ /\ streaming /\ ~stop_requested /\ due.outcome # "COMPLETED"
        /\ callback' = "none" /\ stop_requested' = TRUE
  /\ UNCHANGED <<streaming, ringVars, lockVars, handler, current, pc, restVars>>

\* Mutants: one block too many; the consumer is not told.
RingHasRoomForOneMore == received_buffer_count <= BufferCount
SignalLost == UNCHANGED sleeping

RingHasRoom == received_buffer_count < BufferCount
SignalBlock == sleeping' = FALSE

\* Swap the filled buffer into the ring and wake the consumer, or drop the block.
CallbackQueue ==
  /\ callback = "queue" /\ consumer_mp = NoOne
  /\ produced' = produced + 1
  /\ IF RingHasRoom
     THEN /\ queue' = [queue EXCEPT ![head] = buffer[current]]
          /\ buffer' = [buffer EXCEPT ![current] = queue[head]]
          /\ dropped_queue' = [dropped_queue EXCEPT ![head] = dropped_buffers]
          /\ dropped_buffers' = 0
          /\ head' = (head + 1) % BufferCount
          /\ received_buffer_count' = received_buffer_count + 1
          /\ SignalBlock
          /\ block' = [block EXCEPT ![buffer[current]] = produced']
     ELSE /\ dropped_buffers' = dropped_buffers + 1
          /\ UNCHANGED <<queue, buffer, dropped_queue, head, received_buffer_count,
                         sleeping, block>>
  /\ callback' = "submit"
  /\ UNCHANGED <<flagVars, tail, consumer_mp, usbVars, handler, current, pc, threadVars,
                 consumed, reported, forgotten, calls>>

CallbackSubmit ==
  /\ callback = "submit"
  /\ \/ Submit(current) /\ UNCHANGED stop_requested
     \/ SubmitFails(current) /\ stop_requested' = TRUE
  /\ callback' = "none"
  /\ UNCHANGED <<streaming, ringVars, lockVars, handler, current, pc, restVars>>
-----------------------------------------------------------------------------
(* transfer_threadproc *)

\* Mutant: the loop does not look at the request to stop.
IoLoopForever ==
  /\ pc["io"] = "loop"
  /\ handler = NoOne /\ handler' = "io" /\ Goto("io", "events")
  /\ UNCHANGED <<flagVars, ringVars, lockVars, usbVars, callback, current, restVars>>

\* while (streaming && !stop_requested)
IoLoop ==
  /\ pc["io"] = "loop"
  /\ IF streaming /\ ~stop_requested
     THEN handler = NoOne /\ handler' = "io" /\ Goto("io", "events")
     ELSE UNCHANGED handler /\ Goto("io", "exited")
  /\ UNCHANGED <<flagVars, ringVars, lockVars, usbVars, callback, current, restVars>>

\* libusb_handle_events_timeout_completed returns with nothing left to reap, or
\* fails and stops the stream.
IoEventsDone ==
  /\ pc["io"] = "events" /\ callback = "none"
  /\ \/ (\A t \in Transfer : done[t] = "none") /\ UNCHANGED stop_requested
     \/ CanFail /\ stop_requested' = TRUE
  /\ handler' = NoOne
  /\ Goto("io", "loop")
  /\ UNCHANGED <<streaming, ringVars, lockVars, usbVars, callback, current, restVars>>
-----------------------------------------------------------------------------
(* consumer_threadproc *)

\* Lock the mutex, having given a used buffer back to the ring.
ConsumerLock ==
  /\ pc["consumer"] \in {"start", "used", "woken"} /\ consumer_mp = NoOne
  /\ consumer_mp' = "consumer"
  /\ IF pc["consumer"] = "used"
     THEN received_buffer_count' = received_buffer_count - 1 /\ using' = 0
     ELSE UNCHANGED <<received_buffer_count, using>>
  /\ Goto("consumer", "check")
  /\ UNCHANGED <<flagVars, head, tail, queue, dropped_queue, dropped_buffers, buffer,
                 sleeping, usbVars, callbackVars, next, created, historyVars, calls>>

ConsumerExits ==
  /\ pc["consumer"] = "check" /\ (~streaming \/ stop_requested)
  /\ consumer_mp' = NoOne
  /\ Goto("consumer", "exited")
  /\ UNCHANGED <<flagVars, ringVars, sleeping, usbVars, callbackVars, restVars>>

\* Nothing to consume: the condition is read first, the wait begins afterwards.
ConsumerEmpty ==
  /\ pc["consumer"] = "check" /\ streaming /\ ~stop_requested /\ received_buffer_count = 0
  /\ Goto("consumer", "wait")
  /\ UNCHANGED <<flagVars, ringVars, lockVars, usbVars, callbackVars, restVars>>

ConsumerSleeps ==
  /\ pc["consumer"] = "wait"
  /\ consumer_mp' = NoOne /\ sleeping' = TRUE
  /\ Goto("consumer", "asleep")
  /\ UNCHANGED <<flagVars, ringVars, usbVars, callbackVars, restVars>>

ConsumerWakes ==
  /\ pc["consumer"] = "asleep" /\ ~sleeping
  /\ Goto("consumer", "woken")
  /\ UNCHANGED <<flagVars, ringVars, lockVars, usbVars, callbackVars, restVars>>

\* Mutant: the losses so far instead of those before the block.
LossesNow == dropped_buffers

LossesBefore == dropped_queue[tail]

\* Take the oldest block, which stays counted until it has been used.
ConsumerTakes ==
  /\ pc["consumer"] = "check" /\ streaming /\ ~stop_requested /\ received_buffer_count > 0
  /\ using' = queue[tail]
  /\ reported' = LossesBefore
  /\ tail' = (tail + 1) % BufferCount
  /\ consumer_mp' = NoOne
  /\ Goto("consumer", "using")
  /\ UNCHANGED <<flagVars, head, received_buffer_count, queue, dropped_queue,
                 dropped_buffers, buffer, sleeping, usbVars, callbackVars, next, created,
                 block, produced, consumed, forgotten, calls>>

\* The program's callback returns, and may ask for the stream to stop.
ConsumerUses ==
  /\ pc["consumer"] = "using"
  /\ \/ UNCHANGED stop_requested
     \/ stop_requested' = TRUE
  /\ consumed' = block[using]
  /\ Goto("consumer", "used")
  /\ UNCHANGED <<streaming, ringVars, lockVars, usbVars, callbackVars, threadVars, block,
                 produced, reported, forgotten, calls>>
-----------------------------------------------------------------------------
(* Control transfers of the program's thread handle events while they wait. *)

Control == {"start_off", "start_rx", "stop_off"}

MainHandlesEvents ==
  /\ pc["main"] \in Control \cup {"last_events"} /\ handler = NoOne
  /\ handler' = "main"
  /\ UNCHANGED <<flagVars, ringVars, lockVars, usbVars, callback, current, pc, restVars>>

\* airspy_set_receiver_mode returns, successfully or not.
ControlDone ==
  /\ pc["main"] \in Control /\ (handler = "main" => callback = "none")
  /\ handler' = IF handler = "main" THEN NoOne ELSE handler
  /\ \/ Goto("main", CASE pc["main"] = "start_off" -> "start_rx"
                       [] pc["main"] = "start_rx"  -> "create"
                       [] pc["main"] = "stop_off"  -> "idle")
     \/ CanFail /\ Goto("main", "idle")
  /\ UNCHANGED <<flagVars, ringVars, lockVars, usbVars, callback, current, restVars>>
-----------------------------------------------------------------------------
(* airspy_start_rx and create_io_threads *)

StartRx ==
  /\ pc["main"] = "idle" /\ calls < MaxCalls
  /\ calls' = calls + 1
  /\ dropped_queue' = [s \in Slot |-> 0] /\ dropped_buffers' = 0
  /\ forgotten' = (forgotten \/ streaming)
  /\ Goto("main", "start_off")
  /\ UNCHANGED <<flagVars, head, tail, received_buffer_count, queue, buffer, lockVars,
                 usbVars, callbackVars, threadVars, block, produced, consumed, reported>>

CreateBusy ==
  /\ pc["main"] = "create" /\ (streaming \/ stop_requested)
  /\ Goto("main", "idle")
  /\ UNCHANGED <<flagVars, ringVars, lockVars, usbVars, callbackVars, restVars>>

CreateBegins ==
  /\ pc["main"] = "create" /\ ~streaming /\ ~stop_requested
  /\ streaming' = TRUE
  /\ next' = 1
  /\ Goto("main", "prepare")
  /\ UNCHANGED <<stop_requested, ringVars, lockVars, usbVars, callbackVars, using,
                 created, historyVars, calls>>

\* prepare_transfers
PrepareTransfer ==
  /\ pc["main"] = "prepare" /\ next <= TransferCount
  /\ Submit(next)
  /\ next' = next + 1
  /\ UNCHANGED <<flagVars, ringVars, lockVars, callbackVars, pc, using, created,
                 historyVars, calls>>

PrepareFails ==
  /\ pc["main"] = "prepare" /\ next <= TransferCount
  /\ SubmitFails(next)
  /\ Goto("main", "idle")
  /\ UNCHANGED <<flagVars, ringVars, lockVars, callbackVars, restVars>>

\* Losses that callbacks have counted since airspy_start_rx cleared them, for a stream
\* that had not begun.
StaleLosses == dropped_buffers # 0 \/ \E s \in Slot : dropped_queue[s] # 0

\* Mutant: the count of the last stream stays.
ResetRingKeepsCount ==
  /\ pc["main"] = "prepare" /\ next > TransferCount
  /\ head' = 0 /\ tail' = 0
  /\ produced' = 0 /\ consumed' = 0 /\ reported' = 0 /\ forgotten' = StaleLosses
  /\ Goto("main", "create_consumer")
  /\ UNCHANGED <<flagVars, received_buffer_count, queue, dropped_queue, dropped_buffers,
                 buffer, lockVars, usbVars, callbackVars, threadVars, block, calls>>

\* The ring is emptied once the transfers are in flight; nobody handles events yet.
ResetRing ==
  /\ pc["main"] = "prepare" /\ next > TransferCount
  /\ head' = 0 /\ tail' = 0 /\ received_buffer_count' = 0
  /\ produced' = 0 /\ consumed' = 0 /\ reported' = 0 /\ forgotten' = StaleLosses
  /\ Goto("main", "create_consumer")
  /\ UNCHANGED <<flagVars, queue, dropped_queue, dropped_buffers, buffer, lockVars,
                 usbVars, callbackVars, threadVars, block, calls>>

CreateConsumer ==
  /\ pc["main"] = "create_consumer"
  /\ created' = created \cup {"consumer"}
  /\ pc' = [pc EXCEPT !["main"] = "create_io", !["consumer"] = "start"]
  /\ UNCHANGED <<flagVars, ringVars, lockVars, usbVars, callbackVars, next, using,
                 historyVars, calls>>

CreateIo ==
  /\ pc["main"] = "create_io"
  /\ created' = created \cup {"io"}
  /\ pc' = [pc EXCEPT !["main"] = "idle", !["io"] = "loop"]
  /\ UNCHANGED <<flagVars, ringVars, lockVars, usbVars, callbackVars, next, using,
                 historyVars, calls>>

\* AIRSPY_ERROR_THREAD: what was started stays.
CreateThreadFails ==
  /\ CanFail /\ pc["main"] \in {"create_consumer", "create_io"}
  /\ Goto("main", "idle")
  /\ UNCHANGED <<flagVars, ringVars, lockVars, usbVars, callbackVars, restVars>>
-----------------------------------------------------------------------------
(* airspy_stop_rx and kill_io_threads *)

StopRx ==
  /\ pc["main"] = "idle" /\ calls < MaxCalls
  /\ calls' = calls + 1
  /\ IF streaming
     THEN stop_requested' = TRUE /\ next' = 1 /\ Goto("main", "cancel")
     ELSE UNCHANGED <<stop_requested, next>> /\ Goto("main", "stop_off")
  /\ UNCHANGED <<streaming, ringVars, lockVars, usbVars, callbackVars, using, created,
                 historyVars>>

\* cancel_transfers
CancelTransfer ==
  /\ pc["main"] = "cancel" /\ next <= TransferCount
  /\ Cancel(next)
  /\ next' = next + 1
  /\ UNCHANGED <<flagVars, ringVars, lockVars, callbackVars, pc, using, created,
                 historyVars, calls>>

SignalConsumer ==
  /\ pc["main"] = "cancel" /\ next > TransferCount /\ consumer_mp = NoOne
  /\ sleeping' = FALSE
  /\ Goto("main", "join_io")
  /\ UNCHANGED <<flagVars, ringVars, consumer_mp, usbVars, callbackVars, restVars>>

\* Mutant: the transfer thread is left to itself.
JoinIoSkipped ==
  /\ pc["main"] = "join_io"
  /\ created' = created \ {"io"}
  /\ Goto("main", "join_consumer")
  /\ UNCHANGED <<flagVars, ringVars, lockVars, usbVars, callbackVars, next, using,
                 historyVars, calls>>

\* A join of a thread that was not created returns an error.
JoinIo ==
  /\ pc["main"] = "join_io" /\ ("io" \in created => pc["io"] = "exited")
  /\ created' = created \ {"io"}
  /\ Goto("main", "join_consumer")
  /\ UNCHANGED <<flagVars, ringVars, lockVars, usbVars, callbackVars, next, using,
                 historyVars, calls>>

JoinConsumer ==
  /\ pc["main"] = "join_consumer" /\ ("consumer" \in created => pc["consumer"] = "exited")
  /\ created' = created \ {"consumer"}
  /\ Goto("main", "last_events")
  /\ UNCHANGED <<flagVars, ringVars, lockVars, usbVars, callbackVars, next, using,
                 historyVars, calls>>

\* The last libusb_handle_events_timeout_completed, which does not wait.
LastEventsDone ==
  /\ pc["main"] = "last_events" /\ handler = "main" /\ callback = "none"
  /\ \A t \in Transfer : done[t] = "none"
  /\ handler' = NoOne
  /\ stop_requested' = FALSE
  /\ Goto("main", "stopped")
  /\ UNCHANGED <<streaming, ringVars, lockVars, usbVars, callback, current, restVars>>

Stopped ==
  /\ pc["main"] = "stopped"
  /\ streaming' = FALSE
  /\ Goto("main", "stop_off")
  /\ UNCHANGED <<stop_requested, ringVars, lockVars, usbVars, callbackVars, restVars>>
-----------------------------------------------------------------------------
CallbackStep == CallbackCheck \/ CallbackQueue \/ CallbackSubmit

EventStep == CallbackStep \/ \E t \in Transfer : HandleEvent(t)

IoStep == IoLoop \/ IoEventsDone

ConsumerStep ==
  \/ ConsumerLock \/ ConsumerExits \/ ConsumerEmpty \/ ConsumerSleeps \/ ConsumerWakes
  \/ ConsumerTakes \/ ConsumerUses

MainStep ==
  \/ ControlDone \/ CreateBusy \/ CreateBegins \/ PrepareTransfer \/ PrepareFails
  \/ ResetRing \/ CreateConsumer \/ CreateIo \/ CreateThreadFails
  \/ CancelTransfer \/ SignalConsumer \/ JoinIo \/ JoinConsumer
  \/ LastEventsDone \/ Stopped

Next ==
  \/ EventStep \/ IoStep \/ ConsumerStep \/ MainStep \/ MainHandlesEvents
  \/ StartRx \/ StopRx
  \/ \E t \in Transfer, outcome \in {"COMPLETED", "ERROR"} : KernelCompletes(t, outcome)
  \/ pc["main"] = "idle" /\ UNCHANGED vars

Spec == Init /\ [][Next]_vars

\* The threads run, a control transfer handles events, and the program's
\* callback returns; the device owes nothing.
Fairness ==
  /\ WF_vars(EventStep) /\ WF_vars(IoStep) /\ WF_vars(ConsumerStep)
  /\ WF_vars(MainStep) /\ WF_vars(MainHandlesEvents)

FairSpec == Spec /\ Fairness
-----------------------------------------------------------------------------
TypeOK ==
  /\ streaming \in BOOLEAN /\ stop_requested \in BOOLEAN
  /\ consumer_mp \in {"consumer", NoOne} /\ sleeping \in BOOLEAN
  /\ head \in Slot /\ tail \in Slot /\ received_buffer_count \in 0..BufferCount
  /\ queue \in [Slot -> Buffer]
  /\ dropped_queue \in [Slot -> Nat] /\ dropped_buffers \in Nat
  /\ buffer \in [Transfer -> Buffer]
  /\ done \in [Transfer -> Usb!Outcome \cup {"none"}]
  /\ handler \in {"main", "io", NoOne}
  /\ callback \in {"none", "check", "queue", "submit", "count"} /\ current \in Transfer
  /\ pc \in [Thread -> Label]
  /\ next \in 1..(TransferCount + 1)
  /\ using \in Buffer \cup {0}
  /\ created \subseteq {"io", "consumer"}
  /\ block \in [Buffer -> Nat]
  /\ produced \in Nat /\ consumed \in Nat /\ reported \in Nat /\ forgotten \in BOOLEAN
  /\ calls \in 0..MaxCalls

\* While the program reads a block, no transfer that is or will be in flight
\* writes to its buffer, and the two places of the ring hold different buffers.
BufferNotOverwritten ==
  /\ using # 0 => \A t \in Transfer : buffer[t] # using
  /\ \A t \in Transfer, s \in Slot : buffer[t] # queue[s]

\* The number of buffers in the ring agrees with its two ends, counting the one
\* being used.
RingConsistent ==
  LET waiting == received_buffer_count - (IF using = 0 THEN 0 ELSE 1)
  IN  pc["consumer"] # "exited" => waiting >= 0 /\ (tail + waiting) % BufferCount = head

\* The program gets the blocks in order, and is told of every one it missed: in
\* its callback the number of the block is that of the one before plus the
\* losses reported with it.  (airspy_start_rx clears the losses before it finds out
\* that the stream is running already, so such a call voids the account; and blocks that a
\* start which failed left in flight are counted into the stream that follows.)
LossesReported ==
  pc["consumer"] = "using" /\ ~forgotten => block[using] = consumed + reported + 1

\* airspy_stop_rx returns: neither join waits for a thread that sleeps.
StopReturns == pc["main"] = "cancel" ~> pc["main"] = "idle"

\* A queued block reaches the program, unless the stream ends first.
BlocksConsumed ==
  received_buffer_count > 0 /\ pc["consumer"] # "exited"
    ~> received_buffer_count = 0 \/ stop_requested \/ ~streaming

\* The documentation of libusb_free_transfer: no active transfer is freed.  Once
\* the stream is stopped airspy_set_packing and airspy_close free the transfers.
StoppedTransfersIdle ==
  pc["main"] = "idle" /\ ~streaming => \A t \in Transfer : ~active[t]
=============================================================================
