--------------------------- MODULE AirspyHfStream ---------------------------
(***************************************************************************)
(* Streaming in libairspyhf, which descends from libairspy: the ring, the  *)
(* threads and the start are those of AirspyStream.  It counts the         *)
(* transfers libusb has (transfer_live) and, when it stops, handles events *)
(* until they are back; and a failed event handler ends the stream by      *)
(* clearing streaming, which leaves airspyhf_stop nothing to do.           *)
(***************************************************************************)
EXTENDS AirspyStream

VARIABLE transfer_live

hfVars == <<vars, transfer_live>>

HfInit == Init /\ transfer_live = 0

Counted(k) == transfer_live' = transfer_live + k
Uncounted == UNCHANGED transfer_live
-----------------------------------------------------------------------------
(* airspyhf_libusb_transfer_callback *)

HfCallbackCheck == CallbackCheck /\ Counted(-1)

HfCallbackQueue == CallbackQueue /\ Uncounted

\* Mutant: a refused submission is counted as well.
HfCallbackSubmitCounted ==
  /\ callback = "submit"
  /\ \/ Submit(current) /\ UNCHANGED stop_requested
     \/ SubmitFails(current) /\ stop_requested' = TRUE
  /\ callback' = "count"
  /\ Uncounted
  /\ UNCHANGED <<streaming, ringVars, lockVars, handler, current, pc, restVars>>

\* The transfer is submitted first and counted afterwards.
HfCallbackSubmit ==
  /\ callback = "submit"
  /\ \/ Submit(current) /\ callback' = "count" /\ UNCHANGED stop_requested
     \/ SubmitFails(current) /\ callback' = "none" /\ stop_requested' = TRUE
  /\ Uncounted
  /\ UNCHANGED <<streaming, ringVars, lockVars, handler, current, pc, restVars>>

HfCallbackCount ==
  /\ callback = "count"
  /\ callback' = "none"
  /\ Counted(1)
  /\ UNCHANGED <<flagVars, ringVars, lockVars, usbVars, handler, current, pc, restVars>>
-----------------------------------------------------------------------------
(* transfer_threadproc and consumer_threadproc *)

\* libusb_handle_events_timeout_completed fails: the stream is no longer streaming.
HfIoEventsDone ==
  /\ pc["io"] = "events" /\ callback = "none"
  /\ \/ (\A t \in Transfer : done[t] = "none") /\ UNCHANGED streaming
     \/ CanFail /\ streaming' = FALSE
  /\ handler' = NoOne
  /\ Goto("io", "loop")
  /\ Uncounted
  /\ UNCHANGED <<stop_requested, ringVars, lockVars, usbVars, callback, current, restVars>>

HfIoLoop == IoLoop /\ Uncounted

HfConsumerStep == ConsumerStep /\ Uncounted
-----------------------------------------------------------------------------
(* airspyhf_start, prepare_transfers and create_io_threads *)

HfStart == StartRx /\ Uncounted

HfPrepareTransfer == PrepareTransfer /\ Counted(1)

HfPrepareFails == PrepareFails /\ Uncounted

\* Not streaming, yet threads of the last stream were never joined: the new stream
\* gets a second pair of threads, which is as far as the model goes.
HfCreateOverOldThreads ==
  /\ pc["main"] = "create" /\ ~streaming /\ ~stop_requested /\ created # {}
  /\ Goto("main", "doubled")
  /\ UNCHANGED <<flagVars, ringVars, lockVars, usbVars, callbackVars, restVars>>

HfCreate ==
  /\ \/ CreateBusy
     \/ CreateBegins /\ created = {}
     \/ HfCreateOverOldThreads
     \/ ResetRing \/ CreateConsumer \/ CreateIo \/ CreateThreadFails
  /\ Uncounted
-----------------------------------------------------------------------------
(* airspyhf_stop, kill_io_threads and cancel_transfers *)

HfStop == StopRx /\ Uncounted

HfCancelTransfer == CancelTransfer /\ Uncounted

HfCancelled ==
  /\ pc["main"] = "cancel" /\ next > TransferCount
  /\ next' = 1
  /\ Goto("main", "drain")
  /\ Uncounted
  /\ UNCHANGED <<flagVars, ringVars, lockVars, usbVars, callbackVars, using, created,
                 historyVars, calls>>

Draining == next <= TransferCount /\ transfer_live > 0

\* Handle events for 50 us, or wait that long for the thread that does.
HfDrain ==
  /\ pc["main"] = "drain" /\ Draining
  /\ \/ handler = NoOne /\ handler' = "main" /\ Goto("main", "draining") /\ UNCHANGED next
     \/ handler # NoOne /\ next' = next + 1 /\ UNCHANGED <<handler, pc>>
  /\ Uncounted
  /\ UNCHANGED <<flagVars, ringVars, lockVars, usbVars, callback, current, using, created,
                 historyVars, calls>>

HfDrained ==
  /\ pc["main"] = "draining" /\ callback = "none"
  /\ (\A t \in Transfer : done[t] = "none") \/ CanFail
  /\ handler' = NoOne
  /\ next' = next + 1
  /\ Goto("main", "drain")
  /\ Uncounted
  /\ UNCHANGED <<flagVars, ringVars, lockVars, usbVars, callback, current, using, created,
                 historyVars, calls>>

HfSignalConsumer ==
  /\ pc["main"] = "drain" /\ ~Draining /\ consumer_mp = NoOne
  /\ sleeping' = FALSE
  /\ Goto("main", "join_io")
  /\ Uncounted
  /\ UNCHANGED <<flagVars, ringVars, consumer_mp, usbVars, callbackVars, restVars>>

HfJoin == (JoinIo \/ JoinConsumer) /\ Uncounted

HfJoined ==
  /\ pc["main"] = "last_events"
  /\ stop_requested' = FALSE
  /\ Goto("main", "stopped")
  /\ Uncounted
  /\ UNCHANGED <<streaming, ringVars, lockVars, usbVars, callbackVars, restVars>>

HfStopped == Stopped /\ Uncounted

HfMainHandlesEvents == pc["main"] # "last_events" /\ MainHandlesEvents /\ Uncounted

HfControlDone == ControlDone /\ Uncounted
-----------------------------------------------------------------------------
HfEventStep ==
  \/ HfCallbackCheck \/ HfCallbackQueue \/ HfCallbackSubmit \/ HfCallbackCount
  \/ (\E t \in Transfer : HandleEvent(t)) /\ Uncounted

HfIoStep == HfIoLoop \/ HfIoEventsDone

HfMainStep ==
  \/ HfControlDone \/ HfPrepareTransfer \/ HfPrepareFails \/ HfCreate
  \/ HfCancelTransfer \/ HfCancelled \/ HfDrain \/ HfDrained \/ HfSignalConsumer
  \/ HfJoin \/ HfJoined \/ HfStopped

HfNext ==
  \/ HfEventStep \/ HfIoStep \/ HfConsumerStep \/ HfMainStep \/ HfMainHandlesEvents
  \/ HfStart \/ HfStop
  \/ /\ \E t \in Transfer, outcome \in {"COMPLETED", "ERROR"} : KernelCompletes(t, outcome)
     /\ Uncounted
  \/ pc["main"] \in {"idle", "doubled"} /\ UNCHANGED hfVars
-----------------------------------------------------------------------------
\* transfer_live, which no lock protects, is the number of transfers libusb has, up
\* to the one whose callback is at work: it never goes below zero and is zero when
\* all are back.
LiveCountExact ==
  transfer_live = Cardinality({t \in Transfer : active[t]})
                    + (CASE callback = "check" -> 1 [] callback = "count" -> -1 [] OTHER -> 0)
=============================================================================
