--------------------------- MODULE HydrasdrStream ---------------------------
(***************************************************************************)
(* Streaming in libhydrasdr, another descendant of libairspy, with another *)
(* protocol for its flags: whoever ends the stream clears streaming, the   *)
(* threads clear it as they leave, and stop_requested is set by            *)
(* hydrasdr_stop_rx alone, which then joins the threads it finds running.  *)
(* The ring and the start are those of AirspyStream; created stands for    *)
(* transfer_thread_running and consumer_thread_running.                    *)
(***************************************************************************)
EXTENDS AirspyStream

(* hydrasdr_libusb_transfer_callback *)

HydraCallbackCheck ==
  /\ callback = "check"
  /\ Usb!Call /\ UNCHANGED done
  /\ \/ /\ ~streaming \/ stop_requested
        /\ callback' = "none" /\ UNCHANGED streaming
     \/ /\ streaming /\ ~stop_requested /\ due.outcome = "COMPLETED"
        /\ callback' = "queue" /\ UNCHANGED streaming
     \/ /\ streaming /\ ~stop_requested /\ due.outcome # "COMPLETED"
        /\ callback' = "none" /\ streaming' = FALSE
  /\ UNCHANGED <<stop_requested, ringVars, lockVars, handler, current, pc, restVars>>

HydraCallbackQueue == CallbackQueue

HydraCallbackSubmit ==
  /\ callback = "submit"
  /\ \/ Submit(current) /\ UNCHANGED streaming
     \/ SubmitFails(current) /\ streaming' = FALSE
  /\ callback' = "none"
  /\ UNCHANGED <<stop_requested, ringVars, lockVars, handler, current, pc, restVars>>
-----------------------------------------------------------------------------
(* transfer_threadproc and consumer_threadproc *)

HydraIoLoop ==
  /\ pc["io"] = "loop"
  /\ IF streaming /\ ~stop_requested
     THEN /\ handler = NoOne /\ handler' = "io" /\ Goto("io", "events")
          /\ UNCHANGED streaming
     ELSE UNCHANGED handler /\ Goto("io", "exited") /\ streaming' = FALSE
  /\ UNCHANGED <<stop_requested, ringVars, lockVars, usbVars, callback, current, restVars>>

HydraIoEventsDone ==
  /\ pc["io"] = "events" /\ callback = "none"
  /\ \/ (\A t \in Transfer : done[t] = "none") /\ UNCHANGED streaming
     \/ CanFail /\ streaming' = FALSE
  /\ handler' = NoOne
  /\ Goto("io", "loop")
  /\ UNCHANGED <<stop_requested, ringVars, lockVars, usbVars, callback, current, restVars>>

HydraConsumerExits ==
  /\ pc["consumer"] = "check" /\ (~streaming \/ stop_requested)
  /\ streaming' = FALSE
  /\ consumer_mp' = NoOne
  /\ Goto("consumer", "exited")
  /\ UNCHANGED <<stop_requested, ringVars, sleeping, usbVars, callbackVars, restVars>>

HydraConsumerUses ==
  /\ pc["consumer"] = "using"
  /\ \/ UNCHANGED streaming
     \/ streaming' = FALSE
  /\ consumed' = block[using]
  /\ Goto("consumer", "used")
  /\ UNCHANGED <<stop_requested, ringVars, lockVars, usbVars, callbackVars, threadVars,
                 block, produced, reported, forgotten, calls>>

HydraConsumerWaits == ConsumerLock \/ ConsumerEmpty \/ ConsumerSleeps \/ ConsumerWakes

HydraConsumerTakes == ConsumerTakes
-----------------------------------------------------------------------------
(* hydrasdr_start_rx and create_io_threads *)

HydraStart == StartRx

HydraPrepare == PrepareTransfer \/ PrepareFails

\* The last stream ended by itself and was not stopped: its threads were not joined,
\* and the new stream gets a second pair of them, which is as far as the model goes.
HydraCreateOverOldThreads ==
  /\ pc["main"] = "create" /\ ~streaming /\ ~stop_requested /\ created # {}
  /\ Goto("main", "doubled")
  /\ UNCHANGED <<flagVars, ringVars, lockVars, usbVars, callbackVars, restVars>>

HydraCreate ==
  \/ CreateBusy
  \/ CreateBegins /\ created = {}
  \/ HydraCreateOverOldThreads
  \/ ResetRing \/ CreateConsumer \/ CreateIo \/ CreateThreadFails
-----------------------------------------------------------------------------
(* hydrasdr_stop_rx and kill_io_threads *)

HydraStop ==
  /\ pc["main"] = "idle" /\ calls < MaxCalls
  /\ calls' = calls + 1
  /\ stop_requested' = TRUE
  /\ Goto("main", "stop_first")
  /\ UNCHANGED <<streaming, ringVars, lockVars, usbVars, callbackVars, threadVars,
                 historyVars>>

\* hydrasdr_set_receiver_mode: whether it fails makes no difference to what follows.
HydraStopControlDone ==
  /\ pc["main"] = "stop_first" /\ (handler = "main" => callback = "none")
  /\ handler' = IF handler = "main" THEN NoOne ELSE handler
  /\ Goto("main", "kill")
  /\ UNCHANGED <<flagVars, ringVars, lockVars, usbVars, callback, current, restVars>>

\* The request is cleared before streaming is.
HydraClearRequest ==
  /\ pc["main"] = "kill"
  /\ stop_requested' = FALSE
  /\ Goto("main", "clear")
  /\ UNCHANGED <<streaming, ringVars, lockVars, usbVars, callbackVars, restVars>>

HydraClearStreaming ==
  /\ pc["main"] = "clear"
  /\ streaming' = FALSE
  /\ next' = 1
  /\ Goto("main", "cancel")
  /\ UNCHANGED <<stop_requested, ringVars, lockVars, usbVars, callbackVars, using, created,
                 historyVars, calls>>

HydraCancelTransfer == CancelTransfer

HydraJoin == SignalConsumer \/ JoinIo \/ JoinConsumer

\* The last libusb_handle_events_timeout_completed, which does not wait.
HydraLastEventsDone ==
  /\ pc["main"] = "last_events" /\ handler = "main" /\ callback = "none"
  /\ \A t \in Transfer : done[t] = "none"
  /\ handler' = NoOne
  /\ Goto("main", "idle")
  /\ UNCHANGED <<flagVars, ringVars, lockVars, usbVars, callback, current, restVars>>

HydraControlDone == ControlDone

HydraMainHandlesEvents ==
  /\ pc["main"] \in Control \cup {"stop_first", "last_events"} /\ handler = NoOne
  /\ handler' = "main"
  /\ UNCHANGED <<flagVars, ringVars, lockVars, usbVars, callback, current, pc, restVars>>
-----------------------------------------------------------------------------
HydraEventStep ==
  \/ HydraCallbackCheck \/ HydraCallbackQueue \/ HydraCallbackSubmit
  \/ \E t \in Transfer : HandleEvent(t)

HydraIoStep == HydraIoLoop \/ HydraIoEventsDone

HydraConsumerStep ==
  HydraConsumerExits \/ HydraConsumerUses \/ HydraConsumerWaits \/ HydraConsumerTakes

HydraMainStep ==
  \/ HydraControlDone \/ HydraStopControlDone \/ HydraPrepare \/ HydraCreate
  \/ HydraClearRequest \/ HydraClearStreaming \/ HydraCancelTransfer
  \/ HydraJoin \/ HydraLastEventsDone

HydraNext ==
  \/ HydraEventStep \/ HydraIoStep \/ HydraConsumerStep \/ HydraMainStep
  \/ HydraMainHandlesEvents \/ HydraStart \/ HydraStop
  \/ \E t \in Transfer, outcome \in {"COMPLETED", "ERROR"} : KernelCompletes(t, outcome)
  \/ pc["main"] \in {"idle", "doubled"} /\ UNCHANGED vars
=============================================================================
