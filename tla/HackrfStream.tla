---------------------------- MODULE HackrfStream ----------------------------
(***************************************************************************)
(* Streaming in libhackrf, of an opened device until it is closed:         *)
(* hackrf_start_rx, hackrf_stop_rx and hackrf_close in the program's       *)
(* thread, the transfer thread that hackrf_open created, the transfer      *)
(* callback, and the transfer thread of another device, which handles      *)
(* events for this one too: all devices share g_libusb_context.            *)
(* hackrf_start_tx and hackrf_stop_tx differ in the endpoint only.         *)
(***************************************************************************)
EXTENDS RadioUsb

VARIABLES
  do_exit, streaming, transfers_setup,
  transfer_thread_started,
  allocated            \* free_transfers and free(device) have not been called

hackrfOwn == <<do_exit, streaming, transfers_setup, transfer_thread_started, allocated>>
hackrfVars == <<radioVars, hackrfOwn>>

\* hackrf_open_setup allocates the transfers and creates the thread.
HackrfInit ==
  /\ RadioInit
  /\ pc = [main |-> "idle", worker |-> "loop", other |-> "loop"]
  /\ do_exit = FALSE /\ streaming = FALSE /\ transfers_setup = FALSE
  /\ transfer_thread_started = TRUE
  /\ allocated = TRUE

hackrf_is_streaming == transfer_thread_started /\ streaming /\ ~do_exit
-----------------------------------------------------------------------------
(* transfer_threadproc, of this device and of the other one *)

HackrfThreadExits ==
  /\ pc["worker"] = "loop" /\ do_exit
  /\ Goto("worker", "exited")
  /\ UNCHANGED <<usbVars, plugged, eventVars, next, boundVars, hackrfOwn>>

HackrfThreadHandles ==
  /\ \/ ~do_exit /\ TakeEvents("worker", "loop", "events")
     \/ TakeEvents("other", "loop", "events")
  /\ UNCHANGED hackrfOwn

\* libusb_handle_events_timeout returns; an error ends the stream of the thread's
\* own device.
HackrfThreadHandled(th) ==
  /\ pc[th] = "events" /\ callback = "none"
  /\ \/ EventsHandled /\ UNCHANGED streaming
     \/ CanFail /\ streaming' = (IF th = "worker" THEN FALSE ELSE streaming)
  /\ handler' = NoOne
  /\ Goto(th, "loop")
  /\ UNCHANGED <<usbVars, plugged, callback, current, next, boundVars, do_exit,
                 transfers_setup, transfer_thread_started, allocated>>
-----------------------------------------------------------------------------
(* hackrf_libusb_transfer_callback *)

\* By the status of the transfer: the program is called, nothing is done, or the
\* stream is over.
HackrfCallbackCheck ==
  /\ callback = "check"
  /\ Usb!Call /\ UNCHANGED done
  /\ \/ /\ due.outcome = "COMPLETED"
        /\ callback' = "program" /\ UNCHANGED <<do_exit, streaming>>
     \/ /\ due.outcome = "CANCELLED"
        /\ callback' = "none" /\ UNCHANGED <<do_exit, streaming>>
     \/ /\ due.outcome \notin {"COMPLETED", "CANCELLED"}
        /\ callback' = "none" /\ do_exit' = TRUE /\ streaming' = FALSE
  /\ UNCHANGED <<plugged, handler, current, pc, next, boundVars, transfers_setup,
                 transfer_thread_started, allocated>>

\* device->callback asks for more, or not.
HackrfProgramReturns ==
  /\ callback = "program"
  /\ \/ callback' = "submit" /\ UNCHANGED do_exit
     \/ callback' = "none" /\ do_exit' = TRUE
  /\ UNCHANGED <<usbVars, plugged, handler, current, pc, next, boundVars, streaming,
                 transfers_setup, transfer_thread_started, allocated>>

\* Mutant: a refused resubmission goes unnoticed.
HackrfResubmitIgnored ==
  /\ callback = "submit"
  /\ Submit(current) \/ SubmitFails(current)
  /\ callback' = "none"
  /\ UNCHANGED <<plugged, handler, current, pc, next, boundVars, hackrfOwn>>

HackrfResubmit ==
  /\ callback = "submit"
  /\ \/ Submit(current) /\ UNCHANGED do_exit
     \/ SubmitFails(current) /\ do_exit' = TRUE
  /\ callback' = "none"
  /\ UNCHANGED <<plugged, handler, current, pc, next, boundVars, streaming,
                 transfers_setup, transfer_thread_started, allocated>>
-----------------------------------------------------------------------------
(* hackrf_set_transceiver_mode, whose thread handles events while it waits *)

HackrfControl == {"start_mode", "stop_mode", "close_mode_rx", "close_mode_tx"}

HackrfMainHandles ==
  /\ pc["main"] \in HackrfControl /\ handler = NoOne
  /\ handler' = "main"
  /\ UNCHANGED <<usbVars, plugged, callback, current, pc, next, boundVars, hackrfOwn>>

\* hackrf_close goes on whatever the result.
HackrfControlDone ==
  LET then == CASE pc["main"] = "start_mode"    -> "prepare_check"
                [] pc["main"] = "stop_mode"     -> "idle"
                [] pc["main"] = "close_mode_rx" -> "close_mode_tx"
                [] pc["main"] = "close_mode_tx" -> "kill" IN
  /\ pc["main"] \in HackrfControl /\ (handler = "main" => callback = "none")
  /\ handler' = IF handler = "main" THEN NoOne ELSE handler
  /\ \/ Goto("main", then)
     \/ (CanFail \/ ~plugged) /\ pc["main"] = "start_mode" /\ Goto("main", "idle")
  /\ UNCHANGED <<usbVars, plugged, callback, current, next, boundVars, hackrfOwn>>
-----------------------------------------------------------------------------
(* hackrf_start_rx, prepare_setup_transfers and prepare_transfers *)

HackrfCall(label) ==
  /\ pc["main"] = "idle" /\ calls < MaxCalls
  /\ calls' = calls + 1
  /\ Goto("main", label)
  /\ next' = 1
  /\ UNCHANGED <<usbVars, plugged, eventVars, blocks>>

HackrfStart == HackrfCall("start_mode") /\ UNCHANGED hackrfOwn

\* HACKRF_ERROR_BUSY while the transfers are set up.
HackrfPrepare ==
  /\ pc["main"] = "prepare_check"
  /\ Goto("main", IF transfers_setup THEN "idle" ELSE "prepare")
  /\ UNCHANGED <<usbVars, plugged, eventVars, next, boundVars, hackrfOwn>>

\* A transfer is submitted, or refused: those before it stay in flight.
HackrfPrepareTransfer ==
  /\ pc["main"] = "prepare" /\ next <= TransferCount
  /\ \/ Submit(next) /\ next' = next + 1 /\ UNCHANGED pc
     \/ SubmitFails(next) /\ Goto("main", "idle") /\ UNCHANGED next
  /\ UNCHANGED <<plugged, eventVars, boundVars, hackrfOwn>>

HackrfPrepared ==
  /\ pc["main"] = "prepare" /\ next > TransferCount
  /\ transfers_setup' = TRUE
  /\ Goto("main", "started")
  /\ UNCHANGED <<usbVars, plugged, eventVars, next, boundVars, do_exit, streaming,
                 transfer_thread_started, allocated>>

HackrfStarted ==
  /\ pc["main"] = "started"
  /\ streaming' = TRUE
  /\ Goto("main", "idle")
  /\ UNCHANGED <<usbVars, plugged, eventVars, next, boundVars, do_exit, transfers_setup,
                 transfer_thread_started, allocated>>
-----------------------------------------------------------------------------
(* hackrf_stop_rx and cancel_transfers *)

\* An error unless the transfers are set up.
HackrfStop ==
  /\ HackrfCall(IF transfers_setup THEN "stop_cancel" ELSE "idle")
  /\ streaming' = FALSE
  /\ UNCHANGED <<do_exit, transfers_setup, transfer_thread_started, allocated>>

HackrfCancelTransfer ==
  /\ pc["main"] \in {"stop_cancel", "kill_cancel"} /\ next <= TransferCount
  /\ Cancel(next)
  /\ next' = next + 1
  /\ UNCHANGED <<plugged, eventVars, pc, boundVars, hackrfOwn>>

HackrfCancelled ==
  /\ pc["main"] \in {"stop_cancel", "kill_cancel"} /\ next > TransferCount
  /\ transfers_setup' = FALSE
  /\ Goto("main", IF pc["main"] = "stop_cancel" THEN "stop_mode" ELSE "request_exit")
  /\ UNCHANGED <<usbVars, plugged, eventVars, next, boundVars, do_exit, streaming,
                 transfer_thread_started, allocated>>
-----------------------------------------------------------------------------
(* hackrf_close and kill_transfer_thread *)

HackrfClose ==
  /\ pc["main"] = "idle"
  /\ Goto("main", "close_mode_rx")
  /\ UNCHANGED <<usbVars, plugged, eventVars, next, boundVars, hackrfOwn>>

\* cancel_transfers does nothing unless the transfers are set up.
HackrfKill ==
  /\ pc["main"] = "kill"
  /\ Goto("main", IF transfers_setup THEN "kill_cancel" ELSE "request_exit")
  /\ next' = 1
  /\ UNCHANGED <<usbVars, plugged, eventVars, boundVars, hackrfOwn>>

\* Mutant: do_exit is reset before the thread has been joined.
HackrfRequestExitBriefly ==
  /\ pc["main"] = "request_exit"
  /\ do_exit' = FALSE
  /\ Goto("main", "join")
  /\ UNCHANGED <<usbVars, plugged, eventVars, next, boundVars, streaming,
                 transfers_setup, transfer_thread_started, allocated>>

HackrfRequestExit ==
  /\ pc["main"] = "request_exit"
  /\ do_exit' = TRUE
  /\ Goto("main", "join")
  /\ UNCHANGED <<usbVars, plugged, eventVars, next, boundVars, streaming,
                 transfers_setup, transfer_thread_started, allocated>>

\* Mutant: the thread is not waited for.
HackrfJoinSkipped ==
  /\ pc["main"] = "join"
  /\ transfer_thread_started' = FALSE /\ do_exit' = FALSE
  /\ Goto("main", "usb_close")
  /\ UNCHANGED <<usbVars, plugged, eventVars, next, boundVars, streaming,
                 transfers_setup, allocated>>

HackrfJoin ==
  /\ pc["main"] = "join" /\ pc["worker"] = "exited"
  /\ transfer_thread_started' = FALSE /\ do_exit' = FALSE
  /\ Goto("main", "usb_close")
  /\ UNCHANGED <<usbVars, plugged, eventVars, next, boundVars, streaming,
                 transfers_setup, allocated>>

\* libusb_close gets the events lock from whoever handles events (UsbEvents) and
\* forgets the transfers of the device.
HackrfUsbClose ==
  /\ pc["main"] = "usb_close" /\ handler = NoOne
  /\ active' = [t \in Transfer |-> FALSE] /\ wants' = [t \in Transfer |-> "none"]
  /\ done' = [t \in Transfer |-> "none"]
  /\ Goto("main", "free")
  /\ UNCHANGED <<due, plugged, eventVars, next, boundVars, hackrfOwn>>

HackrfFree ==
  /\ pc["main"] = "free"
  /\ allocated' = FALSE
  /\ Goto("main", "closed")
  /\ UNCHANGED <<usbVars, plugged, eventVars, next, boundVars, do_exit, streaming,
                 transfers_setup, transfer_thread_started>>
-----------------------------------------------------------------------------
HackrfEventStep ==
  \/ \E t \in Transfer : Reap(t) /\ UNCHANGED hackrfOwn
  \/ HackrfCallbackCheck \/ HackrfProgramReturns \/ HackrfResubmit

HackrfThreadStep(th) ==
  \/ th = "worker" /\ HackrfThreadExits
  \/ HackrfThreadHandled(th)

HackrfMainStep ==
  \/ HackrfControlDone
  \/ HackrfPrepare \/ HackrfPrepareTransfer \/ HackrfPrepared \/ HackrfStarted
  \/ HackrfCancelTransfer \/ HackrfCancelled
  \/ HackrfKill \/ HackrfRequestExit \/ HackrfJoin \/ HackrfFree

HackrfNext ==
  \/ HackrfEventStep \/ HackrfThreadHandles
  \/ \E th \in {"worker", "other"} : HackrfThreadStep(th)
  \/ HackrfMainHandles \/ HackrfMainStep \/ HackrfUsbClose
  \/ HackrfStart \/ HackrfStop \/ HackrfClose
  \/ RadioEnvironment({"ERROR"}) /\ UNCHANGED hackrfOwn

-----------------------------------------------------------------------------
\* A stream never goes on with fewer transfers than it began with: while
\* hackrf_is_streaming says so, each is in flight or in its callback.  Whatever drops
\* one (a refused resubmission, a failure, the program's callback) ends the stream
\* where the program can see it.  (Not while hackrf_close cancels them.)
NoSilentDropout ==
  hackrf_is_streaming /\ pc["main"] \notin {"kill_cancel", "request_exit"} =>
    \A t \in Transfer : active[t] \/ (callback # "none" /\ current = t)

\* "libusb_close() should free all transfers" (free_transfers): when the transfers
\* and the device are freed, no transfer is in flight or left with the kernel, no
\* callback runs in any thread, and the transfer thread is gone.
FreedIsUnused ==
  ~allocated => /\ \A t \in Transfer : ~active[t] /\ done[t] = "none"
                /\ callback = "none"
                /\ pc["worker"] = "exited"

\* hackrf_close returns.
HackrfCloseReturns == pc["main"] = "kill" ~> pc["main"] = "closed"
=============================================================================
