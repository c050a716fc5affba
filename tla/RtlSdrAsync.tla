----------------------------- MODULE RtlSdrAsync ----------------------------
(***************************************************************************)
(* Asynchronous reading in librtlsdr: rtlsdr_read_async, which is the      *)
(* event loop of the thread that calls it, the transfer callback, and in   *)
(* the program's thread rtlsdr_cancel_async, control transfers (which      *)
(* handle events too) and rtlsdr_close.                                    *)
(*                                                                         *)
(* The model stops where the code's behaviour is undefined: when           *)
(* rtlsdr_read_async frees a transfer that is in flight or in its callback *)
(* (label "freed in use"), and when the device has been closed.            *)
(***************************************************************************)
EXTENDS RadioUsb

VARIABLES
  async_status, async_cancel,
  next_status,          \* local to rtlsdr_read_async
  dev_lost, xfer_errors,
  status                \* status[t]: xfer[t]->status

rtlOwn == <<async_status, async_cancel, next_status, dev_lost, xfer_errors, status>>
rtlVars == <<radioVars, rtlOwn>>

RtlInit ==
  /\ RadioInit
  /\ pc = [main |-> "idle", worker |-> "out", other |-> "none"]
  /\ async_status = "INACTIVE" /\ async_cancel = FALSE /\ next_status = "INACTIVE"
  /\ dev_lost = FALSE /\ xfer_errors = 0
  /\ status = [t \in Transfer |-> "COMPLETED"]

\* Inside rtlsdr_read_async, and inside its loop.
InReadAsync == pc["worker"] \in {"submit", "read_loop", "read_events", "check", "cancel",
                                 "cancel_events", "cancel_handling", "last_events",
                                 "last_handling", "free", "freed"}
Reading == pc["worker"] \in {"read_loop", "read_events", "check", "cancel", "cancel_events",
                             "cancel_handling"}
Over == pc["worker"] = "freed in use" \/ pc["main"] = "closed"
-----------------------------------------------------------------------------
(* rtlsdr_cancel_async: by the program (pc) or by the callback (callback) *)

\* The status is tested, changed, and only then the flag is set.
RtlCancelStatus == async_status' = "CANCELING"
RtlCancelFlag == async_cancel' = TRUE

RtlCancelAsync ==
  /\ pc["main"] = "idle" /\ calls < MaxCalls
  /\ calls' = calls + 1
  /\ async_status = "RUNNING"
  /\ Goto("main", "cancel_status")
  /\ UNCHANGED <<usbVars, plugged, eventVars, next, blocks, rtlOwn>>

RtlMainCancels ==
  \/ /\ pc["main"] = "cancel_status" /\ RtlCancelStatus
     /\ Goto("main", "cancel_flag")
     /\ UNCHANGED <<usbVars, plugged, eventVars, next, boundVars, async_cancel,
                    next_status, dev_lost, xfer_errors, status>>
  \/ /\ pc["main"] = "cancel_flag" /\ RtlCancelFlag
     /\ Goto("main", "idle")
     /\ UNCHANGED <<usbVars, plugged, eventVars, next, boundVars, async_status,
                    next_status, dev_lost, xfer_errors, status>>

\* Not while reading: -2.
RtlCallbackCancels ==
  \/ /\ callback = "cancel"
     /\ callback' = IF async_status = "RUNNING" THEN "cancel_status" ELSE "cancelled"
     /\ UNCHANGED <<async_status, async_cancel>>
  \/ /\ callback = "cancel_status" /\ RtlCancelStatus
     /\ callback' = "cancel_flag"
     /\ UNCHANGED async_cancel
  \/ /\ callback = "cancel_flag" /\ RtlCancelFlag
     /\ callback' = "cancelled"
     /\ UNCHANGED async_status

RtlCallbackCancelStep ==
  /\ RtlCallbackCancels
  /\ UNCHANGED <<usbVars, plugged, handler, current, pc, next, boundVars, next_status,
                 dev_lost, xfer_errors, status>>
-----------------------------------------------------------------------------
(* _libusb_callback *)

\* Mutant: the loss of the device is taken for an error of the transfer.
LosesDeviceByErrors(outcome, errors) == errors >= TransferCount

\* A transfer without a device, or as many failed ones as there are transfers.
LosesDevice(outcome, errors) == errors >= TransferCount \/ outcome = "NO_DEVICE"

RtlCallbackCheck ==
  LET errors == xfer_errors + (IF due.outcome = "ERROR" THEN 1 ELSE 0) IN
  /\ callback = "check"
  /\ Usb!Call /\ UNCHANGED done
  /\ status' = [status EXCEPT ![current] = due.outcome]
  /\ \/ /\ due.outcome = "COMPLETED"
        /\ callback' = "submit" /\ UNCHANGED <<dev_lost, xfer_errors>>
     \/ /\ due.outcome = "CANCELLED"
        /\ callback' = "none" /\ UNCHANGED <<dev_lost, xfer_errors>>
     \/ /\ due.outcome \notin {"COMPLETED", "CANCELLED"}
        /\ xfer_errors' = errors
        /\ IF LosesDevice(due.outcome, errors)
           THEN dev_lost' = TRUE /\ callback' = "cancel"
           ELSE callback' = "none" /\ UNCHANGED dev_lost
  /\ UNCHANGED <<plugged, handler, current, pc, next, boundVars, async_status,
                 async_cancel, next_status>>

\* The result of the resubmission is ignored.
RtlResubmit ==
  /\ callback = "submit"
  /\ Submit(current) \/ SubmitFails(current)
  /\ xfer_errors' = 0
  /\ callback' = "none"
  /\ UNCHANGED <<plugged, handler, current, pc, next, boundVars, async_status,
                 async_cancel, next_status, dev_lost, status>>

RtlCallbackReturns ==
  /\ callback = "cancelled"
  /\ callback' = "none"
  /\ UNCHANGED <<usbVars, plugged, handler, current, pc, next, boundVars, rtlOwn>>
-----------------------------------------------------------------------------
(* rtlsdr_read_async *)

\* -2 unless the status is INACTIVE; the transfers are allocated anew.
RtlReadAsync ==
  /\ pc["worker"] = "out" /\ pc["main"] \in {"idle", "control"}
  /\ calls < MaxCalls /\ calls' = calls + 1
  /\ async_status = "INACTIVE"
  /\ async_status' = "RUNNING" /\ async_cancel' = FALSE /\ next_status' = "INACTIVE"
  /\ status' = [t \in Transfer |-> "COMPLETED"]
  /\ next' = 1
  /\ Goto("worker", "submit")
  /\ UNCHANGED <<usbVars, plugged, eventVars, blocks, dev_lost, xfer_errors>>

RtlSubmit ==
  /\ pc["worker"] = "submit"
  /\ \/ /\ next <= TransferCount /\ Submit(next)
        /\ next' = next + 1 /\ UNCHANGED <<pc, async_status>>
     \/ /\ next <= TransferCount /\ SubmitFails(next)
        /\ async_status' = "CANCELING" /\ Goto("worker", "read_loop") /\ UNCHANGED next
     \/ /\ next > TransferCount
        /\ Goto("worker", "read_loop") /\ UNCHANGED <<usbVars, next, async_status>>
  /\ UNCHANGED <<plugged, eventVars, boundVars, async_cancel, next_status, dev_lost,
                 xfer_errors, status>>

\* libusb_handle_events_timeout_completed returns at once when async_cancel is set,
\* and waits, no longer than its timeout, while another thread handles events.
RtlLoop ==
  /\ pc["worker"] = "read_loop"
  /\ \/ /\ async_status = "INACTIVE"
        /\ Goto("worker", "free") /\ UNCHANGED handler
     \/ /\ async_status # "INACTIVE" /\ (async_cancel \/ handler # NoOne)
        /\ Goto("worker", "check") /\ UNCHANGED handler
     \/ /\ async_status # "INACTIVE" /\ ~async_cancel /\ handler = NoOne
        /\ Goto("worker", "read_events") /\ handler' = "worker"
  /\ UNCHANGED <<usbVars, plugged, callback, current, next, boundVars, rtlOwn>>

\* An error ends the loop without cancelling anything.
RtlEventsDone ==
  /\ pc["worker"] = "read_events" /\ callback = "none"
  /\ \/ EventsHandled /\ Goto("worker", "check")
     \/ CanFail /\ Goto("worker", "free")
  /\ handler' = NoOne
  /\ UNCHANGED <<usbVars, plugged, callback, current, next, boundVars, rtlOwn>>

RtlCheck ==
  /\ pc["worker"] = "check"
  /\ IF async_status = "CANCELING"
     THEN /\ next_status' = "INACTIVE" /\ next' = 1
          /\ Goto("worker", "cancel")
     ELSE /\ Goto("worker", "read_loop") /\ UNCHANGED <<next, next_status>>
  /\ UNCHANGED <<usbVars, plugged, eventVars, boundVars, async_status, async_cancel,
                 dev_lost, xfer_errors, status>>

\* next_status after the cancel of t: another pass, if the cancel was accepted.
NextStatus(t) == IF CancelAccepted(t) THEN "CANCELING" ELSE next_status

\* A transfer that has not been reported as cancelled is cancelled.
RtlCancelTransfer ==
  /\ pc["worker"] = "cancel" /\ next <= TransferCount
  /\ IF status[next] = "CANCELLED"
     THEN next' = next + 1 /\ UNCHANGED <<usbVars, pc, next_status>>
     ELSE /\ Cancel(next)
          /\ next_status' = NextStatus(next)
          /\ next' = next + 1
          /\ Goto("worker", "cancel_events")
  /\ UNCHANGED <<plugged, eventVars, boundVars, async_status, async_cancel, dev_lost,
                 xfer_errors, status>>

\* Handle the events that are ready, unless another thread is handling events.
RtlHandleReady ==
  /\ pc["worker"] \in {"cancel_events", "last_events"}
  /\ LET last == pc["worker"] = "last_events" IN
     IF handler = NoOne
     THEN /\ handler' = "worker"
          /\ Goto("worker", IF last THEN "last_handling" ELSE "cancel_handling")
     ELSE /\ Goto("worker", IF last THEN "free" ELSE "cancel") /\ UNCHANGED handler
  /\ UNCHANGED <<usbVars, plugged, callback, current, next, boundVars, rtlOwn>>

RtlHandledReady ==
  /\ pc["worker"] \in {"cancel_handling", "last_handling"} /\ callback = "none"
  /\ EventsHandled \/ CanFail
  /\ handler' = NoOne
  /\ Goto("worker", IF pc["worker"] = "last_handling" THEN "free" ELSE "cancel")
  /\ UNCHANGED <<usbVars, plugged, callback, current, next, boundVars, rtlOwn>>

RtlPassEnds ==
  /\ pc["worker"] = "cancel" /\ next > TransferCount
  /\ Goto("worker", IF dev_lost \/ next_status = "INACTIVE" THEN "last_events" ELSE "read_loop")
  /\ UNCHANGED <<usbVars, plugged, eventVars, next, boundVars, rtlOwn>>

InUse(t) == active[t] \/ (callback # "none" /\ current = t)

\* Mutant: the status says that reading is over before the buffers are freed.
RtlFreeStatusFirst ==
  /\ pc["worker"] = "free"
  /\ async_status' = next_status
  /\ Goto("worker", IF \E t \in Transfer : InUse(t) THEN "freed in use" ELSE "freed")
  /\ UNCHANGED <<usbVars, plugged, eventVars, next, boundVars, async_cancel, next_status,
                 dev_lost, xfer_errors, status>>

RtlFree ==
  /\ pc["worker"] = "free"
  /\ Goto("worker", IF \E t \in Transfer : InUse(t) THEN "freed in use" ELSE "freed")
  /\ UNCHANGED <<usbVars, plugged, eventVars, next, boundVars, rtlOwn>>

RtlReadReturns ==
  /\ pc["worker"] = "freed"
  /\ async_status' = next_status
  /\ Goto("worker", "out")
  /\ UNCHANGED <<usbVars, plugged, eventVars, next, boundVars, async_cancel, next_status,
                 dev_lost, xfer_errors, status>>
-----------------------------------------------------------------------------
(* The program's thread: control transfers and rtlsdr_close *)

RtlControl ==
  /\ pc["main"] = "idle" /\ calls < MaxCalls
  /\ calls' = calls + 1
  /\ Goto("main", "control")
  /\ UNCHANGED <<usbVars, plugged, eventVars, next, blocks, rtlOwn>>

RtlMainHandles ==
  /\ pc["main"] = "control" /\ handler = NoOne
  /\ handler' = "main"
  /\ UNCHANGED <<usbVars, plugged, callback, current, pc, next, boundVars, rtlOwn>>

RtlControlDone ==
  /\ pc["main"] = "control" /\ (handler = "main" => callback = "none")
  /\ handler' = IF handler = "main" THEN NoOne ELSE handler
  /\ Goto("main", "idle")
  /\ UNCHANGED <<usbVars, plugged, callback, current, next, boundVars, rtlOwn>>

\* "block until all async operations have been completed (if any)", but not for a
\* device that was lost.
RtlClose ==
  /\ pc["main"] = "idle"
  /\ Goto("main", IF dev_lost THEN "usb_close" ELSE "close_wait")
  /\ UNCHANGED <<usbVars, plugged, eventVars, next, boundVars, rtlOwn>>

RtlCloseWaits == pc["main"] = "close_wait" /\ async_status # "INACTIVE" /\ UNCHANGED rtlVars

RtlCloseWaited ==
  /\ pc["main"] = "close_wait" /\ async_status = "INACTIVE"
  /\ Goto("main", "usb_close")
  /\ UNCHANGED <<usbVars, plugged, eventVars, next, boundVars, rtlOwn>>

RtlUsbClose ==
  /\ pc["main"] = "usb_close" /\ handler = NoOne
  /\ Goto("main", "closed")
  /\ UNCHANGED <<usbVars, plugged, eventVars, next, boundVars, rtlOwn>>
-----------------------------------------------------------------------------
RtlEventStep ==
  /\ ~Over
  /\ \/ (\E t \in Transfer : Reap(t)) /\ UNCHANGED rtlOwn
     \/ RtlCallbackCheck \/ RtlResubmit \/ RtlCallbackCancelStep \/ RtlCallbackReturns

RtlWorkerStep ==
  /\ ~Over
  /\ \/ RtlSubmit \/ RtlLoop \/ RtlEventsDone \/ RtlCheck \/ RtlCancelTransfer
     \/ RtlHandleReady \/ RtlHandledReady \/ RtlPassEnds \/ RtlFree \/ RtlReadReturns

RtlMainStep ==
  ~Over /\ (RtlMainCancels \/ RtlControlDone \/ RtlCloseWaited \/ RtlUsbClose)

RtlNext ==
  \/ RtlEventStep \/ RtlWorkerStep \/ RtlMainStep
  \/ ~Over /\ (RtlReadAsync \/ RtlCancelAsync \/ RtlControl \/ RtlMainHandles)
  \/ ~Over /\ (RtlClose \/ RtlCloseWaits)
  \/ ~Over /\ RadioEnvironment({"ERROR", "STALL"}) /\ UNCHANGED rtlOwn
-----------------------------------------------------------------------------
\* rtlsdr_read_async ends once rtlsdr_cancel_async was called, although callbacks
\* resubmit their transfers meanwhile and cancels are refused, and by itself once the
\* device is lost with a transfer in flight.
ReadingEnds ==
  /\ Reading /\ async_status = "CANCELING" ~> ~Reading \/ Over
  /\ Reading /\ (\E t \in Transfer : done[t] = "NO_DEVICE") ~> ~Reading \/ Over

\* "block until all async operations have been completed (if any)" (rtlsdr_close):
\* when a device that was not lost has been closed and freed, rtlsdr_read_async has
\* freed its buffers and returned.
CloseAfterReading == pc["main"] = "closed" /\ ~dev_lost => ~InReadAsync
=============================================================================
