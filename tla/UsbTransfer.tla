---------------------------- MODULE UsbTransfer ----------------------------
(***************************************************************************)
(* The life of libusb's asynchronous transfers, of every type, on the Linux *)
(* usbfs backend: libusb_submit_transfer, libusb_cancel_transfer, the timeout    *)
(* scan, the reaping of URBs by the thread that handles events, the        *)
(* completion path up to the user's callback, and the unplugging of the    *)
(* device.                                                                 *)
(*                                                                         *)
(* Any number of user threads submit, cancel and scan for timeouts; one    *)
(* thread, Handler, handles events (UsbEvents is about why it is only one) *)
(* and runs the callbacks, from which it may submit and cancel too.  An    *)
(* action is the code between two points where the thread may block or     *)
(* where another thread can see what it did; a lock held over several      *)
(* actions is in the state, one taken and released inside an action is the *)
(* guard "nobody holds it".                                                *)
(***************************************************************************)
EXTENDS Naturals, FiniteSets

CONSTANTS
  Transfer,             \* transfers allocated for one open device handle
  Kinds,                \* Kinds[t]: the types transfer t may have been filled with
  User,                 \* threads that call libusb but handle no events
  Handler,              \* the thread that handles events
  NumUrbs,              \* URBs usbfs splits a transfer into; a control transfer is one
  Timed,                \* the transfers that were given a timeout
  MaxCalls              \* bound on API calls made by the program

\* enum libusb_transfer_type; bulk stands for bulk streams too.
TransferType == {"bulk", "interrupt", "iso", "control"}

ASSUME TransferAssumption == Transfer # {}
ASSUME KindsAssumption == Kinds \in [Transfer -> SUBSET TransferType]
ASSUME UrbAssumption == NumUrbs \in Nat \ {0}
ASSUME ThreadAssumption == Handler \notin User
ASSUME TimedAssumption == Timed \subseteq Transfer
ASSUME BoundAssumption == MaxCalls \in Nat

Thread == User \cup {Handler}
Urb == 1..NumUrbs
NoOne == "no one"
ASSUME NoOneAssumption == NoOne \notin Thread

\* The outcomes the kernel gives a URB; "short" is less data than asked for,
\* "bus" any low-level error.
UrbStatus == {"full", "short", "discarded", "nodev", "stall", "overflow", "bus"}
UrbState == {"absent", "pending"} \cup UrbStatus

ReapAction == {"NORMAL", "SUBMIT_FAILED", "CANCELLED", "COMPLETED_EARLY", "ERROR"}

TransferStatus == {"COMPLETED", "ERROR", "TIMED_OUT", "CANCELLED", "STALL",
                   "NO_DEVICE", "OVERFLOW"}

StateFlag == {"IN_FLIGHT", "CANCELLING", "DEVICE_DISAPPEARED"}
TimeoutFlag == {"HANDLED", "TIMED_OUT"}

\* Where a thread can be.
Label == {"idle", "callback", "submit", "submit_locked", "alloc_urbs", "submit_urbs",
          "submit_ok", "submit_undo", "cancel", "timeouts", "scan_timeouts",
          "mark_timed_out", "reaped", "completed", "cancellation", "remove_flying",
          "clear_in_flight", "report", "scan_flying", "clear_priv"}

VARIABLES
  \* struct libusb_transfer, as the program filled it, and struct usbi_transfer
  type, state_flags, timeout_flags,
  \* struct linux_transfer_priv: has_urbs is urbs # NULL
  has_urbs, num_retired, reap_action, reap_status,
  \* the context: the flying list, as the set of its members, and the locks
  flying, flying_lock, transfer_lock,
  \* the kernel: urb[t][i] is what it holds, plugged whether the device is there,
  \* caps whether it hands back URBs after that (USBFS_CAP_REAP_AFTER_DISCONNECT)
  urb, plugged, caps,
  \* transfers whose timeout lies in the past
  expired,
  \* references the flying transfers hold on the device
  refs,
  \* threads: where each one is, the transfer it works on, where the call
  \* returns to, the next URB to submit, and the timeouts still to be handled
  pc, cur, back, idx, todo,
  \* the handler's loop over the device's events, the URB it has just reaped,
  \* the status it will report, and whether it dropped the device's fd
  mode, reaped, final, fd_removed,
  \* history: whose cancel the backend accepted, and the API calls made so far
  canceller, calls

privVars == <<has_urbs, num_retired, reap_action, reap_status>>
callVars == <<cur, back, idx, todo>>
threadVars == <<pc, callVars>>
handlerVars == <<mode, reaped, final, fd_removed>>
kernelVars == <<urb, plugged, caps>>
historyVars == <<canceller, calls>>
worldVars == <<type, kernelVars, expired, refs, historyVars>>
flagVars == <<state_flags, timeout_flags>>
lockVars == <<flying_lock, transfer_lock>>
listVars == <<flying, lockVars>>
vars == <<flagVars, privVars, listVars, threadVars, handlerVars, worldVars>>
-----------------------------------------------------------------------------
NoUrb == [index |-> 0, status |-> "absent"]

Init ==
  /\ type \in {k \in [Transfer -> TransferType] : \A t \in Transfer : k[t] \in Kinds[t]}
  /\ state_flags = [t \in Transfer |-> {}]
  /\ timeout_flags = [t \in Transfer |-> {}]
  /\ has_urbs = [t \in Transfer |-> FALSE]
  /\ num_retired = [t \in Transfer |-> 0]
  /\ reap_action = [t \in Transfer |-> "NORMAL"]
  /\ reap_status = [t \in Transfer |-> "COMPLETED"]
  /\ flying = {}
  /\ flying_lock = NoOne
  /\ transfer_lock = [t \in Transfer |-> NoOne]
  /\ urb = [t \in Transfer |-> [i \in Urb |-> "absent"]]
  /\ plugged = TRUE
  /\ caps \in BOOLEAN
  /\ expired = {}
  /\ refs = 0
  /\ pc = [th \in Thread |-> "idle"]
  /\ cur = [th \in Thread |-> CHOOSE t \in Transfer : TRUE]
  /\ back = [th \in Thread |-> "idle"]
  /\ idx = [th \in Thread |-> 1]
  /\ todo = [th \in Thread |-> {}]
  /\ mode = "poll"
  /\ reaped = NoUrb
  /\ final = "COMPLETED"
  /\ fd_removed = FALSE
  /\ canceller = [t \in Transfer |-> "none"]
  /\ calls = 0

Goto(th, label) == pc' = [pc EXCEPT ![th] = label]

\* num_urbs, and whether handle_bulk_completion looks after the transfer.
UrbsOf(t) == IF type[t] = "control" THEN 1 ELSE NumUrbs
Bulk(t) == type[t] \in {"bulk", "interrupt"}

\* The URBs of t the kernel holds, and those it will still hand back.
InKernel(t) == {i \in Urb : urb[t][i] # "absent"}
Reapable == plugged \/ caps

\* Mutant: the loop of discard_urbs stops one URB early.
DiscardedShort(u, S) ==
  [i \in Urb |-> IF plugged /\ i \in S \ {1} /\ u[i] = "pending" THEN "discarded" ELSE u[i]]

\* discard_urbs for the URBs of S (IOCTL_USBFS_DISCARDURB): a pending one completes
\* at once as discarded, any other is left as it is; nothing happens once the
\* device left.
Discarded(u, S) ==
  [i \in Urb |-> IF plugged /\ i \in S /\ u[i] = "pending" THEN "discarded" ELSE u[i]]
-----------------------------------------------------------------------------
(* libusb_submit_transfer *)

\* A user thread, or a callback running in the handler, makes a call.
Call(th, t, label) ==
  /\ pc[th] \in {"idle", "callback"}
  /\ pc[th] = "idle" => th \in User
  /\ calls < MaxCalls
  /\ calls' = calls + 1
  /\ cur' = [cur EXCEPT ![th] = t]
  /\ back' = [back EXCEPT ![th] = pc[th]]
  /\ Goto(th, label)
  /\ UNCHANGED <<flagVars, privVars, listVars, type, kernelVars, expired, refs, idx, todo,
                 handlerVars, canceller>>

\* A program does not submit one transfer from two threads at a time.
Submitting == {"submit", "submit_locked", "alloc_urbs", "submit_urbs", "submit_ok",
               "submit_undo"}

SubmitTransfer(th, t) ==
  /\ \A other \in Thread : pc[other] \in Submitting => cur[other] # t
  /\ Call(th, t, "submit")

\* usbi_mutex_lock(&ctx->flying_transfers_lock)
SubmitLockFlying(th) ==
  /\ pc[th] = "submit" /\ flying_lock = NoOne
  /\ flying_lock' = th
  /\ Goto(th, "submit_locked")
  /\ UNCHANGED <<flagVars, privVars, flying, transfer_lock, worldVars, callVars,
                 handlerVars>>

\* LIBUSB_ERROR_BUSY: the transfer is already in flight.
SubmitBusy(th) ==
  LET t == cur[th] IN
  /\ pc[th] = "submit_locked" /\ transfer_lock[t] = NoOne
  /\ "IN_FLIGHT" \in state_flags[t]
  /\ flying_lock' = NoOne
  /\ Goto(th, back[th])
  /\ UNCHANGED <<flagVars, privVars, flying, transfer_lock, worldVars, callVars,
                 handlerVars>>

\* Mutant: the timeout flags of the last submission survive.
SubmitKeepsTimeoutFlags(th) ==
  LET t == cur[th] IN
  /\ pc[th] = "submit_locked" /\ transfer_lock[t] = NoOne
  /\ "IN_FLIGHT" \notin state_flags[t]
  /\ state_flags' = [state_flags EXCEPT ![t] = {}]
  /\ flying' = flying \cup {t}
  /\ expired' = expired \ {t}
  /\ transfer_lock' = [transfer_lock EXCEPT ![t] = th]
  /\ flying_lock' = NoOne
  /\ Goto(th, "alloc_urbs")
  /\ UNCHANGED <<timeout_flags, privVars, type, kernelVars, refs, callVars, handlerVars,
                 historyVars>>

\* Clear the transfer, add it to the flying list, keep only the transfer's lock.
SubmitAddFlying(th) ==
  LET t == cur[th] IN
  /\ pc[th] = "submit_locked" /\ transfer_lock[t] = NoOne
  /\ "IN_FLIGHT" \notin state_flags[t]
  /\ state_flags' = [state_flags EXCEPT ![t] = {}]
  /\ timeout_flags' = [timeout_flags EXCEPT ![t] = {}]
  /\ flying' = flying \cup {t}
  /\ expired' = expired \ {t}
  /\ transfer_lock' = [transfer_lock EXCEPT ![t] = th]
  /\ flying_lock' = NoOne
  /\ Goto(th, "alloc_urbs")
  /\ UNCHANGED <<privVars, type, kernelVars, refs, callVars, handlerVars, historyVars>>

\* submit_bulk_transfer, submit_iso_transfer and submit_control_transfer: the
\* array of URBs and the fields each type uses.
AllocUrbs(th) ==
  LET t == cur[th] IN
  /\ pc[th] = "alloc_urbs"
  /\ has_urbs' = [has_urbs EXCEPT ![t] = TRUE]
  /\ num_retired' = [num_retired EXCEPT ![t] = IF type[t] = "control" THEN @ ELSE 0]
  /\ reap_action' = [reap_action EXCEPT ![t] = "NORMAL"]
  /\ reap_status' = [reap_status EXCEPT ![t] = IF Bulk(t) THEN "COMPLETED" ELSE @]
  /\ idx' = [idx EXCEPT ![th] = 1]
  /\ Goto(th, "submit_urbs")
  /\ UNCHANGED <<flagVars, listVars, worldVars, cur, back, todo, handlerVars>>

\* Mutant: the failure path goes for the flying list without unlocking.
AllocUrbsFailsLocked(th) ==
  /\ pc[th] = "alloc_urbs"
  /\ Goto(th, "submit_undo")
  /\ UNCHANGED <<flagVars, privVars, listVars, worldVars, callVars, handlerVars>>

\* calloc failed: LIBUSB_ERROR_NO_MEM.
AllocUrbsFails(th) ==
  /\ pc[th] = "alloc_urbs"
  /\ transfer_lock' = [transfer_lock EXCEPT ![cur[th]] = NoOne]
  /\ Goto(th, "submit_undo")
  /\ UNCHANGED <<flagVars, privVars, flying, flying_lock, worldVars, callVars,
                 handlerVars>>

\* Mutant: one URB more than there are.
IsLastUrbLate(t, i) == i = UrbsOf(t) + 1

\* The end of the loop over the URBs.
IsLastUrb(t, i) == i = UrbsOf(t)

\* IOCTL_USBFS_SUBMITURB accepts the next URB; after the last one the backend
\* is done.
SubmitUrb(th) ==
  LET t == cur[th]  i == idx[th] IN
  /\ pc[th] = "submit_urbs" /\ plugged
  /\ urb' = [urb EXCEPT ![t][i] = "pending"]
  /\ idx' = [idx EXCEPT ![th] = i + 1]
  /\ Goto(th, IF IsLastUrb(t, i) THEN "submit_ok" ELSE "submit_urbs")
  /\ UNCHANGED <<flagVars, privVars, listVars, type, plugged, caps, expired, refs, cur, back,
                 todo, handlerVars, historyVars>>

\* The first URB is refused: free the array and fail.
SubmitFirstUrbFails(th) ==
  LET t == cur[th] IN
  /\ pc[th] = "submit_urbs" /\ idx[th] = 1
  /\ has_urbs' = [has_urbs EXCEPT ![t] = FALSE]
  /\ transfer_lock' = [transfer_lock EXCEPT ![t] = NoOne]
  /\ Goto(th, "submit_undo")
  /\ UNCHANGED <<flagVars, num_retired, reap_action, reap_status, flying, flying_lock,
                 worldVars, callVars, handlerVars>>

CameUpShort(t) ==
  \/ \E j \in Urb : urb[t][j] = "short"
  \/ pc[Handler] = "reaped" /\ cur[Handler] = t /\ reaped.status = "short"

\* Mutant: the refused URB itself is not counted.
RefusedFromShort(t, i) == UrbsOf(t) - i

\* The URBs that will not be submitted when the i-th is refused.
RefusedFrom(t, i) == UrbsOf(t) - i + 1

\* A later URB is refused: the rest counts as retired and, unless an earlier
\* bulk URB came up short (EREMOTEIO), the accepted ones are discarded; the
\* submission succeeds.
SubmitLaterUrbFails(th) ==
  LET t == cur[th]  i == idx[th] IN
  /\ pc[th] = "submit_urbs" /\ i > 1
  /\ num_retired' = [num_retired EXCEPT ![t] = @ + RefusedFrom(t, i)]
  /\ \/ /\ type[t] = "bulk" /\ plugged /\ CameUpShort(t)
        /\ reap_action' = [reap_action EXCEPT ![t] = "COMPLETED_EARLY"]
        /\ UNCHANGED urb
     \/ /\ reap_action' = [reap_action EXCEPT ![t] = "SUBMIT_FAILED"]
        /\ urb' = [urb EXCEPT ![t] = Discarded(@, 1..(i - 1))]
  /\ Goto(th, "submit_ok")
  /\ UNCHANGED <<flagVars, has_urbs, reap_status, listVars, type, plugged, caps, expired, refs,
                 callVars, handlerVars, historyVars>>

\* The submission is accepted, with a reference to the device, before the
\* transfer's lock is released.
SubmitSucceeds(th) ==
  LET t == cur[th] IN
  /\ pc[th] = "submit_ok"
  /\ state_flags' = [state_flags EXCEPT ![t] = @ \cup {"IN_FLIGHT"}]
  /\ refs' = refs + 1
  /\ transfer_lock' = [transfer_lock EXCEPT ![t] = NoOne]
  /\ canceller' = [canceller EXCEPT ![t] = "none"]
  /\ idx' = [idx EXCEPT ![th] = 1]
  /\ Goto(th, back[th])
  /\ UNCHANGED <<timeout_flags, privVars, flying, flying_lock, type, kernelVars, expired, cur,
                 back, todo, handlerVars, calls>>

\* Mutant: a failed submission stays on the list.
SubmitUndoForgets(th) ==
  /\ pc[th] = "submit_undo" /\ flying_lock = NoOne
  /\ Goto(th, back[th])
  /\ UNCHANGED <<flagVars, privVars, listVars, worldVars, callVars, handlerVars>>

\* The submission failed: remove_from_flying_list.
SubmitUndo(th) ==
  /\ pc[th] = "submit_undo" /\ flying_lock = NoOne
  /\ flying' = flying \ {cur[th]}
  /\ Goto(th, back[th])
  /\ UNCHANGED <<flagVars, privVars, lockVars, worldVars, callVars, handlerVars>>
-----------------------------------------------------------------------------
(* libusb_cancel_transfer and op_cancel_transfer *)

CancelTransfer(th, t) == Call(th, t, "cancel")

\* Where a cancel that returned r continues: its caller, or the timeout scan.
AfterCancel(th, r) ==
  Goto(th, IF back[th] = "scan_timeouts" /\ r = "SUCCESS" THEN "mark_timed_out"
           ELSE back[th])

\* LIBUSB_ERROR_NOT_FOUND: not in flight, or already being cancelled.
CancelNotFound(th) ==
  LET t == cur[th] IN
  /\ pc[th] = "cancel" /\ transfer_lock[t] = NoOne
  /\ "IN_FLIGHT" \notin state_flags[t] \/ "CANCELLING" \in state_flags[t]
  /\ AfterCancel(th, "NOT_FOUND")
  /\ UNCHANGED <<flagVars, privVars, listVars, worldVars, callVars, handlerVars>>

\* discard_urbs over every URB: NO_DEVICE once the device left, NOT_FOUND when
\* the last URB is no longer pending, else success.
DiscardResult(t) ==
  CASE ~has_urbs[t] -> "NOT_FOUND"
    [] has_urbs[t] /\ ~plugged -> "NO_DEVICE"
    [] has_urbs[t] /\ plugged /\ urb[t][UrbsOf(t)] # "pending" -> "NOT_FOUND"
    [] OTHER -> "SUCCESS"

\* The backend is asked; whatever it says the transfer is now CANCELLING.
CancelInFlight(th) ==
  LET t == cur[th]  r == DiscardResult(t) IN
  /\ pc[th] = "cancel" /\ transfer_lock[t] = NoOne
  /\ "IN_FLIGHT" \in state_flags[t] /\ "CANCELLING" \notin state_flags[t]
  /\ urb' = [urb EXCEPT ![t] = IF has_urbs[t] THEN Discarded(@, Urb) ELSE @]
  /\ reap_action' = [reap_action EXCEPT ![t] =
                       IF r = "SUCCESS" /\ ~(type[t] = "bulk" /\ @ = "ERROR")
                       THEN "CANCELLED" ELSE @]
  /\ state_flags' = [state_flags EXCEPT ![t] = @ \cup {"CANCELLING"} \cup
                       (IF r = "NO_DEVICE" THEN {"DEVICE_DISAPPEARED"} ELSE {})]
  /\ canceller' = [canceller EXCEPT ![t] =
                     IF r # "SUCCESS" THEN @
                     ELSE IF back[th] = "scan_timeouts" THEN "timeout" ELSE "user"]
  /\ AfterCancel(th, r)
  /\ UNCHANGED <<timeout_flags, has_urbs, num_retired, reap_status, listVars, plugged,
                 type, caps, expired, refs, callVars, handlerVars, calls>>
-----------------------------------------------------------------------------
(* handle_timeouts: by the handler when its poll times out, by a user thread *)
(* when its wait for the handler does.                                       *)

HandleTimeouts(th) ==
  /\ pc[th] = "idle"
  /\ IF th = Handler
     THEN mode = "poll" /\ UNCHANGED calls
     ELSE calls < MaxCalls /\ calls' = calls + 1
  /\ \E t \in flying \cap expired : "HANDLED" \notin timeout_flags[t]
  /\ Goto(th, "timeouts")
  /\ UNCHANGED <<flagVars, privVars, listVars, type, kernelVars, expired, refs, callVars,
                 handlerVars, canceller>>

\* Take the flying lock and read the clock.
TimeoutsLock(th) ==
  /\ pc[th] = "timeouts" /\ flying_lock = NoOne
  /\ flying_lock' = th
  /\ todo' = [todo EXCEPT ![th] = {t \in flying \cap expired : "HANDLED" \notin timeout_flags[t]}]
  /\ Goto(th, "scan_timeouts")
  /\ UNCHANGED <<flagVars, privVars, flying, transfer_lock, worldVars, cur, back, idx,
                 handlerVars>>

\* handle_timeout, as far as its call of libusb_cancel_transfer.
HandleTimeout(th, t) ==
  /\ pc[th] = "scan_timeouts" /\ t \in todo[th]
  /\ todo' = [todo EXCEPT ![th] = @ \ {t}]
  /\ timeout_flags' = [timeout_flags EXCEPT ![t] = @ \cup {"HANDLED"}]
  /\ cur' = [cur EXCEPT ![th] = t]
  /\ back' = [back EXCEPT ![th] = "scan_timeouts"]
  /\ Goto(th, "cancel")
  /\ UNCHANGED <<state_flags, privVars, listVars, worldVars, idx, handlerVars>>

\* The cancel succeeded: the transfer timed out.
MarkTimedOut(th) ==
  /\ pc[th] = "mark_timed_out"
  /\ timeout_flags' = [timeout_flags EXCEPT ![cur[th]] = @ \cup {"TIMED_OUT"}]
  /\ Goto(th, "scan_timeouts")
  /\ UNCHANGED <<state_flags, privVars, listVars, worldVars, callVars, handlerVars>>

TimeoutsUnlock(th) ==
  /\ pc[th] = "scan_timeouts" /\ todo[th] = {}
  /\ flying_lock' = NoOne
  /\ Goto(th, "idle")
  /\ UNCHANGED <<flagVars, privVars, flying, transfer_lock, worldVars, callVars,
                 handlerVars>>
-----------------------------------------------------------------------------
(* reap_for_handle and handle_bulk_completion, for bulk and interrupts *)

\* IOCTL_USBFS_REAPURBNDELAY.  URBs are handed back as they completed: one that
\* completed by itself after those before it, discarded ones in any order.
Reap(t, i) ==
  /\ pc[Handler] = "idle" /\ Reapable
  /\ mode = "drain" \/ (mode = "poll" /\ ~fd_removed)
  /\ urb[t][i] \in UrbStatus
  /\ urb[t][i] # "discarded" => \A j \in 1..(i - 1) : urb[t][j] \notin UrbStatus
  /\ reaped' = [index |-> i, status |-> urb[t][i]]
  /\ urb' = [urb EXCEPT ![t][i] = "absent"]
  /\ cur' = [cur EXCEPT ![Handler] = t]
  /\ Goto(Handler, "reaped")
  /\ UNCHANGED <<flagVars, privVars, listVars, type, plugged, caps, expired, refs, back, idx,
                 todo, mode, final, fd_removed, historyVars>>

\* The last URB is in: free the array; the status is read after the unlock.
Finish(t, status) ==
  /\ reap_status' = [reap_status EXCEPT ![t] = status]
  /\ has_urbs' = [has_urbs EXCEPT ![t] = FALSE]
  /\ Goto(Handler, "completed")
  /\ UNCHANGED urb

\* out_unlock, after discarding the URBs of S.
Continue(t, status, S) ==
  /\ reap_status' = [reap_status EXCEPT ![t] = status]
  /\ urb' = [urb EXCEPT ![t] = Discarded(@, S)]
  /\ Goto(Handler, "idle")
  /\ UNCHANGED has_urbs

\* A URB of a transfer that is cancelled, failed or already complete: wait for
\* the last one.
AbnormalReap(t) ==
  /\ reap_action[t] # "NORMAL"
  /\ UNCHANGED reap_action
  /\ IF num_retired[t] + 1 = UrbsOf(t)
     THEN Finish(t, IF reap_action[t] # "COMPLETED_EARLY" /\ reap_status[t] = "COMPLETED"
                    THEN "ERROR" ELSE reap_status[t])
     ELSE Continue(t, reap_status[t], {})

\* Mutant: free the array without waiting for the URBs that are left.
CancelRemainingAtOnce(t, status) == Finish(t, status)

\* cancel_remaining: finish, or discard the URBs after the reaped one.
CancelRemaining(t, status) ==
  IF num_retired[t] + 1 = UrbsOf(t)
  THEN Finish(t, status)
  ELSE Continue(t, status, (reaped.index + 1)..NumUrbs)

IfStillCompleted(t, status) ==
  IF reap_status[t] = "COMPLETED" THEN status ELSE reap_status[t]

\* The switch over urb->status and what follows it.
NormalReap(t) ==
  /\ reap_action[t] = "NORMAL"
  /\ \/ /\ reaped.status = "nodev"
        /\ CancelRemaining(t, "NO_DEVICE") /\ UNCHANGED reap_action
     \/ /\ reaped.status = "stall"
        /\ CancelRemaining(t, IfStillCompleted(t, "STALL")) /\ UNCHANGED reap_action
     \/ /\ reaped.status = "overflow"
        /\ Finish(t, IfStillCompleted(t, "OVERFLOW")) /\ UNCHANGED reap_action
     \/ /\ reaped.status = "bus"
        /\ reap_action' = [reap_action EXCEPT ![t] = "ERROR"]
        /\ CancelRemaining(t, IfStillCompleted(t, "ERROR"))
     \/ /\ reaped.status \in {"full", "short", "discarded"}
        /\ num_retired[t] + 1 = UrbsOf(t)
        /\ Finish(t, reap_status[t]) /\ UNCHANGED reap_action
     \/ /\ reaped.status \in {"short", "discarded"}
        /\ num_retired[t] + 1 # UrbsOf(t)
        /\ reap_action' = [reap_action EXCEPT ![t] = "COMPLETED_EARLY"]
        /\ CancelRemaining(t, reap_status[t])
     \/ /\ reaped.status = "full"
        /\ num_retired[t] + 1 # UrbsOf(t)
        /\ Continue(t, reap_status[t], {}) /\ UNCHANGED reap_action

HandleBulkCompletion ==
  LET t == cur[Handler] IN
  /\ pc[Handler] = "reaped" /\ Bulk(t) /\ transfer_lock[t] = NoOne
  /\ num_retired' = [num_retired EXCEPT ![t] = @ + 1]
  /\ AbnormalReap(t) \/ NormalReap(t)
  /\ reaped' = NoUrb
  /\ UNCHANGED <<flagVars, listVars, type, plugged, caps, expired, refs, callVars, mode,
                 final, fd_removed, historyVars>>

\* Cancelled transfers take the way through usbi_handle_transfer_cancellation.
ReadReapAction ==
  LET t == cur[Handler] IN
  /\ pc[Handler] = "completed"
  /\ IF reap_action[t] = "CANCELLED"
     THEN Goto(Handler, "cancellation") /\ UNCHANGED final
     ELSE Goto(Handler, "remove_flying") /\ final' = reap_status[t]
  /\ UNCHANGED <<flagVars, privVars, listVars, worldVars, callVars, mode, reaped,
                 fd_removed>>
-----------------------------------------------------------------------------
(* handle_iso_completion and handle_control_completion *)

\* Unlock, and report what became of the transfer.
Conclude(t, status) ==
  IF reap_action[t] = "CANCELLED"
  THEN Goto(Handler, "cancellation") /\ UNCHANGED final
  ELSE Goto(Handler, "remove_flying") /\ final' = status

\* The status an isochronous transfer gets from its last URB alone: the errors of
\* the others are in the packets.
IsoStatus ==
  CASE reaped.status \in {"full", "discarded"} -> "COMPLETED"
    [] reaped.status = "nodev"                 -> "NO_DEVICE"
    [] OTHER                                   -> "ERROR"

HandleIsoCompletion ==
  LET t == cur[Handler] IN
  /\ pc[Handler] = "reaped" /\ type[t] = "iso" /\ transfer_lock[t] = NoOne
  /\ num_retired' = [num_retired EXCEPT ![t] = @ + 1]
  /\ IF num_retired[t] + 1 = UrbsOf(t)
     THEN /\ has_urbs' = [has_urbs EXCEPT ![t] = FALSE]
          /\ Conclude(t, IF reap_action[t] = "NORMAL" THEN IsoStatus ELSE "ERROR")
     ELSE Goto(Handler, "idle") /\ UNCHANGED <<has_urbs, final>>
  /\ reaped' = NoUrb
  /\ UNCHANGED <<flagVars, reap_action, reap_status, listVars, worldVars, callVars, mode,
                 fd_removed>>

ControlStatus ==
  CASE reaped.status = "full"      -> "COMPLETED"
    [] reaped.status = "discarded" -> "CANCELLED"
    [] reaped.status = "nodev"     -> "NO_DEVICE"
    [] reaped.status = "stall"     -> "STALL"
    [] reaped.status = "overflow"  -> "OVERFLOW"
    [] OTHER                       -> "ERROR"

HandleControlCompletion ==
  LET t == cur[Handler] IN
  /\ pc[Handler] = "reaped" /\ type[t] = "control" /\ transfer_lock[t] = NoOne
  /\ has_urbs' = [has_urbs EXCEPT ![t] = FALSE]
  /\ Conclude(t, ControlStatus)
  /\ reaped' = NoUrb
  /\ UNCHANGED <<flagVars, num_retired, reap_action, reap_status, listVars, worldVars,
                 callVars, mode, fd_removed>>
-----------------------------------------------------------------------------
(* usbi_handle_transfer_cancellation and usbi_handle_transfer_completion *)

\* Mutant: the flags are read without the lock.
HandleCancellationUnlocked ==
  /\ pc[Handler] = "cancellation"
  /\ final' = IF "TIMED_OUT" \in timeout_flags[cur[Handler]] THEN "TIMED_OUT"
              ELSE "CANCELLED"
  /\ Goto(Handler, "remove_flying")
  /\ UNCHANGED <<flagVars, privVars, listVars, worldVars, callVars, mode, reaped,
                 fd_removed>>

\* Under the flying lock, so that a timeout scan that cancelled the transfer has
\* marked it.
HandleCancellation ==
  /\ pc[Handler] = "cancellation" /\ flying_lock = NoOne
  /\ final' = IF "TIMED_OUT" \in timeout_flags[cur[Handler]] THEN "TIMED_OUT"
              ELSE "CANCELLED"
  /\ Goto(Handler, "remove_flying")
  /\ UNCHANGED <<flagVars, privVars, listVars, worldVars, callVars, mode, reaped,
                 fd_removed>>

RemoveFlying ==
  /\ pc[Handler] = "remove_flying" /\ flying_lock = NoOne
  /\ flying' = flying \ {cur[Handler]}
  /\ Goto(Handler, "clear_in_flight")
  /\ UNCHANGED <<flagVars, privVars, lockVars, worldVars, callVars, handlerVars>>

ClearInFlight ==
  LET t == cur[Handler] IN
  /\ pc[Handler] = "clear_in_flight" /\ transfer_lock[t] = NoOne
  /\ state_flags' = [state_flags EXCEPT ![t] = @ \ {"IN_FLIGHT"}]
  /\ Goto(Handler, "report")
  /\ UNCHANGED <<timeout_flags, privVars, listVars, worldVars, callVars, handlerVars>>

\* transfer->callback(transfer): from here the callback's own calls run in the
\* handler.
InvokeCallback ==
  /\ pc[Handler] = "report"
  /\ final' = "COMPLETED"
  /\ Goto(Handler, "callback")
  /\ UNCHANGED <<flagVars, privVars, listVars, worldVars, callVars, mode, reaped,
                 fd_removed>>

\* Mutant: the reference leaks.
CallbackKeepsReference ==
  /\ pc[Handler] = "callback"
  /\ Goto(Handler, "idle")
  /\ UNCHANGED <<flagVars, privVars, listVars, worldVars, callVars, handlerVars>>

\* The callback returns and the reference to the device is dropped.
CallbackReturns ==
  /\ pc[Handler] = "callback"
  /\ refs' = refs - 1
  /\ Goto(Handler, "idle")
  /\ UNCHANGED <<flagVars, privVars, listVars, type, kernelVars, expired, callVars, handlerVars,
                 historyVars>>
-----------------------------------------------------------------------------
(* op_handle_events on POLLERR, and usbi_handle_disconnect *)

\* Mutant: the descriptor is dropped and nothing else is done.
PollErrorIgnored ==
  /\ pc[Handler] = "idle" /\ mode = "poll" /\ ~plugged /\ ~fd_removed
  /\ fd_removed' = TRUE
  /\ UNCHANGED <<flagVars, privVars, listVars, worldVars, threadVars, mode, reaped,
                 final>>

\* The descriptor reports POLLERR: poll it no more, and handle the disconnection,
\* once the kernel has handed back what it can.
PollError ==
  /\ pc[Handler] = "idle" /\ mode = "poll" /\ ~plugged /\ ~fd_removed
  /\ fd_removed' = TRUE
  /\ mode' = IF caps THEN "drain" ELSE "disconnect"
  /\ UNCHANGED <<flagVars, privVars, listVars, worldVars, threadVars, reaped, final>>

\* The loop "while (r == 0)" over reap_for_handle ends with nothing to reap.
DrainDone ==
  /\ pc[Handler] = "idle" /\ mode = "drain"
  /\ \A t \in Transfer : InKernel(t) = {}
  /\ mode' = "disconnect"
  /\ UNCHANGED <<flagVars, privVars, listVars, worldVars, threadVars, reaped, final,
                 fd_removed>>

DisconnectLock ==
  /\ pc[Handler] = "idle" /\ mode = "disconnect" /\ flying_lock = NoOne
  /\ flying_lock' = Handler
  /\ Goto(Handler, "scan_flying")
  /\ UNCHANGED <<flagVars, privVars, flying, transfer_lock, worldVars, callVars,
                 handlerVars>>

\* A flying transfer that is in flight is to be terminated.
DisconnectFound(t) ==
  /\ pc[Handler] = "scan_flying" /\ t \in flying
  /\ transfer_lock[t] = NoOne /\ "IN_FLIGHT" \in state_flags[t]
  /\ flying_lock' = NoOne
  /\ cur' = [cur EXCEPT ![Handler] = t]
  /\ Goto(Handler, "clear_priv")
  /\ UNCHANGED <<flagVars, privVars, flying, transfer_lock, worldVars, back, idx, todo,
                 handlerVars>>

\* Every flying transfer has been looked at, under its lock, and none is.
DisconnectDone ==
  /\ pc[Handler] = "scan_flying"
  /\ \A t \in flying : transfer_lock[t] = NoOne /\ "IN_FLIGHT" \notin state_flags[t]
  /\ flying_lock' = NoOne
  /\ mode' = "poll"
  /\ Goto(Handler, "idle")
  /\ UNCHANGED <<flagVars, privVars, flying, transfer_lock, worldVars, callVars, reaped,
                 final, fd_removed>>

\* clear_transfer_priv, then completion with LIBUSB_TRANSFER_NO_DEVICE.
ClearTransferPriv ==
  LET t == cur[Handler] IN
  /\ pc[Handler] = "clear_priv" /\ transfer_lock[t] = NoOne
  /\ has_urbs' = [has_urbs EXCEPT ![t] = FALSE]
  /\ final' = "NO_DEVICE"
  /\ Goto(Handler, "remove_flying")
  /\ UNCHANGED <<flagVars, num_retired, reap_action, reap_status, listVars, worldVars,
                 callVars, mode, reaped, fd_removed>>
-----------------------------------------------------------------------------
(* The environment: kernel, device and clock *)

\* What the device and the bus can make of a URB; the errors of isochronous
\* packets are theirs, and nothing asks for SHORT_NOT_OK in a control transfer.
UrbOutcomes(t) ==
  CASE Bulk(t)             -> {"full", "short", "stall", "overflow", "bus"}
    [] type[t] = "control" -> {"full", "stall", "overflow", "bus"}
    [] type[t] = "iso"     -> {"full", "bus"}

\* A pending URB completes by itself.  The URBs of a transfer complete in order,
\* only the last can overflow, and a bulk one that comes up short or fails may
\* take the ones queued behind it along (USBFS_URB_BULK_CONTINUATION).
KernelCompletes(t, i, status) ==
  /\ plugged
  /\ urb[t][i] = "pending" /\ \A j \in 1..(i - 1) : urb[t][j] # "pending"
  /\ status \in UrbOutcomes(t)
  /\ status = "overflow" => i = UrbsOf(t)
  /\ \E along \in {{}, (i + 1)..UrbsOf(t)} :
       /\ status = "full" \/ type[t] # "bulk" => along = {}
       /\ urb' = [urb EXCEPT ![t] = Discarded([@ EXCEPT ![i] = status], along)]
  /\ UNCHANGED <<flagVars, privVars, listVars, type, plugged, caps, expired, refs, threadVars,
                 handlerVars, historyVars>>

\* The device is unplugged: the kernel completes whatever is pending.
Unplug ==
  /\ plugged
  /\ plugged' = FALSE
  /\ urb' = [t \in Transfer |-> [i \in Urb |->
               IF urb[t][i] = "pending" THEN "nodev" ELSE urb[t][i]]]
  /\ UNCHANGED <<flagVars, privVars, listVars, type, caps, expired, refs, threadVars,
                 handlerVars, historyVars>>

\* The timeout of a flying transfer passes.
Expire(t) ==
  /\ t \in flying \cap Timed /\ t \notin expired
  /\ expired' = expired \cup {t}
  /\ UNCHANGED <<flagVars, privVars, listVars, type, kernelVars, refs, threadVars, handlerVars,
                 historyVars>>
-----------------------------------------------------------------------------
ThreadStep(th) ==
  \/ SubmitLockFlying(th) \/ SubmitBusy(th) \/ SubmitAddFlying(th)
  \/ AllocUrbs(th) \/ AllocUrbsFails(th)
  \/ SubmitUrb(th) \/ SubmitFirstUrbFails(th) \/ SubmitLaterUrbFails(th)
  \/ SubmitSucceeds(th) \/ SubmitUndo(th)
  \/ CancelNotFound(th) \/ CancelInFlight(th)
  \/ TimeoutsLock(th) \/ MarkTimedOut(th) \/ TimeoutsUnlock(th)
  \/ \E t \in Transfer : HandleTimeout(th, t)

HandlerStep ==
  \/ \E t \in Transfer, i \in Urb : Reap(t, i)
  \/ HandleBulkCompletion \/ ReadReapAction
  \/ HandleIsoCompletion \/ HandleControlCompletion
  \/ HandleCancellation \/ RemoveFlying \/ ClearInFlight \/ InvokeCallback
  \/ CallbackReturns
  \/ PollError \/ DrainDone \/ DisconnectLock \/ DisconnectDone
  \/ \E t \in Transfer : DisconnectFound(t)
  \/ ClearTransferPriv

ProgramCall(th) ==
  \E t \in Transfer : SubmitTransfer(th, t) \/ CancelTransfer(th, t)

Environment ==
  \/ \E t \in Transfer, i \in Urb, status \in UrbStatus : KernelCompletes(t, i, status)
  \/ Unplug
  \/ \E t \in Transfer : Expire(t)

\* The program has made its calls and nobody is inside libusb.
Quiescent ==
  /\ \A th \in Thread : pc[th] = "idle"
  /\ mode = "poll"

Next ==
  \/ \E th \in Thread : ThreadStep(th) \/ ProgramCall(th) \/ HandleTimeouts(th)
  \/ HandlerStep
  \/ Environment
  \/ Quiescent /\ UNCHANGED vars

Spec == Init /\ [][Next]_vars

\* Every thread finishes the call it is in, the program keeps a thread handling
\* events, its callbacks return, and the handler's poll wakes up for a timeout.
Fairness ==
  /\ \A th \in Thread : WF_vars(ThreadStep(th))
  /\ WF_vars(HandlerStep)
  /\ WF_vars(HandleTimeouts(Handler))

FairSpec == Spec /\ Fairness
-----------------------------------------------------------------------------
InFlight(t) == "IN_FLIGHT" \in state_flags[t]
Retiring(t) == cur[Handler] = t /\ pc[Handler] = "clear_in_flight"
BeingSubmitted(t) ==
  \E th \in Thread : cur[th] = t /\ pc[th] \in Submitting \ {"submit", "submit_locked"}

InCallback ==
  \/ pc[Handler] = "callback"
  \/ back[Handler] = "callback" /\ pc[Handler] \in Submitting \cup {"cancel"}

TypeOK ==
  /\ type \in [Transfer -> TransferType] /\ \A t \in Transfer : type[t] \in Kinds[t]
  /\ state_flags \in [Transfer -> SUBSET StateFlag]
  /\ timeout_flags \in [Transfer -> SUBSET TimeoutFlag]
  /\ has_urbs \in [Transfer -> BOOLEAN]
  /\ num_retired \in [Transfer -> 0..NumUrbs]
  /\ reap_action \in [Transfer -> ReapAction]
  /\ reap_status \in [Transfer -> TransferStatus]
  /\ flying \subseteq Transfer
  /\ flying_lock \in Thread \cup {NoOne}
  /\ transfer_lock \in [Transfer -> Thread \cup {NoOne}]
  /\ urb \in [Transfer -> [Urb -> UrbState]]
  /\ plugged \in BOOLEAN /\ caps \in BOOLEAN
  /\ expired \subseteq Transfer
  /\ refs \in Nat
  /\ pc \in [Thread -> Label]
  /\ cur \in [Thread -> Transfer]
  /\ back \in [Thread -> {"idle", "callback", "scan_timeouts"}]
  /\ idx \in [Thread -> 1..(NumUrbs + 1)]
  /\ todo \in [Thread -> SUBSET Transfer]
  /\ mode \in {"poll", "drain", "disconnect"}
  /\ reaped \in [index : 0..NumUrbs, status : UrbState]
  /\ final \in TransferStatus
  /\ fd_removed \in BOOLEAN
  /\ canceller \in [Transfer -> {"none", "user", "timeout"}]
  /\ calls \in 0..MaxCalls

\* The flying list and the in-flight flag tell the same story, although they are
\* changed under different locks: a transfer in flight is on the list until its
\* completion has begun to remove it, and the list holds no transfer but those
\* in flight or inside a submission.
FlyingMatchesFlags ==
  \A t \in Transfer :
    /\ InFlight(t) => t \in flying \/ Retiring(t)
    /\ t \in flying => InFlight(t) \/ BeingSubmitted(t)

\* The array of URBs is never freed while the kernel can still hand one of them
\* back to the handler.
UrbsOutliveKernel ==
  \A t \in Transfer :
    /\ Reapable /\ InKernel(t) # {} => has_urbs[t]
    /\ pc[Handler] = "reaped" /\ cur[Handler] = t => has_urbs[t]

\* Every URB of a submitted transfer is counted once: still in the kernel, in
\* the handler's hands, or retired.  A transfer completes when none is left.
EveryUrbCounted ==
  \A t \in Transfer :
    has_urbs[t] /\ ~(\E th \in Thread : cur[th] = t /\ pc[th] = "submit_urbs") =>
      num_retired[t] + Cardinality(InKernel(t))
        + (IF pc[Handler] = "reaped" /\ cur[Handler] = t THEN 1 ELSE 0) = UrbsOf(t)

\* The device is referenced once for each transfer in flight and for the one
\* whose callback is running: it cannot go away under a transfer.
DeviceReferenced ==
  refs = Cardinality({t \in Transfer : InFlight(t)})
         + (IF pc[Handler] = "report" \/ InCallback THEN 1 ELSE 0)

\* A transfer in flight is never stranded: a URB that the handler will still reap,
\* the handler at work on it, or the disconnection yet to be handled completes it.
NeverStranded ==
  \A t \in Transfer : InFlight(t) =>
    \/ Reapable /\ InKernel(t) # {} /\ (~fd_removed \/ mode = "drain")
    \/ cur[Handler] = t /\ pc[Handler] \in {"reaped", "completed", "cancellation",
                                          "remove_flying", "clear_in_flight", "clear_priv"}
    \/ ~plugged /\ (~fd_removed \/ mode # "poll")

\* The locks are taken flying list first: no thread waits for the flying list
\* with a transfer's lock that the holder of the flying list waits for.
LocksInOrder ==
  \A th \in Thread :
    pc[th] \in {"submit", "submit_undo", "timeouts", "cancellation", "remove_flying"} =>
      \A t \in Transfer : transfer_lock[t] # th

\* What the callback is told follows the contract, once per submission.
Contract == INSTANCE TransferContract WITH
  active <- [t \in Transfer |-> InFlight(t)],
  wants <- canceller,
  due <- IF pc[Handler] = "report"
         THEN [tr |-> cur[Handler], outcome |-> final] ELSE [tr |-> "none"]

ImplementsContract == Contract!Spec

\* A cancel that was accepted is followed by the callback.
CancelCompletes ==
  \A t \in Transfer : (InFlight(t) /\ canceller[t] # "none") ~> ~InFlight(t)

\* A transfer whose timeout passes is followed by the callback.
ExpiryCompletes ==
  \A t \in Transfer : (InFlight(t) /\ t \in expired) ~> ~InFlight(t)

\* Unplugging the device completes whatever is in flight.
UnplugCompletes ==
  \A t \in Transfer : (InFlight(t) /\ ~plugged) ~> ~InFlight(t)
=============================================================================
