------------------------------ MODULE RadioUsb ------------------------------
(***************************************************************************)
(* libusb as the drivers of hackrf and rtl-sdr devices use it: a handful   *)
(* of transfers under the TransferContract that UsbTransfer implements,    *)
(* the kernel's side of them (done), the one thread that handles events    *)
(* (UsbEvents), and the transfer callback that runs in it.                 *)
(***************************************************************************)
EXTENDS Naturals, FiniteSets

CONSTANTS
  TransferCount,   \* TRANSFER_COUNT, xfer_buf_num
  CanFail,         \* whether libusb's calls may fail for reasons of their own
  MaxBlocks,       \* bound on the transfers the device fills
  MaxCalls         \* bound on the calls of the program

ASSUME CountAssumption == TransferCount \in Nat \ {0}
ASSUME FailAssumption == CanFail \in BOOLEAN
ASSUME BoundAssumption == MaxBlocks \in Nat /\ MaxCalls \in Nat

Transfer == 1..TransferCount

\* The program's thread, the driver's or the one that reads, and the thread of
\* another device on the same context.
Thread == {"main", "worker", "other"}
NoOne == "no one"

VARIABLES
  active, wants, due,   \* the contract
  done,                 \* done[t]: the outcome the kernel has for t
  plugged,
  handler,              \* the thread that handles events
  callback, current,    \* where the transfer callback is, and its transfer
  pc, next,             \* threads, and the transfer the loop of one is at
  blocks, calls         \* transfers filled, calls of the program so far

usbVars == <<active, wants, due, done>>
eventVars == <<handler, callback, current>>
boundVars == <<blocks, calls>>
radioVars == <<usbVars, plugged, eventVars, pc, next, boundVars>>

Usb == INSTANCE TransferContract

RadioInit ==
  /\ Usb!Init /\ done = [t \in Transfer |-> "none"]
  /\ plugged = TRUE
  /\ handler = NoOne /\ callback = "none" /\ current = 1
  /\ next = 1
  /\ blocks = 0 /\ calls = 0

Goto(th, label) == pc' = [pc EXCEPT ![th] = label]

\* libusb_submit_transfer: BUSY while in flight, NO_DEVICE without a device.
Submit(t) == plugged /\ Usb!Accept(t) /\ UNCHANGED done
SubmitFails(t) == (active[t] \/ ~plugged \/ CanFail) /\ UNCHANGED usbVars

\* libusb_cancel_transfer is refused when the transfer is not in flight, or already
\* done or cancelled; otherwise the URBs are discarded.
CancelAccepted(t) == active[t] /\ done[t] = "none"
Cancel(t) ==
  IF CancelAccepted(t)
  THEN Usb!Want(t, "user") /\ done' = [done EXCEPT ![t] = "CANCELLED"]
  ELSE UNCHANGED usbVars

\* The device fills the transfer, or the transfer fails.
KernelCompletes(t, outcome) ==
  /\ plugged /\ active[t] /\ done[t] = "none"
  /\ outcome = "COMPLETED" => blocks < MaxBlocks
  /\ blocks' = IF outcome = "COMPLETED" THEN blocks + 1 ELSE blocks
  /\ done' = [done EXCEPT ![t] = outcome]
  /\ UNCHANGED <<active, wants, due, plugged, eventVars, pc, next, calls>>

\* What was pending completes without a device.
Unplug ==
  /\ plugged /\ plugged' = FALSE
  /\ done' = [t \in Transfer |->
                IF active[t] /\ done[t] = "none" THEN "NO_DEVICE" ELSE done[t]]
  /\ UNCHANGED <<active, wants, due, eventVars, pc, next, boundVars>>

\* Failures is the outcomes, besides COMPLETED, that the driver tells apart.
RadioEnvironment(Failures) ==
  \/ \E t \in Transfer, outcome \in {"COMPLETED"} \cup Failures :
       KernelCompletes(t, outcome)
  \/ Unplug

\* The handler reaps a transfer.
Reap(t) ==
  /\ handler # NoOne /\ callback = "none" /\ done[t] # "none"
  /\ Usb!Retire(t, done[t])
  /\ done' = [done EXCEPT ![t] = "none"]
  /\ callback' = "check" /\ current' = t
  /\ UNCHANGED <<plugged, handler, pc, next, boundVars>>

\* Thread th, whose label is at, becomes the handler.
TakeEvents(th, at, label) ==
  /\ pc[th] = at /\ handler = NoOne
  /\ handler' = th
  /\ Goto(th, label)
  /\ UNCHANGED <<usbVars, plugged, callback, current, next, boundVars>>

\* Everything that was ready has been reaped.
EventsHandled == callback = "none" /\ \A t \in Transfer : done[t] = "none"
=============================================================================
