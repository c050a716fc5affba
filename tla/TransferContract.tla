-------------------------- MODULE TransferContract --------------------------
(***************************************************************************)
(* What libusb promises the owner of an asynchronous transfer: every       *)
(* accepted submission is answered by exactly one callback, there is no    *)
(* callback without a submission, and the status handed to the callback    *)
(* agrees with whoever managed to cancel the transfer.  UsbTransfer        *)
(* implements this module.                                                 *)
(***************************************************************************)

CONSTANT Transfer            \* the transfers of one open device

VARIABLES active,            \* active[t]: submitted, callback still owed
          wants,             \* wants[t]: whose cancel request was accepted
          due                \* the callback being delivered, if any

cvars == <<active, wants, due>>

Canceller == {"none", "user", "timeout"}

Outcome == {"COMPLETED", "ERROR", "TIMED_OUT", "CANCELLED", "STALL",
            "NO_DEVICE", "OVERFLOW"}

NoCallback == [tr |-> "none"]

\* The statuses that may answer a transfer, given who cancelled it: without an
\* accepted cancel the callback never says so, and an accepted one is reported
\* as what it was unless the bus or the device failed first.
Agrees(who) ==
  CASE who = "none"    -> Outcome \ {"CANCELLED", "TIMED_OUT"}
    [] who = "user"    -> {"CANCELLED", "ERROR", "NO_DEVICE"}
    [] who = "timeout" -> {"TIMED_OUT", "ERROR", "NO_DEVICE"}

Init ==
  /\ active = [t \in Transfer |-> FALSE]
  /\ wants = [t \in Transfer |-> "none"]
  /\ due = NoCallback

\* A submission is accepted.
Accept(t) ==
  /\ ~active[t]
  /\ active' = [active EXCEPT ![t] = TRUE]
  /\ wants' = [wants EXCEPT ![t] = "none"]
  /\ UNCHANGED due

\* A cancel, by the user or by the expiry of the timeout, is accepted; at most
\* one is per submission.
Want(t, who) ==
  /\ active[t] /\ wants[t] = "none"
  /\ wants' = [wants EXCEPT ![t] = who]
  /\ UNCHANGED <<active, due>>

\* The transfer leaves libusb and its callback becomes due.
Retire(t, outcome) ==
  /\ active[t] /\ due = NoCallback
  /\ outcome \in Agrees(wants[t])
  /\ active' = [active EXCEPT ![t] = FALSE]
  /\ due' = [tr |-> t, outcome |-> outcome]
  /\ UNCHANGED wants

\* The callback is invoked.
Call ==
  /\ due # NoCallback
  /\ due' = NoCallback
  /\ UNCHANGED <<active, wants>>

Next ==
  \/ \E t \in Transfer : \/ Accept(t)
                         \/ \E who \in {"user", "timeout"} : Want(t, who)
                         \/ \E outcome \in Outcome : Retire(t, outcome)
  \/ Call

Spec == Init /\ [][Next]_cvars
=============================================================================
