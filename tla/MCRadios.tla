------------------------------ MODULE MCRadios ------------------------------
(***************************************************************************)
(* Instances of HackrfStream and RtlSdrAsync for TLC: the first state      *)
(* chooses the driver, and the variables of the other one rest.            *)
(***************************************************************************)
EXTENDS HackrfStream, RtlSdrAsync

VARIABLE driver

mcVars == <<driver, radioVars, hackrfOwn, rtlOwn>>

MCInit ==
  \/ /\ driver = "hackrf" /\ HackrfInit
     /\ async_status = "INACTIVE" /\ async_cancel = FALSE /\ next_status = "INACTIVE"
     /\ dev_lost = FALSE /\ xfer_errors = 0 /\ status = [t \in Transfer |-> "COMPLETED"]
  \/ /\ driver = "rtlsdr" /\ RtlInit
     /\ do_exit = FALSE /\ streaming = FALSE /\ transfers_setup = FALSE
     /\ transfer_thread_started = FALSE /\ allocated = TRUE

Hackrf(A) == driver = "hackrf" /\ A /\ UNCHANGED <<driver, rtlOwn>>
RtlSdr(A) == driver = "rtlsdr" /\ A /\ UNCHANGED <<driver, hackrfOwn>>

MCNext ==
  \/ Hackrf(HackrfNext)
  \/ RtlSdr(RtlNext)
  \/ RtlSdr(Over) /\ UNCHANGED mcVars

MCSpec == MCInit /\ [][MCNext]_mcVars

\* The threads run and the program's callback returns; the device owes nothing.
\* libusb_close interrupts whoever handles events, and so gets its turn in the end
\* (CloseReturns of UsbEvents).
MCFairness ==
  /\ WF_mcVars(Hackrf(HackrfEventStep) \/ RtlSdr(RtlEventStep))
  /\ WF_mcVars(Hackrf(HackrfThreadStep("worker")) \/ RtlSdr(RtlWorkerStep))
  /\ WF_mcVars(Hackrf(HackrfThreadStep("other")))
  /\ WF_mcVars(Hackrf(HackrfMainStep) \/ RtlSdr(RtlMainStep))
  /\ SF_mcVars(Hackrf(HackrfUsbClose))

MCFairSpec == MCSpec /\ MCFairness
=============================================================================
