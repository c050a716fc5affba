------------------------------ MODULE MCParts ------------------------------
(***************************************************************************)
(* Instances of UsbTimeouts, UsbHotplug, LimeFifo and LimeStreamer for     *)
(* TLC: the first state chooses the part, and the variables of the others  *)
(* rest.                                                                   *)
(***************************************************************************)
EXTENDS UsbTimeouts, UsbHotplug, LimeFifo, LimeStreamer

VARIABLE part

\* One device is plugged in from the start, the others come later.
FirstDevice == CHOOSE d \in HotplugDevice : TRUE

mcVars == <<part, timeoutVars, hotplugVars, fifoVars, streamerVars>>

TimeoutsRest == TimeoutsInit /\ using_timer = FALSE
HotplugRests == HotplugInit /\ device = [d \in HotplugDevice |-> "absent"]
FifoRests == FifoInit /\ direction = "rx"

MCInit ==
  \/ /\ part = "timeouts" /\ HotplugRests /\ FifoRests /\ StreamerInit
     /\ TimeoutsInit
  \/ /\ part = "hotplug" /\ TimeoutsRest /\ FifoRests /\ StreamerInit
     /\ HotplugInit
     /\ device = [d \in HotplugDevice |-> IF d = FirstDevice THEN "listed" ELSE "absent"]
  \/ /\ part = "fifo" /\ TimeoutsRest /\ HotplugRests /\ StreamerInit
     /\ FifoInit
  \/ part = "streamer" /\ TimeoutsRest /\ HotplugRests /\ FifoRests /\ StreamerInit

Timeouts(A) ==
  part = "timeouts" /\ A /\ UNCHANGED <<part, hotplugVars, fifoVars, streamerVars>>
Hotplug(A) ==
  part = "hotplug" /\ A /\ UNCHANGED <<part, timeoutVars, fifoVars, streamerVars>>
Fifo(A) ==
  part = "fifo" /\ A /\ UNCHANGED <<part, timeoutVars, hotplugVars, streamerVars>>
Streamer(A) ==
  part = "streamer" /\ A /\ UNCHANGED <<part, timeoutVars, hotplugVars, fifoVars>>

MCNext ==
  \/ Timeouts(TimeoutsNext)
  \/ Hotplug(HotplugNext)
  \/ Fifo(FifoNext)
  \/ Streamer(StreamerNext)
  \/ /\ Hotplug(HotplugOver) \/ Fifo(FifoOver) \/ Streamer(StreamerOver)
     /\ UNCHANGED mcVars

\* Time passes, the handler handles events, what it cancelled completes, and the
\* program's calls return.
MCFairness ==
  /\ WF_mcVars(Timeouts(Tick))
  /\ WF_mcVars(Timeouts(HandleTimeouts \/ HandleTimerTrigger))
  /\ \A t \in FlyingTransfer : WF_mcVars(Timeouts(HandledCompletes(t)))
  /\ WF_mcVars(Hotplug(HandlerStep))
  /\ WF_mcVars(Hotplug(UserStep))

MCSpec == MCInit /\ [][MCNext]_mcVars /\ MCFairness

PartsTypeOK ==
  /\ part \in {"timeouts", "hotplug", "fifo", "streamer"}
  /\ TimeoutsTypeOK
  /\ HotplugTypeOK
  /\ FifoTypeOK
  /\ StreamerTypeOK
=============================================================================
