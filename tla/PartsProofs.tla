----------------------------- MODULE PartsProofs -----------------------------
(***************************************************************************)
(* MCParts runs one of four modules and lets the others rest, so each of   *)
(* its behaviours is one of every module's, with steps that leave it       *)
(* alone. What is proved of the modules holds in it.                       *)
(***************************************************************************)
EXTENDS MCParts, UsbTimeoutsProofs, UsbHotplugProofs, LimeProofs

\* A step of MCParts is a step of one part.
LEMMA PartSteps ==
  ASSUME [MCNext]_mcVars
  PROVE  /\ [TimeoutsNext]_timeoutVars /\ [HotplugNext]_hotplugVars
         /\ [FifoNext]_fifoVars /\ [StreamerNext]_streamerVars
         /\ part' = part
<1>1. CASE Timeouts(TimeoutsNext)
  BY <1>1, Zenon DEF Timeouts
<1>2. CASE Hotplug(HotplugNext)
  BY <1>2, Zenon DEF Hotplug
<1>3. CASE Fifo(FifoNext)
  BY <1>3, Zenon DEF Fifo
<1>4. CASE Streamer(StreamerNext)
  BY <1>4, Zenon DEF Streamer
<1>5. CASE UNCHANGED mcVars
  BY <1>5, Zenon DEF mcVars
<1> QED
  BY <1>1, <1>2, <1>3, <1>4, <1>5, Zenon DEF MCNext

\* A first state of MCParts is one of each part.
LEMMA PartInits ==
  ASSUME MCInit
  PROVE  /\ TimeoutsInit /\ HotplugInit /\ FifoInit /\ StreamerInit
         /\ part \in {"timeouts", "hotplug", "fifo", "streamer"}
BY DEF MCInit, TimeoutsRest, HotplugRests, FifoRests

\* A behaviour of MCParts is one of each module.
THEOREM PartsRun ==
  MCSpec => TimeoutsSpec /\ HotplugSpec /\ FifoSpec /\ StreamerSpec
<1> QED
  BY PartInits, PartSteps, PTL DEF MCSpec, TimeoutsSpec, HotplugSpec, FifoSpec, StreamerSpec

\* Every variable of the four parts has its type: in particular the positions of the ring
\* (RingFIFO) stay in the ring and in a packet, and the references of a device, which are
\* counted down, stay numbers.
THEOREM PartsTypeCorrect == MCSpec => []PartsTypeOK
<1> DEFINE Part == part \in {"timeouts", "hotplug", "fifo", "streamer"}
<1>1. MCInit => Part
  BY PartInits
<1>2. Part /\ [MCNext]_mcVars => Part'
  BY PartSteps
<1>3. MCSpec => []Part
  BY <1>1, <1>2, PTL DEF MCSpec
<1>4. TimeoutsInv => TimeoutsTypeOK
  BY DEF TimeoutsInv
<1>5. HotplugInv => HotplugTypeOK
  BY DEF HotplugInv
<1>6. FifoInv => FifoTypeOK
  BY DEF FifoInv
<1>7. Part /\ TimeoutsTypeOK /\ HotplugTypeOK /\ FifoTypeOK /\ StreamerTypeOK => PartsTypeOK
  BY DEF PartsTypeOK
<1> QED
  BY <1>3, <1>4, <1>5, <1>6, <1>7, PartsRun, TimeoutsInvariance, HotplugInvariance,
     FifoInvariance, StreamerTypeCorrect, PTL

\* What the run of the four parts checks of their safety, for any constants.
THEOREM PartsCorrect ==
  MCSpec => [](NextTimeoutKnown /\ NothingFreedInUse /\ EventsReported /\ FifoInOrder
                 /\ ThreadsFitStreams)
BY PartsRun, TimeoutKnown, NothingFreed, NothingMissed, OrderKept, RunningThreadsFit, PTL
=============================================================================
