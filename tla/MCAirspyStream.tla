--------------------------- MODULE MCAirspyStream ---------------------------
(***************************************************************************)
(* Instances of AirspyStream and of its two descendants for TLC: the first *)
(* state chooses the driver, and every property is asked of each driver.   *)
(***************************************************************************)
EXTENDS AirspyHfStream, HydrasdrStream

CONSTANT Drivers         \* the drivers to check

VARIABLE driver

mcVars == <<driver, hfVars>>

MCInit == HfInit /\ driver \in Drivers

Airspy(A) == driver = "airspy" /\ A /\ UNCHANGED <<driver, transfer_live>>
AirspyHf(A) == driver = "airspyhf" /\ A /\ UNCHANGED driver
Hydrasdr(A) == driver = "hydrasdr" /\ A /\ UNCHANGED <<driver, transfer_live>>

MCNext == Airspy(Next) \/ AirspyHf(HfNext) \/ Hydrasdr(HydraNext)

MCSpec == MCInit /\ [][MCNext]_mcVars

\* The threads run, a control transfer handles events, and the program's
\* callback returns; the device owes nothing.
MCFairness ==
  /\ WF_mcVars(Airspy(EventStep) \/ AirspyHf(HfEventStep) \/ Hydrasdr(HydraEventStep))
  /\ WF_mcVars(Airspy(IoStep) \/ AirspyHf(HfIoStep) \/ Hydrasdr(HydraIoStep))
  /\ WF_mcVars(Airspy(ConsumerStep) \/ AirspyHf(HfConsumerStep)
                 \/ Hydrasdr(HydraConsumerStep))
  /\ WF_mcVars(Airspy(MainStep) \/ AirspyHf(HfMainStep) \/ Hydrasdr(HydraMainStep))
  /\ WF_mcVars(Airspy(MainHandlesEvents) \/ AirspyHf(HfMainHandlesEvents)
                 \/ Hydrasdr(HydraMainHandlesEvents))

MCFairSpec == MCSpec /\ MCFairness
-----------------------------------------------------------------------------
\* When a stream is over no thread of it is left, to read what a later call frees,
\* and no callback is past the test that keeps it away from the ring: one that runs
\* inside a control transfer of the program's thread goes no further than that.  In
\* libairspyhf and libhydrasdr a stream that ends by itself keeps its threads until
\* they are joined (created).
NoThreadOutlivesStream ==
  ~streaming /\ (driver # "airspy" => created = {})
    => /\ pc["io"] = "exited" /\ pc["consumer"] = "exited"
       /\ callback \notin {"queue", "submit", "count"}

\* transfer_live of libairspyhf.
TransfersCounted == driver = "airspyhf" => LiveCountExact
=============================================================================
