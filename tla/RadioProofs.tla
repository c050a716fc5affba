----------------------------- MODULE RadioProofs -----------------------------
(***************************************************************************)
(* Proofs about HackrfStream and RtlSdrAsync as MCRadios puts them side by *)
(* side, for any number of transfers and any bounds.                       *)
(*                                                                         *)
(* HackrfInv says who handles events and where every transfer of a stream  *)
(* is, from its submission on: a stream that began with fewer transfers,   *)
(* or with one that is about to come back cancelled, would lose it without *)
(* a sign later. RtlInv ties async_status, which rtlsdr_close waits for,   *)
(* to the place of the thread that reads.                                  *)
(***************************************************************************)
EXTENDS MCRadios, TLAPS

HackrfLabel == {"idle", "start_mode", "stop_mode", "close_mode_rx", "close_mode_tx",
                "prepare_check", "prepare", "started", "stop_cancel", "kill", "kill_cancel",
                "request_exit", "join", "usb_close", "free", "closed",
                "loop", "events", "exited"}

HackrfTypes ==
  /\ active \in [Transfer -> BOOLEAN]
  /\ done \in [Transfer -> {"none"} \cup Usb!Outcome]
  /\ pc \in [Thread -> HackrfLabel]
  /\ handler \in Thread \cup {NoOne}
  /\ callback \in {"none", "check", "program", "submit"} /\ current \in Transfer
  /\ next \in Nat \ {0}
  /\ do_exit \in BOOLEAN /\ streaming \in BOOLEAN
  /\ transfer_thread_started \in BOOLEAN /\ allocated \in BOOLEAN

\* A callback runs in the thread that handles events, and the kernel has the outcomes of
\* transfers in flight only.
HandlerInv ==
  /\ \A th \in {"worker", "other"} : pc[th] = "events" <=> handler = th
  /\ handler = "main" => pc["main"] \in HackrfControl
  /\ callback # "none" => handler # NoOne
  /\ \A t \in Transfer : done[t] # "none" => active[t]

\* In flight or in its callback, and not about to be taken for cancelled.
Kept(t) ==
  \/ active[t] /\ done[t] # "CANCELLED"
  \/ /\ callback # "none" /\ current = t
     /\ callback = "check" => due.outcome # "CANCELLED"

Cancelling == {"kill_cancel", "request_exit", "join"}

\* A stream keeps its transfers from their submission to the cancel.
DropoutInv ==
  /\ hackrf_is_streaming /\ pc["main"] \notin Cancelling => \A t \in Transfer : Kept(t)
  /\ ~do_exit /\ pc["main"] = "started" => \A t \in Transfer : Kept(t)
  /\ ~do_exit /\ pc["main"] = "prepare" => \A t \in Transfer : t < next => Kept(t)
  /\ pc["main"] \in {"start_mode", "prepare_check"} => next = 1
  /\ pc["main"] = "stop_cancel" => ~streaming
  /\ pc["main"] = "join" => do_exit

\* What hackrf_close has ended by the time it frees.
ClosingInv ==
  /\ pc["main"] \in {"usb_close", "free", "closed"} =>
       pc["worker"] = "exited" /\ ~transfer_thread_started
  /\ pc["main"] \in {"free", "closed"} =>
       callback = "none" /\ \A t \in Transfer : ~active[t] /\ done[t] = "none"
  /\ ~allocated => pc["main"] = "closed"

HackrfInv == HackrfTypes /\ HandlerInv /\ DropoutInv /\ ClosingInv

RtlLabel == {"idle", "cancel_status", "cancel_flag", "control", "close_wait", "usb_close",
             "closed", "none", "out", "submit", "read_loop", "read_events", "check", "cancel",
             "cancel_events", "cancel_handling", "last_events", "last_handling", "free",
             "freed", "freed in use"}

\* rtlsdr_read_async has not returned until async_status says so, and rtlsdr_close, once it
\* has waited for that, is the last call.
RtlInv ==
  /\ pc \in [Thread -> RtlLabel]
  /\ InReadAsync => async_status # "INACTIVE"
  /\ pc["main"] \in {"usb_close", "closed"} /\ ~dev_lost => ~InReadAsync

RadioInv ==
  /\ driver \in {"hackrf", "rtlsdr"}
  /\ driver = "hackrf" => HackrfInv
  /\ driver = "rtlsdr" => RtlInv /\ allocated /\ ~transfer_thread_started
-----------------------------------------------------------------------------
\* An opened device.
LEMMA InitInv == MCInit => RadioInv
<1> SUFFICES ASSUME MCInit PROVE RadioInv
  OBVIOUS
<1> USE DEF Thread
<1>1. CASE driver = "hackrf"
  <2>1. HackrfInit
    BY <1>1 DEF MCInit
  <2>2. HackrfTypes
    <3>1. active \in [Transfer -> BOOLEAN] /\ done \in [Transfer -> {"none"} \cup Usb!Outcome]
      BY <2>1 DEF HackrfInit, RadioInit, Usb!Init
    <3>2. pc \in [Thread -> HackrfLabel]
      BY <2>1 DEF HackrfInit, HackrfLabel
    <3>3. 1 \in Transfer /\ 1 \in Nat \ {0}
      BY CountAssumption DEF Transfer
    <3> QED
      BY <2>1, <3>1, <3>2, <3>3 DEF HackrfInit, HackrfTypes, RadioInit, NoOne
  <2>3. HandlerInv
    <3>1. pc["worker"] = "loop" /\ pc["other"] = "loop"
      BY <2>1 DEF HackrfInit
    <3>2. handler = "no one" /\ callback = "none" /\ \A t \in Transfer : done[t] = "none"
      BY <2>1 DEF HackrfInit, RadioInit, NoOne
    <3> QED
      BY <3>1, <3>2 DEF HandlerInv
  <2>4. DropoutInv /\ ClosingInv
    BY <2>1 DEF HackrfInit, DropoutInv, ClosingInv, hackrf_is_streaming
  <2> QED
    BY <1>1, <2>2, <2>3, <2>4 DEF RadioInv, HackrfInv
<1>2. CASE driver = "rtlsdr"
  <2>1. RtlInit /\ allocated /\ ~transfer_thread_started
    BY <1>2 DEF MCInit
  <2>2. pc \in [Thread -> RtlLabel]
    <3>1. pc = [main |-> "idle", worker |-> "out", other |-> "none"]
      BY <2>1 DEF RtlInit
    <3>2. pc \in [Thread -> {"idle", "out", "none"}]
      BY <3>1
    <3>3. {"idle", "out", "none"} \subseteq RtlLabel
      BY DEF RtlLabel
    <3> QED
      BY <3>2, <3>3
  <2>3. ~InReadAsync
    BY <2>1 DEF RtlInit, InReadAsync
  <2> QED
    BY <1>2, <2>1, <2>2, <2>3 DEF RadioInv, RtlInv
<1> QED
  BY <1>1, <1>2 DEF MCInit

\* The types.
LEMMA HackrfTypesStay == ASSUME HackrfInv, [HackrfNext]_hackrfVars PROVE HackrfTypes'
<1> USE DEF usbVars, eventVars, boundVars, hackrfOwn, Goto, Thread, NoOne
<1> USE DEF HackrfInv, HackrfTypes, HackrfLabel, Usb!Outcome
<1>1. ASSUME NEW tr \in Transfer, Reap(tr) /\ UNCHANGED hackrfOwn PROVE HackrfTypes'
  BY <1>1 DEF Reap, Usb!Retire
<1>2. CASE HackrfCallbackCheck
  BY <1>2 DEF HackrfCallbackCheck, Usb!Call
<1>3. CASE HackrfProgramReturns
  BY <1>3 DEF HackrfProgramReturns
<1>4. CASE HackrfResubmit
  BY <1>4 DEF HackrfResubmit, Submit, SubmitFails, Usb!Accept
<1>5. CASE HackrfThreadHandles
  <2>1. active' \in [Transfer -> BOOLEAN] /\ done' \in [Transfer -> {"none"} \cup Usb!Outcome]
    BY <1>5 DEF HackrfThreadHandles, TakeEvents
  <2>2. pc' \in [Thread -> HackrfLabel]
    BY <1>5 DEF HackrfThreadHandles, TakeEvents
  <2>3. handler' \in Thread \cup {NoOne} /\ current' \in Transfer /\ next' \in Nat \ {0}
    BY <1>5 DEF HackrfThreadHandles, TakeEvents
  <2>4. callback' \in {"none", "check", "program", "submit"}
    BY <1>5 DEF HackrfThreadHandles, TakeEvents
  <2>5. do_exit' \in BOOLEAN /\ streaming' \in BOOLEAN /\ transfer_thread_started' \in BOOLEAN
       /\ allocated' \in BOOLEAN
    BY <1>5 DEF HackrfThreadHandles, TakeEvents
  <2> QED
    BY <2>1, <2>2, <2>3, <2>4, <2>5
<1>6. CASE HackrfThreadExits
  BY <1>6 DEF HackrfThreadExits
<1>7. ASSUME NEW h \in {"worker", "other"}, HackrfThreadHandled(h) PROVE HackrfTypes'
  BY <1>7 DEF HackrfThreadHandled, EventsHandled
<1>8. CASE HackrfMainHandles
  BY <1>8 DEF HackrfMainHandles, HackrfControl
<1>9. CASE HackrfControlDone
  <2>1. active' \in [Transfer -> BOOLEAN] /\ done' \in [Transfer -> {"none"} \cup Usb!Outcome]
    BY <1>9 DEF HackrfControlDone, HackrfControl
  <2>2. pc' \in [Thread -> HackrfLabel]
    BY <1>9 DEF HackrfControlDone, HackrfControl
  <2>3. handler' \in Thread \cup {NoOne} /\ current' \in Transfer /\ next' \in Nat \ {0}
    BY <1>9 DEF HackrfControlDone, HackrfControl
  <2>4. callback' \in {"none", "check", "program", "submit"}
    BY <1>9 DEF HackrfControlDone, HackrfControl
  <2>5. do_exit' \in BOOLEAN /\ streaming' \in BOOLEAN /\ transfer_thread_started' \in BOOLEAN
       /\ allocated' \in BOOLEAN
    BY <1>9 DEF HackrfControlDone, HackrfControl
  <2> QED
    BY <2>1, <2>2, <2>3, <2>4, <2>5
<1>10. CASE HackrfPrepare
  BY <1>10 DEF HackrfPrepare
<1>11. CASE HackrfPrepareTransfer
  <2>1. active' \in [Transfer -> BOOLEAN] /\ done' \in [Transfer -> {"none"} \cup Usb!Outcome]
    BY <1>11 DEF HackrfPrepareTransfer, Submit, SubmitFails, Usb!Accept
  <2>2. pc' \in [Thread -> HackrfLabel]
    BY <1>11 DEF HackrfPrepareTransfer, Submit, SubmitFails, Usb!Accept
  <2>3. handler' \in Thread \cup {NoOne} /\ current' \in Transfer /\ next' \in Nat \ {0}
    <3>1. next' = next + 1 \/ next' = next
      BY <1>11 DEF HackrfPrepareTransfer, Submit, SubmitFails, Usb!Accept
    <3>2. next \in Nat \ {0}
      OBVIOUS
    <3>3. next' \in Nat \ {0}
      <4> HIDE DEF HackrfInv, HackrfTypes
      <4> QED
        BY <3>1, <3>2
    <3> QED
      BY <1>11, <3>3 DEF HackrfPrepareTransfer, Submit, SubmitFails, Usb!Accept
  <2>4. callback' \in {"none", "check", "program", "submit"}
    BY <1>11 DEF HackrfPrepareTransfer, Submit, SubmitFails, Usb!Accept
  <2>5. do_exit' \in BOOLEAN /\ streaming' \in BOOLEAN /\ transfer_thread_started' \in BOOLEAN
       /\ allocated' \in BOOLEAN
    BY <1>11 DEF HackrfPrepareTransfer, Submit, SubmitFails, Usb!Accept
  <2> QED
    BY <2>1, <2>2, <2>3, <2>4, <2>5
<1>12. CASE HackrfPrepared
  BY <1>12 DEF HackrfPrepared
<1>13. CASE HackrfStarted
  BY <1>13 DEF HackrfStarted
<1>14. CASE HackrfCancelTransfer
  <2>1. active' \in [Transfer -> BOOLEAN] /\ done' \in [Transfer -> {"none"} \cup Usb!Outcome]
    BY <1>14 DEF HackrfCancelTransfer, Cancel, CancelAccepted, Usb!Want
  <2>2. pc' \in [Thread -> HackrfLabel]
    BY <1>14 DEF HackrfCancelTransfer, Cancel, CancelAccepted, Usb!Want
  <2>3. handler' \in Thread \cup {NoOne} /\ current' \in Transfer /\ next' \in Nat \ {0}
    <3>1. next' = next + 1 \/ next' = next
      BY <1>14 DEF HackrfCancelTransfer, Cancel, CancelAccepted, Usb!Want
    <3>2. next \in Nat \ {0}
      OBVIOUS
    <3>3. next' \in Nat \ {0}
      <4> HIDE DEF HackrfInv, HackrfTypes
      <4> QED
        BY <3>1, <3>2
    <3> QED
      BY <1>14, <3>3 DEF HackrfCancelTransfer, Cancel, CancelAccepted, Usb!Want
  <2>4. callback' \in {"none", "check", "program", "submit"}
    BY <1>14 DEF HackrfCancelTransfer, Cancel, CancelAccepted, Usb!Want
  <2>5. do_exit' \in BOOLEAN /\ streaming' \in BOOLEAN /\ transfer_thread_started' \in BOOLEAN
       /\ allocated' \in BOOLEAN
    BY <1>14 DEF HackrfCancelTransfer, Cancel, CancelAccepted, Usb!Want
  <2> QED
    BY <2>1, <2>2, <2>3, <2>4, <2>5
<1>15. CASE HackrfCancelled
  BY <1>15 DEF HackrfCancelled
<1>16. CASE HackrfKill
  <2>1. active' \in [Transfer -> BOOLEAN] /\ done' \in [Transfer -> {"none"} \cup Usb!Outcome]
    BY <1>16 DEF HackrfKill
  <2>2. pc' \in [Thread -> HackrfLabel]
    BY <1>16 DEF HackrfKill
  <2>3. handler' \in Thread \cup {NoOne} /\ current' \in Transfer /\ next' \in Nat \ {0}
    <3>1. next' = 1
      BY <1>16 DEF HackrfKill
    <3>2. next' \in Nat \ {0}
      <4> HIDE DEF HackrfInv, HackrfTypes
      <4> QED
        BY <3>1
    <3> QED
      BY <1>16, <3>2 DEF HackrfKill
  <2>4. callback' \in {"none", "check", "program", "submit"}
    BY <1>16 DEF HackrfKill
  <2>5. do_exit' \in BOOLEAN /\ streaming' \in BOOLEAN /\ transfer_thread_started' \in BOOLEAN
       /\ allocated' \in BOOLEAN
    BY <1>16 DEF HackrfKill
  <2> QED
    BY <2>1, <2>2, <2>3, <2>4, <2>5
<1>17. CASE HackrfRequestExit
  BY <1>17 DEF HackrfRequestExit
<1>18. CASE HackrfJoin
  BY <1>18 DEF HackrfJoin
<1>19. CASE HackrfFree
  BY <1>19 DEF HackrfFree
<1>20. CASE HackrfUsbClose
  BY <1>20 DEF HackrfUsbClose
<1>21. CASE HackrfStart
  <2>1. active' \in [Transfer -> BOOLEAN] /\ done' \in [Transfer -> {"none"} \cup Usb!Outcome]
    BY <1>21 DEF HackrfStart, HackrfCall
  <2>2. pc' \in [Thread -> HackrfLabel]
    BY <1>21 DEF HackrfStart, HackrfCall
  <2>3. handler' \in Thread \cup {NoOne} /\ current' \in Transfer /\ next' \in Nat \ {0}
    <3>1. next' = 1
      BY <1>21 DEF HackrfStart, HackrfCall
    <3>2. next' \in Nat \ {0}
      <4> HIDE DEF HackrfInv, HackrfTypes
      <4> QED
        BY <3>1
    <3> QED
      BY <1>21, <3>2 DEF HackrfStart, HackrfCall
  <2>4. callback' \in {"none", "check", "program", "submit"}
    BY <1>21 DEF HackrfStart, HackrfCall
  <2>5. do_exit' \in BOOLEAN /\ streaming' \in BOOLEAN /\ transfer_thread_started' \in BOOLEAN
       /\ allocated' \in BOOLEAN
    BY <1>21 DEF HackrfStart, HackrfCall
  <2> QED
    BY <2>1, <2>2, <2>3, <2>4, <2>5
<1>22. CASE HackrfStop
  <2>1. active' \in [Transfer -> BOOLEAN] /\ done' \in [Transfer -> {"none"} \cup Usb!Outcome]
    BY <1>22 DEF HackrfStop, HackrfCall
  <2>2. pc' \in [Thread -> HackrfLabel]
    BY <1>22 DEF HackrfStop, HackrfCall
  <2>3. handler' \in Thread \cup {NoOne} /\ current' \in Transfer /\ next' \in Nat \ {0}
    <3>1. next' = 1
      BY <1>22 DEF HackrfStop, HackrfCall
    <3>2. next' \in Nat \ {0}
      <4> HIDE DEF HackrfInv, HackrfTypes
      <4> QED
        BY <3>1
    <3> QED
      BY <1>22, <3>2 DEF HackrfStop, HackrfCall
  <2>4. callback' \in {"none", "check", "program", "submit"}
    BY <1>22 DEF HackrfStop, HackrfCall
  <2>5. do_exit' \in BOOLEAN /\ streaming' \in BOOLEAN /\ transfer_thread_started' \in BOOLEAN
       /\ allocated' \in BOOLEAN
    BY <1>22 DEF HackrfStop, HackrfCall
  <2> QED
    BY <2>1, <2>2, <2>3, <2>4, <2>5
<1>23. CASE HackrfClose
  BY <1>23 DEF HackrfClose
<1>24. ASSUME NEW tr \in Transfer, NEW outcome \in {"COMPLETED", "ERROR"},
     KernelCompletes(tr, outcome) /\ UNCHANGED hackrfOwn PROVE HackrfTypes'
  BY <1>24 DEF KernelCompletes
<1>25. CASE Unplug /\ UNCHANGED hackrfOwn
  BY <1>25 DEF Unplug
<1>26. CASE UNCHANGED <<radioVars, hackrfOwn>>
  BY <1>26 DEF radioVars
<1> QED
  BY <1>1, <1>2, <1>3, <1>4, <1>5, <1>6, <1>7, <1>8, <1>9, <1>10, <1>11, <1>12, <1>13,
       <1>14, <1>15, <1>16, <1>17, <1>18, <1>19, <1>20, <1>21, <1>22, <1>23, <1>24, <1>25,
       <1>26 DEF HackrfNext, HackrfEventStep, HackrfThreadStep, HackrfMainStep,
       RadioEnvironment, hackrfVars

\* Who handles events.
LEMMA HandlersStay == ASSUME HackrfInv, [HackrfNext]_hackrfVars PROVE HandlerInv'
<1> USE DEF usbVars, eventVars, boundVars, hackrfOwn, Goto, Thread, NoOne
<1> USE DEF HackrfInv, HackrfTypes, HackrfControl, HandlerInv
<1>1. ASSUME NEW tr \in Transfer, Reap(tr) /\ UNCHANGED hackrfOwn PROVE HandlerInv'
  BY <1>1 DEF Reap, Usb!Retire
<1>2. CASE HackrfCallbackCheck
  BY <1>2 DEF HackrfCallbackCheck, Usb!Call
<1>3. CASE HackrfProgramReturns
  BY <1>3 DEF HackrfProgramReturns
<1>4. CASE HackrfResubmit
  BY <1>4 DEF HackrfResubmit, Submit, SubmitFails, Usb!Accept
<1>5. CASE HackrfThreadHandles
  BY <1>5 DEF HackrfThreadHandles, TakeEvents
<1>6. CASE HackrfThreadExits
  BY <1>6 DEF HackrfThreadExits
<1>7. ASSUME NEW h \in {"worker", "other"}, HackrfThreadHandled(h) PROVE HandlerInv'
  BY <1>7 DEF HackrfThreadHandled, EventsHandled
<1>8. CASE HackrfMainHandles
  BY <1>8 DEF HackrfMainHandles, HackrfControl
<1>9. CASE HackrfControlDone
  BY <1>9 DEF HackrfControlDone, HackrfControl
<1>10. CASE HackrfPrepare
  BY <1>10 DEF HackrfPrepare
<1>11. CASE HackrfPrepareTransfer
  BY <1>11 DEF HackrfPrepareTransfer, Submit, SubmitFails, Usb!Accept
<1>12. CASE HackrfPrepared
  BY <1>12 DEF HackrfPrepared
<1>13. CASE HackrfStarted
  BY <1>13 DEF HackrfStarted
<1>14. CASE HackrfCancelTransfer
  BY <1>14 DEF HackrfCancelTransfer, Cancel, CancelAccepted, Usb!Want
<1>15. CASE HackrfCancelled
  BY <1>15 DEF HackrfCancelled
<1>16. CASE HackrfKill
  BY <1>16 DEF HackrfKill
<1>17. CASE HackrfRequestExit
  BY <1>17 DEF HackrfRequestExit
<1>18. CASE HackrfJoin
  BY <1>18 DEF HackrfJoin
<1>19. CASE HackrfFree
  BY <1>19 DEF HackrfFree
<1>20. CASE HackrfUsbClose
  BY <1>20 DEF HackrfUsbClose
<1>21. CASE HackrfStart
  BY <1>21 DEF HackrfStart, HackrfCall
<1>22. CASE HackrfStop
  BY <1>22 DEF HackrfStop, HackrfCall
<1>23. CASE HackrfClose
  BY <1>23 DEF HackrfClose
<1>24. ASSUME NEW tr \in Transfer, NEW outcome \in {"COMPLETED", "ERROR"},
     KernelCompletes(tr, outcome) /\ UNCHANGED hackrfOwn PROVE HandlerInv'
  BY <1>24 DEF KernelCompletes
<1>25. CASE Unplug /\ UNCHANGED hackrfOwn
  BY <1>25 DEF Unplug
<1>26. CASE UNCHANGED <<radioVars, hackrfOwn>>
  BY <1>26 DEF radioVars
<1> QED
  BY <1>1, <1>2, <1>3, <1>4, <1>5, <1>6, <1>7, <1>8, <1>9, <1>10, <1>11, <1>12, <1>13,
       <1>14, <1>15, <1>16, <1>17, <1>18, <1>19, <1>20, <1>21, <1>22, <1>23, <1>24, <1>25,
       <1>26 DEF HackrfNext, HackrfEventStep, HackrfThreadStep, HackrfMainStep,
       RadioEnvironment, hackrfVars

\* Where the transfers of a stream are.
LEMMA DropoutsStay == ASSUME HackrfInv, [HackrfNext]_hackrfVars PROVE DropoutInv'
<1> USE DEF usbVars, eventVars, boundVars, hackrfOwn, Goto, Thread, NoOne
<1> USE DEF HackrfInv, HackrfTypes, HackrfControl, HandlerInv, DropoutInv, ClosingInv, Kept,
     Cancelling, hackrf_is_streaming
<1>1. ASSUME NEW tr \in Transfer, Reap(tr) /\ UNCHANGED hackrfOwn PROVE DropoutInv'
  BY <1>1 DEF Reap, Usb!Retire
<1>2. CASE HackrfCallbackCheck
  <2>1. /\ UNCHANGED <<active, done, current, pc, next, transfer_thread_started>>
        /\ callback = "check"
        /\ \/ callback' = "program" /\ UNCHANGED <<do_exit, streaming>>
           \/ /\ due.outcome = "CANCELLED" /\ callback' = "none"
              /\ UNCHANGED <<do_exit, streaming>>
           \/ do_exit' = TRUE /\ streaming' = FALSE
    BY <1>2 DEF HackrfCallbackCheck, Usb!Call
  <2>2. CASE do_exit' = TRUE /\ streaming' = FALSE
    BY <2>1, <2>2
  <2>3. CASE UNCHANGED <<do_exit, streaming>>
    <3>1. ASSUME NEW t \in Transfer, ~do_exit', Kept(t) PROVE Kept(t)'
      BY <2>1, <2>3, <3>1
    <3> QED
      BY <2>1, <2>3, <3>1
  <2> QED
    BY <2>1, <2>2, <2>3
<1>3. CASE HackrfProgramReturns
  BY <1>3 DEF HackrfProgramReturns
<1>4. CASE HackrfResubmit
  BY <1>4 DEF HackrfResubmit, Submit, SubmitFails, Usb!Accept
<1>5. CASE HackrfThreadHandles
  BY <1>5 DEF HackrfThreadHandles, TakeEvents
<1>6. CASE HackrfThreadExits
  BY <1>6 DEF HackrfThreadExits
<1>7. ASSUME NEW h \in {"worker", "other"}, HackrfThreadHandled(h) PROVE DropoutInv'
  BY <1>7 DEF HackrfThreadHandled, EventsHandled
<1>8. CASE HackrfMainHandles
  BY <1>8 DEF HackrfMainHandles, HackrfControl
<1>9. CASE HackrfControlDone
  BY <1>9 DEF HackrfControlDone, HackrfControl
<1>10. CASE HackrfPrepare
  <2>1. /\ UNCHANGED <<usbVars, eventVars, next, hackrfOwn>>
        /\ pc["main"] = "prepare_check" /\ pc'["main"] \in {"idle", "prepare"}
    BY <1>10 DEF HackrfPrepare
  <2>2. next = 1
    BY <2>1
  <2>3. \A t \in Transfer : ~(t < next)
    <3> HIDE DEF HackrfInv, HackrfTypes
    <3> QED
      BY <2>2, CountAssumption DEF Transfer
  <2>4. hackrf_is_streaming => \A t \in Transfer : Kept(t)
    BY <2>1
  <2> QED
    BY <2>1, <2>2, <2>3, <2>4
<1>11. CASE HackrfPrepareTransfer
  <2>1. /\ UNCHANGED <<done, eventVars, due, hackrfOwn>>
        /\ pc["main"] = "prepare"
        /\ \/ /\ active' = [active EXCEPT ![next] = TRUE] /\ next' = next + 1
              /\ ~active[next] /\ UNCHANGED pc
           \/ UNCHANGED <<active, next>> /\ pc' = [pc EXCEPT !["main"] = "idle"]
    BY <1>11 DEF HackrfPrepareTransfer, Submit, SubmitFails, Usb!Accept
  <2>2. next \in Nat \ {0} /\ next <= TransferCount
    BY <1>11 DEF HackrfPrepareTransfer, Submit, SubmitFails, Usb!Accept
  <2>3. /\ next \in Transfer
        /\ next' = next + 1 => \A t \in Transfer : t < next' => t < next \/ t = next
    <3> HIDE DEF HackrfInv, HackrfTypes
    <3> QED
      BY <2>2, CountAssumption DEF Transfer
  <2>4. \A t \in Transfer : Kept(t) => Kept(t)'
    BY <2>1, <2>3
  <2>5. CASE /\ active' = [active EXCEPT ![next] = TRUE] /\ next' = next + 1
             /\ ~active[next] /\ UNCHANGED pc
    <3>1. ASSUME NEW t \in Transfer, t = next PROVE Kept(t)'
      <4>1. active'[t]
        BY <2>3, <2>5, <3>1
      <4>2. done'[t] = "none"
        BY <2>1, <2>3, <2>5, <3>1
      <4> QED
        BY <4>1, <4>2
    <3> QED
      BY <2>1, <2>3, <2>4, <2>5, <3>1
  <2>6. CASE UNCHANGED <<active, next>> /\ pc' = [pc EXCEPT !["main"] = "idle"]
    BY <2>1, <2>4, <2>6
  <2> QED
    BY <2>1, <2>5, <2>6
<1>12. CASE HackrfPrepared
  <2>1. /\ UNCHANGED <<usbVars, eventVars, next, do_exit, streaming, transfer_thread_started>>
        /\ pc["main"] = "prepare" /\ pc'["main"] = "started" /\ next > TransferCount
    BY <1>12 DEF HackrfPrepared
  <2>2. next \in Nat \ {0}
    OBVIOUS
  <2>3. \A t \in Transfer : t < next
    <3> HIDE DEF HackrfInv, HackrfTypes
    <3> QED
      BY <2>1, <2>2, CountAssumption DEF Transfer
  <2> QED
    BY <2>1, <2>3
<1>13. CASE HackrfStarted
  BY <1>13 DEF HackrfStarted
<1>14. CASE HackrfCancelTransfer
  BY <1>14 DEF HackrfCancelTransfer, Cancel, CancelAccepted, Usb!Want
<1>15. CASE HackrfCancelled
  BY <1>15 DEF HackrfCancelled
<1>16. CASE HackrfKill
  BY <1>16 DEF HackrfKill
<1>17. CASE HackrfRequestExit
  BY <1>17 DEF HackrfRequestExit
<1>18. CASE HackrfJoin
  BY <1>18 DEF HackrfJoin
<1>19. CASE HackrfFree
  BY <1>19 DEF HackrfFree
<1>20. CASE HackrfUsbClose
  BY <1>20 DEF HackrfUsbClose
<1>21. CASE HackrfStart
  BY <1>21 DEF HackrfStart, HackrfCall
<1>22. CASE HackrfStop
  BY <1>22 DEF HackrfStop, HackrfCall
<1>23. CASE HackrfClose
  BY <1>23 DEF HackrfClose
<1>24. ASSUME NEW tr \in Transfer, NEW outcome \in {"COMPLETED", "ERROR"},
     KernelCompletes(tr, outcome) /\ UNCHANGED hackrfOwn PROVE DropoutInv'
  BY <1>24 DEF KernelCompletes
<1>25. CASE Unplug /\ UNCHANGED hackrfOwn
  BY <1>25 DEF Unplug
<1>26. CASE UNCHANGED <<radioVars, hackrfOwn>>
  BY <1>26 DEF radioVars
<1> QED
  BY <1>1, <1>2, <1>3, <1>4, <1>5, <1>6, <1>7, <1>8, <1>9, <1>10, <1>11, <1>12, <1>13,
       <1>14, <1>15, <1>16, <1>17, <1>18, <1>19, <1>20, <1>21, <1>22, <1>23, <1>24, <1>25,
       <1>26 DEF HackrfNext, HackrfEventStep, HackrfThreadStep, HackrfMainStep,
       RadioEnvironment, hackrfVars

\* What has ended when the device is freed.
LEMMA ClosingStays == ASSUME HackrfInv, [HackrfNext]_hackrfVars PROVE ClosingInv'
<1> USE DEF usbVars, eventVars, boundVars, hackrfOwn, Goto, Thread, NoOne
<1> USE DEF HackrfInv, HackrfTypes, HackrfControl, HandlerInv, ClosingInv
<1>1. ASSUME NEW tr \in Transfer, Reap(tr) /\ UNCHANGED hackrfOwn PROVE ClosingInv'
  BY <1>1 DEF Reap, Usb!Retire
<1>2. CASE HackrfCallbackCheck
  BY <1>2 DEF HackrfCallbackCheck, Usb!Call
<1>3. CASE HackrfProgramReturns
  BY <1>3 DEF HackrfProgramReturns
<1>4. CASE HackrfResubmit
  BY <1>4 DEF HackrfResubmit, Submit, SubmitFails, Usb!Accept
<1>5. CASE HackrfThreadHandles
  BY <1>5 DEF HackrfThreadHandles, TakeEvents
<1>6. CASE HackrfThreadExits
  BY <1>6 DEF HackrfThreadExits
<1>7. ASSUME NEW h \in {"worker", "other"}, HackrfThreadHandled(h) PROVE ClosingInv'
  BY <1>7 DEF HackrfThreadHandled, EventsHandled
<1>8. CASE HackrfMainHandles
  BY <1>8 DEF HackrfMainHandles, HackrfControl
<1>9. CASE HackrfControlDone
  BY <1>9 DEF HackrfControlDone, HackrfControl
<1>10. CASE HackrfPrepare
  BY <1>10 DEF HackrfPrepare
<1>11. CASE HackrfPrepareTransfer
  BY <1>11 DEF HackrfPrepareTransfer, Submit, SubmitFails, Usb!Accept
<1>12. CASE HackrfPrepared
  BY <1>12 DEF HackrfPrepared
<1>13. CASE HackrfStarted
  BY <1>13 DEF HackrfStarted
<1>14. CASE HackrfCancelTransfer
  BY <1>14 DEF HackrfCancelTransfer, Cancel, CancelAccepted, Usb!Want
<1>15. CASE HackrfCancelled
  BY <1>15 DEF HackrfCancelled
<1>16. CASE HackrfKill
  BY <1>16 DEF HackrfKill
<1>17. CASE HackrfRequestExit
  BY <1>17 DEF HackrfRequestExit
<1>18. CASE HackrfJoin
  BY <1>18 DEF HackrfJoin
<1>19. CASE HackrfFree
  BY <1>19 DEF HackrfFree
<1>20. CASE HackrfUsbClose
  BY <1>20 DEF HackrfUsbClose
<1>21. CASE HackrfStart
  BY <1>21 DEF HackrfStart, HackrfCall
<1>22. CASE HackrfStop
  BY <1>22 DEF HackrfStop, HackrfCall
<1>23. CASE HackrfClose
  BY <1>23 DEF HackrfClose
<1>24. ASSUME NEW tr \in Transfer, NEW outcome \in {"COMPLETED", "ERROR"},
     KernelCompletes(tr, outcome) /\ UNCHANGED hackrfOwn PROVE ClosingInv'
  BY <1>24 DEF KernelCompletes
<1>25. CASE Unplug /\ UNCHANGED hackrfOwn
  BY <1>25 DEF Unplug
<1>26. CASE UNCHANGED <<radioVars, hackrfOwn>>
  BY <1>26 DEF radioVars
<1> QED
  BY <1>1, <1>2, <1>3, <1>4, <1>5, <1>6, <1>7, <1>8, <1>9, <1>10, <1>11, <1>12, <1>13,
       <1>14, <1>15, <1>16, <1>17, <1>18, <1>19, <1>20, <1>21, <1>22, <1>23, <1>24, <1>25,
       <1>26 DEF HackrfNext, HackrfEventStep, HackrfThreadStep, HackrfMainStep,
       RadioEnvironment, hackrfVars

\* rtlsdr_read_async, rtlsdr_cancel_async and rtlsdr_close.
LEMMA ReadingStays == ASSUME RtlInv, [RtlNext]_rtlVars PROVE RtlInv'
<1> USE DEF usbVars, eventVars, boundVars, rtlOwn, Goto, Thread, RtlLabel, InReadAsync, RtlInv
<1>1. CASE RtlMainCancels \/ RtlCancelAsync \/ RtlControl \/ RtlControlDone \/
     RtlMainHandles
  BY <1>1 DEF RtlMainCancels, RtlCancelAsync, RtlControl, RtlControlDone, RtlMainHandles,
       RtlCancelStatus
<1>2. CASE RtlCallbackCancelStep
  BY <1>2 DEF RtlCallbackCancelStep, RtlCallbackCancels, RtlCancelStatus
<1>3. CASE RtlCallbackCheck
  BY <1>3 DEF RtlCallbackCheck
<1>4. CASE RtlResubmit \/ RtlCallbackReturns
  BY <1>4 DEF RtlResubmit, RtlCallbackReturns
<1>5. ASSUME NEW tr \in Transfer, Reap(tr) /\ UNCHANGED rtlOwn PROVE RtlInv'
  BY <1>5 DEF Reap
<1>6. CASE RtlReadAsync
  BY <1>6 DEF RtlReadAsync
<1>7. CASE RtlSubmit
  <2>1. pc' \in [Thread -> RtlLabel]
    BY <1>7 DEF RtlSubmit
  <2>2. InReadAsync' => async_status' # "INACTIVE"
    BY <1>7 DEF RtlSubmit
  <2>3. pc'["main"] \in {"usb_close", "closed"} /\ ~dev_lost' => ~InReadAsync'
    BY <1>7 DEF RtlSubmit
  <2> QED
    BY <2>1, <2>2, <2>3
<1>8. CASE RtlLoop \/ RtlEventsDone \/ RtlCheck
  <2>1. pc' \in [Thread -> RtlLabel]
    BY <1>8 DEF RtlLoop, RtlEventsDone, RtlCheck
  <2>2. InReadAsync' => async_status' # "INACTIVE"
    BY <1>8 DEF RtlLoop, RtlEventsDone, RtlCheck
  <2>3. pc'["main"] \in {"usb_close", "closed"} /\ ~dev_lost' => ~InReadAsync'
    BY <1>8 DEF RtlLoop, RtlEventsDone, RtlCheck
  <2> QED
    BY <2>1, <2>2, <2>3
<1>9. CASE RtlCancelTransfer \/ RtlPassEnds
  <2>1. pc' \in [Thread -> RtlLabel]
    BY <1>9 DEF RtlCancelTransfer, RtlPassEnds
  <2>2. InReadAsync' => async_status' # "INACTIVE"
    BY <1>9 DEF RtlCancelTransfer, RtlPassEnds
  <2>3. pc'["main"] \in {"usb_close", "closed"} /\ ~dev_lost' => ~InReadAsync'
    BY <1>9 DEF RtlCancelTransfer, RtlPassEnds
  <2> QED
    BY <2>1, <2>2, <2>3
<1>10. CASE RtlHandleReady \/ RtlHandledReady
  <2>1. pc' \in [Thread -> RtlLabel]
    BY <1>10 DEF RtlHandleReady, RtlHandledReady
  <2>2. InReadAsync' => async_status' # "INACTIVE"
    BY <1>10 DEF RtlHandleReady, RtlHandledReady
  <2>3. pc'["main"] \in {"usb_close", "closed"} /\ ~dev_lost' => ~InReadAsync'
    BY <1>10 DEF RtlHandleReady, RtlHandledReady
  <2> QED
    BY <2>1, <2>2, <2>3
<1>11. CASE RtlFree \/ RtlReadReturns
  <2>1. pc' \in [Thread -> RtlLabel]
    BY <1>11 DEF RtlFree, RtlReadReturns
  <2>2. InReadAsync' => async_status' # "INACTIVE"
    BY <1>11 DEF RtlFree, RtlReadReturns
  <2>3. pc'["main"] \in {"usb_close", "closed"} /\ ~dev_lost' => ~InReadAsync'
    BY <1>11 DEF RtlFree, RtlReadReturns
  <2> QED
    BY <2>1, <2>2, <2>3
<1>12. CASE RtlClose \/ RtlCloseWaits \/ RtlCloseWaited \/ RtlUsbClose
  BY <1>12 DEF RtlClose, RtlCloseWaits, RtlCloseWaited, RtlUsbClose, rtlVars, radioVars
<1>13. CASE RadioEnvironment({"ERROR", "STALL"}) /\ UNCHANGED rtlOwn
  BY <1>13 DEF RadioEnvironment, KernelCompletes, Unplug
<1>14. CASE UNCHANGED <<radioVars, rtlOwn>>
  BY <1>14 DEF radioVars
<1> QED
  BY <1>1, <1>2, <1>3, <1>4, <1>5, <1>6, <1>7, <1>8, <1>9, <1>10, <1>11, <1>12, <1>13, <1>14
       DEF RtlNext, RtlEventStep, RtlWorkerStep, RtlMainStep, rtlVars

\* A step of the driver that is there keeps the invariant.
LEMMA Invariance == MCSpec => []RadioInv
<1>1. RadioInv /\ [MCNext]_mcVars => RadioInv'
  <2> SUFFICES ASSUME RadioInv, [MCNext]_mcVars PROVE RadioInv'
    OBVIOUS
  <2>1. driver' = driver /\ driver \in {"hackrf", "rtlsdr"}
    BY DEF MCNext, Hackrf, RtlSdr, mcVars, RadioInv
  <2>2. CASE driver = "hackrf"
    <3>1. [HackrfNext]_hackrfVars
      BY <2>2 DEF MCNext, Hackrf, RtlSdr, mcVars, hackrfVars
    <3>2. HackrfInv
      BY <2>2 DEF RadioInv
    <3>3. HackrfTypes' /\ HandlerInv' /\ DropoutInv' /\ ClosingInv'
      BY <3>1, <3>2, HackrfTypesStay, HandlersStay, DropoutsStay, ClosingStays
    <3> QED
      BY <2>1, <2>2, <3>3 DEF RadioInv, HackrfInv
  <2>3. CASE driver = "rtlsdr"
    <3>1. [RtlNext]_rtlVars /\ UNCHANGED <<allocated, transfer_thread_started>>
      BY <2>3 DEF MCNext, Hackrf, RtlSdr, mcVars, rtlVars, hackrfOwn
    <3>2. RtlInv /\ allocated /\ ~transfer_thread_started
      BY <2>3 DEF RadioInv
    <3>3. RtlInv'
      BY <3>1, <3>2, ReadingStays
    <3> QED
      BY <2>1, <2>3, <3>1, <3>2, <3>3 DEF RadioInv
  <2> QED
    BY <2>1, <2>2, <2>3
<1> QED
  BY <1>1, InitInv, PTL DEF MCSpec

\* A stream of libhackrf never goes on with fewer transfers than it began with:
\* hackrf_libusb_transfer_callback, prepare_transfers and the stop of an earlier stream
\* whose transfers are still on their way back lose one only where hackrf_is_streaming
\* tells.
THEOREM DropoutsTold == MCSpec => []NoSilentDropout
<1>1. RadioInv => NoSilentDropout
  <2> SUFFICES ASSUME RadioInv, hackrf_is_streaming,
                      pc["main"] \notin {"kill_cancel", "request_exit"},
                      NEW t \in Transfer
               PROVE  active[t] \/ (callback # "none" /\ current = t)
    BY DEF NoSilentDropout
  <2>1. HackrfInv
    BY DEF RadioInv, hackrf_is_streaming
  <2>2. pc["main"] # "join"
    BY <2>1 DEF HackrfInv, DropoutInv, hackrf_is_streaming
  <2> QED
    BY <2>1, <2>2 DEF HackrfInv, DropoutInv, Cancelling, Kept
<1> QED
  BY <1>1, Invariance, PTL

\* hackrf_close frees the transfers and the device when none is in flight, no callback
\* runs in any of the threads that handle events for it, and its own thread is joined.
THEOREM FreedUnused == MCSpec => []FreedIsUnused
<1>1. RadioInv => FreedIsUnused
  <2> SUFFICES ASSUME RadioInv, ~allocated
               PROVE  /\ \A t \in Transfer : ~active[t] /\ done[t] = "none"
                      /\ callback = "none" /\ pc["worker"] = "exited"
    BY DEF FreedIsUnused
  <2>1. HackrfInv
    BY DEF RadioInv
  <2> QED
    BY <2>1 DEF HackrfInv, ClosingInv
<1> QED
  BY <1>1, Invariance, PTL

\* rtlsdr_close waits for async_status: a device that was not lost is closed and freed
\* after rtlsdr_read_async has freed its buffers and returned, whoever cancelled it, the
\* program or the callback, at whatever place.
THEOREM ClosedAfterReading == MCSpec => []CloseAfterReading
<1>1. RadioInv => CloseAfterReading
  <2> SUFFICES ASSUME RadioInv, pc["main"] = "closed", ~dev_lost PROVE ~InReadAsync
    BY DEF CloseAfterReading
  <2>1. CASE driver = "hackrf"
    BY <2>1 DEF RadioInv, HackrfInv, ClosingInv, InReadAsync
  <2>2. CASE driver = "rtlsdr"
    BY <2>2 DEF RadioInv, RtlInv
  <2> QED
    BY <2>1, <2>2 DEF RadioInv
<1> QED
  BY <1>1, Invariance, PTL
=============================================================================
