-------------------------- MODULE UsbEventsProofs --------------------------
(***************************************************************************)
(* Proofs about UsbEvents, for any number of threads and devices and for   *)
(* callbacks that close devices or handle events themselves.               *)
(*                                                                         *)
(* Everything rests on one inductive invariant, IInv.  Its parts say who   *)
(* holds the events lock, that a sleeping waiter does nothing else, and    *)
(* that device_close counts the threads that close a device; the last is   *)
(* what keeps the pipe in step with the flags, since libusb_close sets its *)
(* flag only when it is the first to close. WakerInv, at the end, adds who *)
(* wakes the event waiters.                                                *)
(***************************************************************************)
EXTENDS UsbEvents, FiniteSetTheorems, TLAPS

\* Where a thread that handles events can be, the calls its callbacks make
\* included.
HandlingLabel == {"poll", "trigger", "backend", "reap", "callback", "finish",
                  "do_close", "close_backend", "try", "trylock", "waiters", "check",
                  "check_active", "waiting", "woken"}

HandlingWhere == \A th \in Thread : handling[th] => pc[th] \in HandlingLabel

\* A thread at one of the labels of HoldsEvents, or handling events, holds the lock.
LockOwner ==
  \A th \in Thread : pc[th] \in HoldsEvents \/ handling[th] => events_lock = th

SleepersWait == \A th \in event_waiters : pc[th] = "waiting"

OpenHasDevice ==
  \A th \in Thread : pc[th] \in {"open", "open_list"} => dev[th] \in Device

\* What poll() is given is up to date, or the flag says that it is not.
SourcesTracked ==
  event_data = event_sources \/ "EVENT_SOURCES_MODIFIED" \in event_flags

IInv ==
  /\ TypeOK
  /\ HandlingWhere
  /\ LockOwner
  /\ SleepersWait
  /\ OpenHasDevice
  /\ CloseFlagCountsClosers
  /\ PipeMatchesFlags
  /\ SourcesTracked
-----------------------------------------------------------------------------
\* Types and PipeMatchesFlags, over the three operators that write the flags.
FlagsOK == event_flags \subseteq EventFlag /\ event \in Nat /\ PipeMatchesFlags

\* usbi_signal_event: one byte for the first flag, none for the others.
LEMMA SignalKeepsFlags ==
  ASSUME FlagsOK, NEW flag \in EventFlag, Signal(flag)
  PROVE  FlagsOK'
BY DEF FlagsOK, PipeMatchesFlags, Signal

\* usbi_clear_event: the byte goes with the last flag.
LEMMA ClearKeepsFlags ==
  ASSUME FlagsOK, NEW flags, Clear(flags)
  PROVE  FlagsOK'
<1>1. event_flags' \subseteq event_flags
  BY DEF Clear
<1>2. CASE event_flags' = {}
  BY <1>1, <1>2 DEF FlagsOK, PipeMatchesFlags, Clear
<1>3. CASE event_flags' # {}
  BY <1>1, <1>3 DEF FlagsOK, PipeMatchesFlags, Clear
<1> QED
  BY <1>2, <1>3

\* usbi_remove_event_source signals only if the descriptor was registered.
LEMMA RemoveKeepsFlags ==
  ASSUME FlagsOK, NEW d, RemoveEventSource(d)
  PROVE  FlagsOK' /\ event_sources' = event_sources \ {d}
<1>1. CASE d \in event_sources
  BY <1>1, SignalKeepsFlags DEF RemoveEventSource, EventFlag
<1>2. CASE d \notin event_sources
  BY <1>2 DEF RemoveEventSource, FlagsOK, PipeMatchesFlags
<1> QED
  BY <1>1, <1>2

\* The thread that has closed its device is among those that device_close counts.
LEMMA CloserCounted ==
  ASSUME IInv, NEW th \in Thread, CloseDone(th)
  PROVE  device_close \in Nat \ {0}
<1>1. th \in Closers
  BY DEF IInv, TypeOK, CloseDone, Closers, Closing, HandlingWhere, HandlingLabel
<1>2. IsFiniteSet(Closers)
  BY ThreadAssumption, FS_Subset DEF Closers
<1> QED
  BY <1>1, <1>2, FS_EmptySet DEF IInv, TypeOK, CloseFlagCountsClosers

\* Types are kept; device_close stays a natural number because the thread that
\* counts it down is one of those it counts.
LEMMA TypeStep ==
  ASSUME IInv, [Next]_vars
  PROVE  TypeOK'
<1> USE CallbackAssumption, BoundAssumption DEF lockVars, flagVars, listVars,
        sourceVars, threadVars, callVars, xferVars, progVars, Goto, IInv, TypeOK,
        EventFlag, Label
<1>1. ASSUME NEW th \in Thread, ThreadStep(th), UNCHANGED gone PROVE TypeOK'
  <2>1. CASE SyncLoop(th)
    BY <1>1, <2>1 DEF SyncLoop
  <2>2. CASE TryLockEvents(th)
    BY <1>1, <2>2 DEF TryLockEvents
  <2>3. CASE EventsLockTaken(th)
    BY <1>1, <2>3 DEF EventsLockTaken
  <2>4. CASE LockEvents(th)
    BY <1>1, <2>4 DEF LockEvents
  <2>5. CASE SetHandlerActive(th)
    BY <1>1, <2>5 DEF SetHandlerActive
  <2>6. CASE DoOwnHandling(th)
    BY <1>1, <2>6 DEF DoOwnHandling
  <2>7. CASE ClearHandlerActive(th)
    BY <1>1, <2>7 DEF ClearHandlerActive
  <2>8. CASE UnlockEvents(th)
    BY <1>1, <2>8 DEF UnlockEvents
  <2>9. CASE Broadcast(th)
    BY <1>1, <2>9 DEF Broadcast
  <2>10. CASE LockEventWaiters(th)
    BY <1>1, <2>10 DEF LockEventWaiters
  <2>11. CASE CheckCompleted(th)
    BY <1>1, <2>11 DEF CheckCompleted
  <2>12. CASE CheckHandlerActive(th)
    BY <1>1, <2>12 DEF CheckHandlerActive
  <2>13. CASE WakeUp(th)
    BY <1>1, <2>13 DEF WakeUp
  <2>14. CASE PollReturns(th)
    BY <1>1, <2>14 DEF PollReturns
  <2>15. CASE OpHandleEvents(th)
    BY <1>1, <2>15 DEF OpHandleEvents
  <2>16. CASE CallbackReturns(th)
    BY <1>1, <2>16 DEF CallbackReturns
  <2>17. CASE FinishBackend(th)
    BY <1>1, <2>17 DEF FinishBackend
  <2>18. CASE EndEventHandling(th)
    BY <1>1, <2>18 DEF EndEventHandling
  <2>19. CASE CloseAnnounce(th)
    BY <1>1, <2>19 DEF CloseAnnounce
  <2>20. CASE DoClose(th)
    BY <1>1, <2>20 DEF DoClose
  <2>21. CASE RefreshEventData(th)
    <3>1. FlagsOK' /\ event_data' \subseteq Device
      <4>1. CASE "EVENT_SOURCES_MODIFIED" \in event_flags
        BY <1>1, <2>21, <4>1, ClearKeepsFlags DEF RefreshEventData, FlagsOK
      <4>2. CASE "EVENT_SOURCES_MODIFIED" \notin event_flags
        BY <1>1, <2>21, <4>2 DEF RefreshEventData, FlagsOK, PipeMatchesFlags
      <4> QED
        BY <4>1, <4>2
    <3> QED
      BY <1>1, <2>21, <3>1 DEF RefreshEventData, FlagsOK
  <2>22. CASE HandleEventTrigger(th)
    <3>1. FlagsOK'
      BY <1>1, <2>22, ClearKeepsFlags DEF FlagsOK, HandleEventTrigger
    <3> QED
      BY <1>1, <2>22, <3>1 DEF FlagsOK, HandleEventTrigger
  <2>23. CASE OpenBackend(th)
    <3>1. FlagsOK'
      BY <1>1, <2>23, SignalKeepsFlags DEF FlagsOK, OpenBackend
    <3> QED
      BY <1>1, <2>23, <3>1 DEF FlagsOK, OpenBackend, OpenHasDevice
  <2>24. CASE OpenAddDevice(th)
    BY <1>1, <2>24 DEF OpenAddDevice, OpenHasDevice
  <2>25. CASE CloseBackend(th)
    <3>1. FlagsOK' /\ event_sources' \subseteq event_sources
      BY <1>1, <2>25, RemoveKeepsFlags DEF FlagsOK, CloseBackend
    <3> QED
      BY <1>1, <2>25, <3>1 DEF FlagsOK, CloseBackend
  <2>26. CASE CloseDone(th)
    <3>1. device_close \in Nat \ {0}
      BY <1>1, <2>26, CloserCounted
    <3>2. FlagsOK'
      BY <1>1, <2>26, ClearKeepsFlags DEF CloseDone, FlagsOK
    <3> QED
      BY <1>1, <2>26, <3>1, <3>2 DEF CloseDone, FlagsOK
  <2>27. ASSUME NEW o \in Thread, ReapTransfer(th, o) PROVE TypeOK'
    BY <1>1, <2>27 DEF ReapTransfer
  <2>28. ASSUME NEW d \in Device, RemoveBroken(th, d) PROVE TypeOK'
    <3>1. FlagsOK' /\ event_sources' \subseteq event_sources
      BY <1>1, <2>28, RemoveKeepsFlags DEF FlagsOK, RemoveBroken
    <3> QED
      BY <1>1, <2>28, <3>1 DEF FlagsOK, RemoveBroken
  <2> QED
    BY <1>1, <2>1, <2>2, <2>3, <2>4, <2>5, <2>6, <2>7, <2>8, <2>9, <2>10, <2>11,
         <2>12, <2>13, <2>14, <2>15, <2>16, <2>17, <2>18, <2>19, <2>20, <2>21,
         <2>22, <2>23, <2>24, <2>25, <2>26, <2>27, <2>28 DEF ThreadStep
<1>2. ASSUME NEW th \in Thread, NEW d \in Device, SyncTransfer(th, d), UNCHANGED gone
      PROVE  TypeOK'
  BY <1>2 DEF SyncTransfer, Begin
<1>3. ASSUME NEW th \in Thread, NEW d \in Device, OpenDevice(th, d), UNCHANGED gone
      PROVE  TypeOK'
  BY <1>3 DEF OpenDevice, Begin
<1>4. ASSUME NEW th \in Thread, NEW d \in Device, CloseDevice(th, d), UNCHANGED gone
      PROVE  TypeOK'
  BY <1>4 DEF CloseDevice, Begin
<1>5. ASSUME NEW th \in Thread, InterruptEventHandler(th), UNCHANGED gone
      PROVE  TypeOK'
  <2>1. FlagsOK'
    BY <1>5, SignalKeepsFlags DEF InterruptEventHandler, FlagsOK
  <2> QED
    BY <1>5, <2>1 DEF InterruptEventHandler, FlagsOK
<1>6. ASSUME NEW th \in Thread, NestedHandleEvents(th), UNCHANGED gone
      PROVE  TypeOK'
  BY <1>6 DEF NestedHandleEvents, Begin
<1>7. ASSUME NEW th \in Thread, KernelAnswers(th), UNCHANGED gone PROVE TypeOK'
  BY <1>7 DEF KernelAnswers
<1>8. ASSUME NEW th \in Thread, RefreshFails(th), UNCHANGED gone PROVE TypeOK'
  BY <1>8 DEF RefreshFails
<1>9. ASSUME NEW th \in Thread, PollInterrupted(th), UNCHANGED gone PROVE TypeOK'
  BY <1>9 DEF PollInterrupted
<1>10. ASSUME NEW d \in Device, Unplug(d) PROVE TypeOK'
  BY <1>10 DEF Unplug
<1>11. CASE UNCHANGED vars
  BY <1>11 DEF vars
<1> QED
  BY <1>1, <1>2, <1>3, <1>4, <1>5, <1>6, <1>7, <1>8, <1>9, <1>10, <1>11 DEF Next,
       ProgramCall

\* Only a thread without the events lock can be refused it, and the thread that
\* releases it no longer handles events.
LEMMA LockStep ==
  ASSUME IInv, [Next]_vars
  PROVE  HandlingWhere' /\ LockOwner'
<1> USE CallbackAssumption, NoOneAssumption DEF lockVars, flagVars, listVars,
        sourceVars, threadVars, callVars, xferVars, progVars, Goto, IInv, TypeOK,
        HandlingWhere, LockOwner, HandlingLabel, HoldsEvents, SleepersWait
<1>1. ASSUME NEW th \in Thread, ThreadStep(th), UNCHANGED gone
      PROVE  HandlingWhere' /\ LockOwner'
  <2>1. CASE SyncLoop(th) \/ TryLockEvents(th) \/ EventsLockTaken(th) \/
       SetHandlerActive(th) \/ DoOwnHandling(th) \/ ClearHandlerActive(th)
    BY <1>1, <2>1 DEF SyncLoop, TryLockEvents, EventsLockTaken, SetHandlerActive,
         DoOwnHandling, ClearHandlerActive
  <2>2. CASE LockEventWaiters(th) \/ CheckHandlerActive(th) \/ WakeUp(th) \/
       RefreshEventData(th) \/ PollReturns(th) \/ HandleEventTrigger(th)
    BY <1>1, <2>2 DEF LockEventWaiters, CheckHandlerActive, WakeUp,
         RefreshEventData, PollReturns, HandleEventTrigger
  <2>3. CASE OpHandleEvents(th) \/ CallbackReturns(th) \/ FinishBackend(th) \/
       EndEventHandling(th) \/ OpenBackend(th) \/ OpenAddDevice(th)
    BY <1>1, <2>3 DEF OpHandleEvents, CallbackReturns, FinishBackend,
         EndEventHandling, OpenBackend, OpenAddDevice
  <2>4. CASE CloseAnnounce(th) \/ DoClose(th) \/ CloseBackend(th) \/ CloseDone(th)
    BY <1>1, <2>4 DEF CloseAnnounce, DoClose, CloseBackend, CloseDone
  <2>5. CASE LockEvents(th)
    BY <1>1, <2>5 DEF LockEvents
  <2>6. CASE UnlockEvents(th)
    BY <1>1, <2>6 DEF UnlockEvents
  <2>7. CASE Broadcast(th)
    BY <1>1, <2>7 DEF Broadcast
  <2>8. CASE CheckCompleted(th)
    BY <1>1, <2>8 DEF CheckCompleted
  <2>9. ASSUME NEW o \in Thread, ReapTransfer(th, o)
        PROVE  HandlingWhere' /\ LockOwner'
    BY <1>1, <2>9 DEF ReapTransfer
  <2>10. ASSUME NEW d \in Device, RemoveBroken(th, d)
         PROVE  HandlingWhere' /\ LockOwner'
    BY <1>1, <2>10 DEF RemoveBroken
  <2> QED
    BY <1>1, <2>1, <2>2, <2>3, <2>4, <2>5, <2>6, <2>7, <2>8, <2>9, <2>10 DEF
         ThreadStep
<1>2. ASSUME NEW th \in Thread, NEW d \in Device, SyncTransfer(th, d), UNCHANGED gone
      PROVE  HandlingWhere' /\ LockOwner'
  BY <1>2 DEF SyncTransfer, Begin
<1>3. ASSUME NEW th \in Thread, NEW d \in Device, OpenDevice(th, d), UNCHANGED gone
      PROVE  HandlingWhere' /\ LockOwner'
  BY <1>3 DEF OpenDevice, Begin
<1>4. ASSUME NEW th \in Thread, NEW d \in Device, CloseDevice(th, d), UNCHANGED gone
      PROVE  HandlingWhere' /\ LockOwner'
  BY <1>4 DEF CloseDevice, Begin
<1>5. ASSUME NEW th \in Thread, InterruptEventHandler(th), UNCHANGED gone
      PROVE  HandlingWhere' /\ LockOwner'
  BY <1>5 DEF InterruptEventHandler
<1>6. ASSUME NEW th \in Thread, NestedHandleEvents(th), UNCHANGED gone
      PROVE  HandlingWhere' /\ LockOwner'
  BY <1>6 DEF NestedHandleEvents, Begin
<1>7. ASSUME NEW th \in Thread, KernelAnswers(th), UNCHANGED gone
      PROVE  HandlingWhere' /\ LockOwner'
  BY <1>7 DEF KernelAnswers
<1>8. ASSUME NEW th \in Thread, RefreshFails(th), UNCHANGED gone
      PROVE  HandlingWhere' /\ LockOwner'
  BY <1>8 DEF RefreshFails
<1>9. ASSUME NEW th \in Thread, PollInterrupted(th), UNCHANGED gone
      PROVE  HandlingWhere' /\ LockOwner'
  BY <1>9 DEF PollInterrupted
<1>10. ASSUME NEW d \in Device, Unplug(d) PROVE HandlingWhere' /\ LockOwner'
  BY <1>10 DEF Unplug
<1>11. CASE UNCHANGED vars
  BY <1>11 DEF vars
<1> QED
  BY <1>1, <1>2, <1>3, <1>4, <1>5, <1>6, <1>7, <1>8, <1>9, <1>10, <1>11 DEF Next,
       ProgramCall

\* Only the broadcast moves a thread that sleeps, and takes it off the waiters.
LEMMA WaitersStep ==
  ASSUME IInv, [Next]_vars
  PROVE  SleepersWait' /\ OpenHasDevice'
<1> USE CallbackAssumption, NoOneAssumption DEF lockVars, flagVars, listVars,
        sourceVars, threadVars, callVars, xferVars, progVars, Goto, IInv, TypeOK,
        SleepersWait, OpenHasDevice
<1>1. ASSUME NEW th \in Thread, ThreadStep(th), UNCHANGED gone
      PROVE  SleepersWait' /\ OpenHasDevice'
  <2>1. CASE SyncLoop(th) \/ TryLockEvents(th) \/ EventsLockTaken(th) \/
       LockEvents(th) \/ SetHandlerActive(th) \/ DoOwnHandling(th)
    BY <1>1, <2>1 DEF SyncLoop, TryLockEvents, EventsLockTaken, LockEvents,
         SetHandlerActive, DoOwnHandling
  <2>2. CASE ClearHandlerActive(th) \/ UnlockEvents(th) \/ LockEventWaiters(th) \/
       CheckCompleted(th) \/ CheckHandlerActive(th) \/ WakeUp(th)
    BY <1>1, <2>2 DEF ClearHandlerActive, UnlockEvents, LockEventWaiters,
         CheckCompleted, CheckHandlerActive, WakeUp
  <2>3. CASE RefreshEventData(th) \/ PollReturns(th) \/ HandleEventTrigger(th) \/
       OpHandleEvents(th) \/ CallbackReturns(th) \/ FinishBackend(th)
    BY <1>1, <2>3 DEF RefreshEventData, PollReturns, HandleEventTrigger,
         OpHandleEvents, CallbackReturns, FinishBackend
  <2>4. CASE EndEventHandling(th) \/ OpenBackend(th) \/ OpenAddDevice(th) \/
       CloseAnnounce(th) \/ DoClose(th) \/ CloseBackend(th)
    BY <1>1, <2>4 DEF EndEventHandling, OpenBackend, OpenAddDevice, CloseAnnounce,
         DoClose, CloseBackend
  <2>5. CASE CloseDone(th)
    BY <1>1, <2>5 DEF CloseDone
  <2>6. CASE Broadcast(th)
    BY <1>1, <2>6 DEF Broadcast
  <2>7. ASSUME NEW o \in Thread, ReapTransfer(th, o)
        PROVE  SleepersWait' /\ OpenHasDevice'
    BY <1>1, <2>7 DEF ReapTransfer
  <2>8. ASSUME NEW d \in Device, RemoveBroken(th, d)
        PROVE  SleepersWait' /\ OpenHasDevice'
    BY <1>1, <2>8 DEF RemoveBroken
  <2> QED
    BY <1>1, <2>1, <2>2, <2>3, <2>4, <2>5, <2>6, <2>7, <2>8 DEF ThreadStep
<1>2. ASSUME NEW th \in Thread, NEW d \in Device, SyncTransfer(th, d), UNCHANGED gone
      PROVE  SleepersWait' /\ OpenHasDevice'
  BY <1>2 DEF SyncTransfer, Begin
<1>3. ASSUME NEW th \in Thread, NEW d \in Device, OpenDevice(th, d), UNCHANGED gone
      PROVE  SleepersWait' /\ OpenHasDevice'
  BY <1>3 DEF OpenDevice, Begin
<1>4. ASSUME NEW th \in Thread, NEW d \in Device, CloseDevice(th, d), UNCHANGED gone
      PROVE  SleepersWait' /\ OpenHasDevice'
  BY <1>4 DEF CloseDevice, Begin
<1>5. ASSUME NEW th \in Thread, InterruptEventHandler(th), UNCHANGED gone
      PROVE  SleepersWait' /\ OpenHasDevice'
  BY <1>5 DEF InterruptEventHandler
<1>6. ASSUME NEW th \in Thread, NestedHandleEvents(th), UNCHANGED gone
      PROVE  SleepersWait' /\ OpenHasDevice'
  BY <1>6 DEF NestedHandleEvents, Begin
<1>7. ASSUME NEW th \in Thread, KernelAnswers(th), UNCHANGED gone
      PROVE  SleepersWait' /\ OpenHasDevice'
  BY <1>7 DEF KernelAnswers
<1>8. ASSUME NEW th \in Thread, RefreshFails(th), UNCHANGED gone
      PROVE  SleepersWait' /\ OpenHasDevice'
  BY <1>8 DEF RefreshFails
<1>9. ASSUME NEW th \in Thread, PollInterrupted(th), UNCHANGED gone
      PROVE  SleepersWait' /\ OpenHasDevice'
  BY <1>9 DEF PollInterrupted
<1>10. ASSUME NEW d \in Device, Unplug(d) PROVE SleepersWait' /\ OpenHasDevice'
  BY <1>10 DEF Unplug
<1>11. CASE UNCHANGED vars
  BY <1>11 DEF vars
<1> QED
  BY <1>1, <1>2, <1>3, <1>4, <1>5, <1>6, <1>7, <1>8, <1>9, <1>10, <1>11 DEF Next,
       ProgramCall

\* The two steps that start and stop counting a thread as a closer, ...
ClosersChange == \E th \in Thread : CloseAnnounce(th) \/ CloseDone(th)

\* ... and what the others leave alone.
ClosersKept ==
  /\ Closers' = Closers
  /\ device_close' = device_close
  /\ "DEVICE_CLOSE" \in event_flags' <=> "DEVICE_CLOSE" \in event_flags

\* A thread starts and stops counting as a closer where it changes device_close.
LEMMA ClosersStep ==
  ASSUME IInv, [Next]_vars
  PROVE  ClosersKept \/ ClosersChange
<1> USE CallbackAssumption DEF lockVars, flagVars, listVars, sourceVars,
        threadVars, callVars, xferVars, progVars, Goto, IInv, TypeOK, ClosersKept,
        Closers, Closing, HandlingWhere, HandlingLabel, SleepersWait
<1>1. ASSUME NEW th \in Thread, ThreadStep(th), UNCHANGED gone
      PROVE  ClosersKept \/ ClosersChange
  <2>1. CASE SyncLoop(th) \/ TryLockEvents(th) \/ EventsLockTaken(th)
    BY <1>1, <2>1 DEF SyncLoop, TryLockEvents, EventsLockTaken
  <2>2. CASE LockEvents(th) \/ SetHandlerActive(th) \/ DoOwnHandling(th)
    BY <1>1, <2>2 DEF LockEvents, SetHandlerActive, DoOwnHandling
  <2>3. CASE ClearHandlerActive(th) \/ UnlockEvents(th) \/ Broadcast(th)
    BY <1>1, <2>3 DEF ClearHandlerActive, UnlockEvents, Broadcast
  <2>4. CASE LockEventWaiters(th) \/ CheckCompleted(th) \/ CheckHandlerActive(th)
    BY <1>1, <2>4 DEF LockEventWaiters, CheckCompleted, CheckHandlerActive
  <2>5. CASE WakeUp(th) \/ PollReturns(th) \/ OpHandleEvents(th)
    BY <1>1, <2>5 DEF WakeUp, PollReturns, OpHandleEvents
  <2>6. CASE CallbackReturns(th) \/ FinishBackend(th) \/ EndEventHandling(th)
    BY <1>1, <2>6 DEF CallbackReturns, FinishBackend, EndEventHandling
  <2>7. CASE OpenAddDevice(th) \/ DoClose(th)
    BY <1>1, <2>7 DEF OpenAddDevice, DoClose
  <2>8. CASE RefreshEventData(th)
    BY <1>1, <2>8 DEF RefreshEventData, Clear
  <2>9. CASE HandleEventTrigger(th)
    BY <1>1, <2>9 DEF HandleEventTrigger, Clear
  <2>10. CASE OpenBackend(th)
    BY <1>1, <2>10 DEF OpenBackend, Signal
  <2>11. CASE CloseAnnounce(th)
    BY <2>11 DEF ClosersChange
  <2>12. CASE CloseBackend(th)
    BY <1>1, <2>12 DEF CloseBackend, RemoveEventSource, Signal
  <2>13. CASE CloseDone(th)
    BY <2>13 DEF ClosersChange
  <2>14. ASSUME NEW o \in Thread, ReapTransfer(th, o)
         PROVE  ClosersKept \/ ClosersChange
    BY <1>1, <2>14 DEF ReapTransfer
  <2>15. ASSUME NEW d \in Device, RemoveBroken(th, d)
         PROVE  ClosersKept \/ ClosersChange
    BY <1>1, <2>15 DEF RemoveBroken, RemoveEventSource, Signal
  <2> QED
    BY <1>1, <2>1, <2>2, <2>3, <2>4, <2>5, <2>6, <2>7, <2>8, <2>9, <2>10, <2>11,
         <2>12, <2>13, <2>14, <2>15 DEF ThreadStep
<1>2. ASSUME NEW th \in Thread, NEW d \in Device, SyncTransfer(th, d), UNCHANGED gone
      PROVE  ClosersKept \/ ClosersChange
  BY <1>2 DEF SyncTransfer, Begin
<1>3. ASSUME NEW th \in Thread, NEW d \in Device, OpenDevice(th, d), UNCHANGED gone
      PROVE  ClosersKept \/ ClosersChange
  BY <1>3 DEF OpenDevice, Begin
<1>4. ASSUME NEW th \in Thread, NEW d \in Device, CloseDevice(th, d), UNCHANGED gone
      PROVE  ClosersKept \/ ClosersChange
  BY <1>4 DEF CloseDevice, Begin
<1>5. ASSUME NEW th \in Thread, InterruptEventHandler(th), UNCHANGED gone
      PROVE  ClosersKept \/ ClosersChange
  BY <1>5 DEF InterruptEventHandler, Signal
<1>6. ASSUME NEW th \in Thread, NestedHandleEvents(th), UNCHANGED gone
      PROVE  ClosersKept \/ ClosersChange
  BY <1>6 DEF NestedHandleEvents, Begin
<1>7. ASSUME NEW th \in Thread, KernelAnswers(th), UNCHANGED gone
      PROVE  ClosersKept \/ ClosersChange
  BY <1>7 DEF KernelAnswers
<1>8. ASSUME NEW th \in Thread, RefreshFails(th), UNCHANGED gone
      PROVE  ClosersKept \/ ClosersChange
  BY <1>8 DEF RefreshFails
<1>9. ASSUME NEW th \in Thread, PollInterrupted(th), UNCHANGED gone
      PROVE  ClosersKept \/ ClosersChange
  BY <1>9 DEF PollInterrupted
<1>10. ASSUME NEW d \in Device, Unplug(d) PROVE ClosersKept \/ ClosersChange
  BY <1>10 DEF Unplug
<1>11. CASE UNCHANGED vars
  BY <1>11 DEF vars
<1> QED
  BY <1>1, <1>2, <1>3, <1>4, <1>5, <1>6, <1>7, <1>8, <1>9, <1>10, <1>11 DEF Next,
       ProgramCall

\* device_close counts the closing threads, and DEVICE_CLOSE is set while it is not
\* zero: the first to close sets the flag and the last clears it.
LEMMA CountStep ==
  ASSUME IInv, [Next]_vars
  PROVE  CloseFlagCountsClosers'
<1> USE DEF IInv, TypeOK
<1>1. Closers \subseteq Thread /\ IsFiniteSet(Closers)
  BY ThreadAssumption, FS_Subset DEF Closers
<1>2. CASE ClosersKept
  BY <1>2 DEF ClosersKept, CloseFlagCountsClosers
<1>3. ASSUME NEW th \in Thread, CloseAnnounce(th) PROVE CloseFlagCountsClosers'
  <2>1. th \notin Closers /\ Closers' = Closers \cup {th}
    BY <1>3 DEF CloseAnnounce, Goto, threadVars, callVars, Closers, Closing,
         HandlingWhere, HandlingLabel
  <2>2. Cardinality(Closers') = Cardinality(Closers) + 1
    BY <1>1, <2>1, FS_AddElement
  <2> QED
    BY <1>3, <2>2 DEF CloseAnnounce, CloseFlagCountsClosers
<1>4. ASSUME NEW th \in Thread, CloseDone(th) PROVE CloseFlagCountsClosers'
  <2>1. th \in Closers /\ Closers' = Closers \ {th}
    BY <1>4 DEF CloseDone, Goto, threadVars, callVars, Closers, Closing,
         HandlingWhere, HandlingLabel
  <2>2. Cardinality(Closers') = Cardinality(Closers) - 1
    BY <1>1, <2>1, FS_RemoveElement
  <2>3. device_close' = Cardinality(Closers')
    BY <1>4, <2>2 DEF CloseDone, CloseFlagCountsClosers
  <2>4. "DEVICE_CLOSE" \in event_flags /\ device_close \in Nat \ {0}
    BY <1>4, CloserCounted DEF CloseFlagCountsClosers
  <2>5. "DEVICE_CLOSE" \in event_flags' <=> device_close > 1
    BY <1>4, <2>4 DEF CloseDone, Clear
  <2> QED
    BY <1>4, <2>3, <2>4, <2>5 DEF CloseDone, CloseFlagCountsClosers
<1> QED
  BY ClosersStep, <1>2, <1>3, <1>4 DEF ClosersChange

\* The pipe follows the flags: the writers of the flags keep it so, and CloseAnnounce
\* because a close that is not the first finds DEVICE_CLOSE set.
LEMMA PipeStep ==
  ASSUME IInv, [Next]_vars
  PROVE  PipeMatchesFlags' /\ SourcesTracked'
<1> USE DEF flagVars, sourceVars, IInv, SourcesTracked, PipeMatchesFlags, FlagsOK
<1>1. ASSUME NEW th \in Thread, ThreadStep(th), UNCHANGED gone
      PROVE  PipeMatchesFlags' /\ SourcesTracked'
  <2>1. CASE SyncLoop(th) \/ TryLockEvents(th) \/ EventsLockTaken(th) \/
       LockEvents(th) \/ SetHandlerActive(th) \/ DoOwnHandling(th)
    BY <1>1, <2>1 DEF SyncLoop, TryLockEvents, EventsLockTaken, LockEvents,
         SetHandlerActive, DoOwnHandling
  <2>2. CASE ClearHandlerActive(th) \/ UnlockEvents(th) \/ Broadcast(th) \/
       LockEventWaiters(th) \/ CheckCompleted(th) \/ CheckHandlerActive(th)
    BY <1>1, <2>2 DEF ClearHandlerActive, UnlockEvents, Broadcast,
         LockEventWaiters, CheckCompleted, CheckHandlerActive
  <2>3. CASE WakeUp(th) \/ PollReturns(th) \/ OpHandleEvents(th) \/
       CallbackReturns(th) \/ FinishBackend(th) \/ EndEventHandling(th)
    BY <1>1, <2>3 DEF WakeUp, PollReturns, OpHandleEvents, CallbackReturns,
         FinishBackend, EndEventHandling
  <2>4. CASE OpenAddDevice(th) \/ DoClose(th)
    BY <1>1, <2>4 DEF OpenAddDevice, DoClose
  <2>5. CASE RefreshEventData(th)
    <3>1. CASE "EVENT_SOURCES_MODIFIED" \in event_flags
      BY <1>1, <2>5, <3>1, ClearKeepsFlags DEF RefreshEventData, TypeOK
    <3>2. CASE "EVENT_SOURCES_MODIFIED" \notin event_flags
      BY <1>1, <2>5, <3>2 DEF RefreshEventData, PipeMatchesFlags
    <3> QED
      BY <3>1, <3>2
  <2>6. CASE HandleEventTrigger(th)
    <3>1. FlagsOK'
      BY <1>1, <2>6, ClearKeepsFlags DEF HandleEventTrigger, TypeOK, EventFlag
    <3> QED
      BY <1>1, <2>6, <3>1 DEF HandleEventTrigger, Clear
  <2>7. CASE OpenBackend(th)
    <3>1. FlagsOK'
      BY <1>1, <2>7, SignalKeepsFlags DEF OpenBackend, TypeOK, EventFlag
    <3> QED
      BY <1>1, <2>7, <3>1 DEF OpenBackend, Signal
  <2>8. CASE CloseAnnounce(th)
    BY <1>1, <2>8 DEF CloseAnnounce, PipeMatchesFlags, CloseFlagCountsClosers,
         TypeOK
  <2>9. CASE CloseBackend(th)
    <3>1. FlagsOK'
      BY <1>1, <2>9, RemoveKeepsFlags DEF CloseBackend, TypeOK, EventFlag
    <3> QED
      BY <1>1, <2>9, <3>1 DEF CloseBackend, RemoveEventSource, Signal
  <2>10. CASE CloseDone(th)
    <3>1. FlagsOK'
      BY <1>1, <2>10, ClearKeepsFlags DEF CloseDone, TypeOK, EventFlag
    <3> QED
      BY <1>1, <2>10, <3>1 DEF CloseDone, Clear
  <2>11. ASSUME NEW o \in Thread, ReapTransfer(th, o)
         PROVE  PipeMatchesFlags' /\ SourcesTracked'
    BY <1>1, <2>11 DEF ReapTransfer
  <2>12. ASSUME NEW d \in Device, RemoveBroken(th, d)
         PROVE  PipeMatchesFlags' /\ SourcesTracked'
    <3>1. FlagsOK'
      BY <1>1, <2>12, RemoveKeepsFlags DEF RemoveBroken, TypeOK, EventFlag
    <3> QED
      BY <1>1, <2>12, <3>1 DEF RemoveBroken, RemoveEventSource, Signal
  <2> QED
    BY <1>1, <2>1, <2>2, <2>3, <2>4, <2>5, <2>6, <2>7, <2>8, <2>9, <2>10, <2>11,
         <2>12 DEF ThreadStep
<1>2. ASSUME NEW th \in Thread, NEW d \in Device, SyncTransfer(th, d), UNCHANGED gone
      PROVE  PipeMatchesFlags' /\ SourcesTracked'
  BY <1>2 DEF SyncTransfer, Begin
<1>3. ASSUME NEW th \in Thread, NEW d \in Device, OpenDevice(th, d), UNCHANGED gone
      PROVE  PipeMatchesFlags' /\ SourcesTracked'
  BY <1>3 DEF OpenDevice, Begin
<1>4. ASSUME NEW th \in Thread, NEW d \in Device, CloseDevice(th, d), UNCHANGED gone
      PROVE  PipeMatchesFlags' /\ SourcesTracked'
  BY <1>4 DEF CloseDevice, Begin
<1>5. ASSUME NEW th \in Thread, InterruptEventHandler(th), UNCHANGED gone
      PROVE  PipeMatchesFlags' /\ SourcesTracked'
  <2>1. FlagsOK'
    BY <1>5, SignalKeepsFlags DEF InterruptEventHandler, TypeOK, EventFlag
  <2> QED
    BY <1>5, <2>1 DEF InterruptEventHandler, Signal
<1>6. ASSUME NEW th \in Thread, NestedHandleEvents(th), UNCHANGED gone
      PROVE  PipeMatchesFlags' /\ SourcesTracked'
  BY <1>6 DEF NestedHandleEvents, Begin
<1>7. ASSUME NEW th \in Thread, KernelAnswers(th), UNCHANGED gone
      PROVE  PipeMatchesFlags' /\ SourcesTracked'
  BY <1>7 DEF KernelAnswers
<1>8. ASSUME NEW th \in Thread, RefreshFails(th), UNCHANGED gone
      PROVE  PipeMatchesFlags' /\ SourcesTracked'
  BY <1>8 DEF RefreshFails
<1>9. ASSUME NEW th \in Thread, PollInterrupted(th), UNCHANGED gone
      PROVE  PipeMatchesFlags' /\ SourcesTracked'
  BY <1>9 DEF PollInterrupted
<1>10. ASSUME NEW d \in Device, Unplug(d)
       PROVE  PipeMatchesFlags' /\ SourcesTracked'
  BY <1>10 DEF Unplug
<1>11. CASE UNCHANGED vars
  BY <1>11 DEF vars
<1> QED
  BY <1>1, <1>2, <1>3, <1>4, <1>5, <1>6, <1>7, <1>8, <1>9, <1>10, <1>11 DEF Next,
       ProgramCall

-----------------------------------------------------------------------------
\* IInv holds at first: nobody holds a lock, closes a device or sleeps.
LEMMA InitIInv == Init => IInv
<1> SUFFICES ASSUME Init PROVE IInv
  OBVIOUS
<1>1. TypeOK
  <2>1. handling \in [Thread -> BOOLEAN] /\ completed \in [Thread -> BOOLEAN]
    BY DEF Init
  <2>2. pc \in [Thread -> Label]
    BY DEF Init, Label
  <2>3. op \in [Thread -> {"none", "sync", "open", "close", "handle_events"}]
    BY DEF Init
  <2>4. calls \in 0..MaxCalls
    BY BoundAssumption DEF Init
  <2>5. dev \in [Thread -> Device \cup {NoDevice}] /\ xfer \in [Thread -> Device \cup {NoDevice}]
    BY DEF Init
  <2> QED
    BY <2>1, <2>2, <2>3, <2>4, <2>5 DEF Init, TypeOK
<1>2. CloseFlagCountsClosers
  <2>1. Closers = {}
    BY DEF Init, Closers, Closing
  <2> QED
    BY <2>1, FS_EmptySet DEF Init, CloseFlagCountsClosers
<1> QED
  BY <1>1, <1>2 DEF Init, IInv, HandlingWhere, LockOwner,
       SleepersWait, OpenHasDevice, PipeMatchesFlags, SourcesTracked, HoldsEvents

\* IInv is inductive: each of its parts is kept by every step.
LEMMA NextIInv == IInv /\ [Next]_vars => IInv'
BY TypeStep, LockStep, WaitersStep, CountStep, PipeStep DEF IInv

\* The inductive invariant holds in every behaviour.
THEOREM Invariance == Spec => []IInv
BY InitIInv, NextIInv, PTL DEF Spec

\* Every variable keeps its type; in particular the close counter and the bytes in
\* the pipe never go below zero.
THEOREM TypeCorrect == Spec => []TypeOK
<1>1. IInv => TypeOK
  BY DEF IInv
<1> QED
  BY <1>1, Invariance, PTL

\* libusb_handle_events lets one thread at a time handle events, and none while
\* another one closes a device: both hold the events lock.
THEOREM OneHandlerAtATime == Spec => []OneHandler
<1>1. IInv => OneHandler
  BY DEF IInv, OneHandler, LockOwner, Handles, HoldsEvents
<1> QED
  BY <1>1, Invariance, PTL

\* usbi_signal_event and usbi_clear_event are called in step: the pipe holds a byte
\* exactly while a flag is set, so that reading it never blocks.
THEOREM PipeInStep == Spec => []PipeMatchesFlags
<1>1. IInv => PipeMatchesFlags
  BY DEF IInv
<1> QED
  BY <1>1, Invariance, PTL

\* libusb_close: device_close is the number of threads that are closing a device,
\* and DEVICE_CLOSE is set exactly while there is one.
THEOREM CloseFlagCounts == Spec => []CloseFlagCountsClosers
<1>1. IInv => CloseFlagCountsClosers
  BY DEF IInv
<1> QED
  BY <1>1, Invariance, PTL

\* usbi_add_event_source and usbi_remove_event_source: a thread in poll() watches
\* every registered descriptor, or the pipe is about to tell it that they changed.
THEOREM PollWatches == Spec => []PollWatchesDevices
<1>1. IInv => PollWatchesDevices
  BY DEF IInv, PollWatchesDevices, SourcesTracked
<1> QED
  BY <1>1, Invariance, PTL
-----------------------------------------------------------------------------
\* A thread that is to wake the waiters when it is through.
Waker(th) == pc[th] \in HoldsEvents \cup {"broadcast", "close_lock"}

\* Callbacks run with event_handling_key set: the closes they make go straight to do_close.
CallbackHandles ==
  \A th \in Thread :
    pc[th] \in {"poll", "trigger", "backend", "reap", "callback", "finish"} => handling[th]

\* event_handler_active tells of a thread that holds the lock and has yet to clear it.
ActiveHasHandler ==
  /\ event_handler_active => \E th \in Thread : pc[th] \in HoldsEvents \ {"unlock"}
  /\ \A th \in Thread : pc[th] = "unlock" => ~event_handler_active

WakerInv == CallbackHandles /\ ActiveHasHandler /\ SleeperHasWaker

\* A callback runs in a thread that handles events.
LEMMA CallbackStep ==
  ASSUME "handle_events" \notin CallbackCalls, IInv, WakerInv, [Next]_vars
  PROVE  CallbackHandles'
<1> USE CallbackAssumption, NoOneAssumption DEF lockVars, flagVars, listVars,
        sourceVars, threadVars, callVars, xferVars, progVars, Goto, IInv, TypeOK,
        HandlingWhere, HandlingLabel, LockOwner, SleepersWait, HoldsEvents,
        WakerInv, CallbackHandles
<1>1. ASSUME NEW th \in Thread, SyncLoop(th) \/ TryLockEvents(th) \/ EventsLockTaken(th) \/
     DoOwnHandling(th) \/ ClearHandlerActive(th) \/ UnlockEvents(th) \/ LockEventWaiters(th)
     \/ WakeUp(th) PROVE CallbackHandles'
  BY <1>1 DEF SyncLoop, TryLockEvents, EventsLockTaken, DoOwnHandling, ClearHandlerActive,
       UnlockEvents, LockEventWaiters, WakeUp
<1>2. ASSUME NEW th \in Thread, LockEvents(th) PROVE CallbackHandles'
  BY <1>2 DEF LockEvents
<1>3. ASSUME NEW th \in Thread, SetHandlerActive(th) PROVE CallbackHandles'
  BY <1>3 DEF SetHandlerActive
<1>4. ASSUME NEW th \in Thread, Broadcast(th) PROVE CallbackHandles'
  BY <1>4 DEF Broadcast
<1>5. ASSUME NEW th \in Thread, CheckCompleted(th) PROVE CallbackHandles'
  BY <1>5 DEF CheckCompleted
<1>6. ASSUME NEW th \in Thread, CheckHandlerActive(th) PROVE CallbackHandles'
  BY <1>6 DEF CheckHandlerActive
<1>7. ASSUME NEW th \in Thread, RefreshEventData(th) PROVE CallbackHandles'
  BY <1>7 DEF RefreshEventData
<1>8. ASSUME NEW th \in Thread, PollReturns(th) \/ HandleEventTrigger(th) \/
     OpHandleEvents(th) \/ CallbackReturns(th) \/ FinishBackend(th) \/ EndEventHandling(th)
     \/ (\E o \in Thread : ReapTransfer(th, o)) \/ (\E d \in Device : RemoveBroken(th,
     d)) PROVE CallbackHandles'
  BY <1>8 DEF PollReturns, HandleEventTrigger, OpHandleEvents, CallbackReturns,
       FinishBackend, EndEventHandling, ReapTransfer, RemoveBroken
<1>9. ASSUME NEW th \in Thread, OpenBackend(th) \/ OpenAddDevice(th) \/ CloseAnnounce(th) \/
     DoClose(th) \/ CloseDone(th) PROVE CallbackHandles'
  BY <1>9 DEF OpenBackend, OpenAddDevice, CloseAnnounce, DoClose, CloseDone
<1>10. ASSUME NEW th \in Thread, CloseBackend(th) PROVE CallbackHandles'
  BY <1>10 DEF CloseBackend
<1>11. ASSUME NEW th \in Thread, NEW d \in Device, SyncTransfer(th, d) \/ OpenDevice(th, d)
     \/ CloseDevice(th, d) PROVE CallbackHandles'
  BY <1>11 DEF SyncTransfer, OpenDevice, CloseDevice, Begin
<1>12. ASSUME NEW th \in Thread, InterruptEventHandler(th) \/ NestedHandleEvents(th) PROVE
     CallbackHandles'
  BY <1>12 DEF InterruptEventHandler, NestedHandleEvents, Begin
<1>13. ASSUME NEW th \in Thread, KernelAnswers(th) \/ RefreshFails(th) \/
     PollInterrupted(th) PROVE CallbackHandles'
  BY <1>13 DEF KernelAnswers, RefreshFails, PollInterrupted
<1>14. ASSUME NEW d \in Device, Unplug(d) PROVE CallbackHandles'
  BY <1>14 DEF Unplug
<1>15. CASE UNCHANGED vars
  BY <1>15 DEF vars
<1> QED
  BY <1>1, <1>2, <1>3, <1>4, <1>5, <1>6, <1>7, <1>8, <1>9, <1>10, <1>11, <1>12, <1>13,
       <1>14, <1>15 DEF Next, ThreadStep, ProgramCall

\* The indicator goes with the lock: it is cleared before the lock is released.
LEMMA ActiveStep ==
  ASSUME "handle_events" \notin CallbackCalls, IInv, WakerInv, [Next]_vars
  PROVE  ActiveHasHandler'
<1> USE CallbackAssumption, NoOneAssumption DEF lockVars, flagVars, listVars,
        sourceVars, threadVars, callVars, xferVars, progVars, Goto, IInv, TypeOK,
        HandlingWhere, HandlingLabel, LockOwner, SleepersWait, HoldsEvents,
        WakerInv, CallbackHandles, ActiveHasHandler
<1>1. ASSUME NEW th \in Thread, SyncLoop(th) \/ TryLockEvents(th) \/ EventsLockTaken(th) \/
     DoOwnHandling(th) \/ ClearHandlerActive(th) \/ UnlockEvents(th) \/ LockEventWaiters(th)
     \/ WakeUp(th) PROVE ActiveHasHandler'
  BY <1>1 DEF SyncLoop, TryLockEvents, EventsLockTaken, DoOwnHandling, ClearHandlerActive,
       UnlockEvents, LockEventWaiters, WakeUp
<1>2. ASSUME NEW th \in Thread, LockEvents(th) PROVE ActiveHasHandler'
  BY <1>2 DEF LockEvents
<1>3. ASSUME NEW th \in Thread, SetHandlerActive(th) PROVE ActiveHasHandler'
  BY <1>3 DEF SetHandlerActive
<1>4. ASSUME NEW th \in Thread, Broadcast(th) PROVE ActiveHasHandler'
  BY <1>4 DEF Broadcast
<1>5. ASSUME NEW th \in Thread, CheckCompleted(th) PROVE ActiveHasHandler'
  BY <1>5 DEF CheckCompleted
<1>6. ASSUME NEW th \in Thread, CheckHandlerActive(th) PROVE ActiveHasHandler'
  BY <1>6 DEF CheckHandlerActive
<1>7. ASSUME NEW th \in Thread, RefreshEventData(th) PROVE ActiveHasHandler'
  BY <1>7 DEF RefreshEventData
<1>8. ASSUME NEW th \in Thread, PollReturns(th) \/ HandleEventTrigger(th) \/
     OpHandleEvents(th) \/ CallbackReturns(th) \/ FinishBackend(th) \/ EndEventHandling(th)
     \/ (\E o \in Thread : ReapTransfer(th, o)) \/ (\E d \in Device : RemoveBroken(th,
     d)) PROVE ActiveHasHandler'
  BY <1>8 DEF PollReturns, HandleEventTrigger, OpHandleEvents, CallbackReturns,
       FinishBackend, EndEventHandling, ReapTransfer, RemoveBroken
<1>9. ASSUME NEW th \in Thread, OpenBackend(th) \/ OpenAddDevice(th) \/ CloseAnnounce(th) \/
     DoClose(th) \/ CloseDone(th) PROVE ActiveHasHandler'
  BY <1>9 DEF OpenBackend, OpenAddDevice, CloseAnnounce, DoClose, CloseDone
<1>10. ASSUME NEW th \in Thread, CloseBackend(th) PROVE ActiveHasHandler'
  BY <1>10 DEF CloseBackend
<1>11. ASSUME NEW th \in Thread, NEW d \in Device, SyncTransfer(th, d) \/ OpenDevice(th, d)
     \/ CloseDevice(th, d) PROVE ActiveHasHandler'
  BY <1>11 DEF SyncTransfer, OpenDevice, CloseDevice, Begin
<1>12. ASSUME NEW th \in Thread, InterruptEventHandler(th) \/ NestedHandleEvents(th) PROVE
     ActiveHasHandler'
  BY <1>12 DEF InterruptEventHandler, NestedHandleEvents, Begin
<1>13. ASSUME NEW th \in Thread, KernelAnswers(th) \/ RefreshFails(th) \/
     PollInterrupted(th) PROVE ActiveHasHandler'
  BY <1>13 DEF KernelAnswers, RefreshFails, PollInterrupted
<1>14. ASSUME NEW d \in Device, Unplug(d) PROVE ActiveHasHandler'
  BY <1>14 DEF Unplug
<1>15. CASE UNCHANGED vars
  BY <1>15 DEF vars
<1> QED
  BY <1>1, <1>2, <1>3, <1>4, <1>5, <1>6, <1>7, <1>8, <1>9, <1>10, <1>11, <1>12, <1>13,
       <1>14, <1>15 DEF Next, ThreadStep, ProgramCall

\* A waker stays one until it broadcasts.
LEMMA WakersStay ==
  ASSUME "handle_events" \notin CallbackCalls, IInv, WakerInv, [Next]_vars
  PROVE  (\A o \in Thread : Waker(o) => Waker(o)') \/ event_waiters' = {}
<1> USE CallbackAssumption, NoOneAssumption DEF lockVars, flagVars, listVars,
        sourceVars, threadVars, callVars, xferVars, progVars, Goto, IInv, TypeOK,
        HandlingWhere, HandlingLabel, LockOwner, SleepersWait, HoldsEvents,
        WakerInv, CallbackHandles, Waker
<1>1. ASSUME NEW th \in Thread, SyncLoop(th) \/ TryLockEvents(th) \/ EventsLockTaken(th) \/
     DoOwnHandling(th) \/ ClearHandlerActive(th) \/ UnlockEvents(th) \/ LockEventWaiters(th)
     \/ WakeUp(th) PROVE (\A o \in Thread : Waker(o) => Waker(o)') \/ event_waiters' = {}
  BY <1>1 DEF SyncLoop, TryLockEvents, EventsLockTaken, DoOwnHandling, ClearHandlerActive,
       UnlockEvents, LockEventWaiters, WakeUp
<1>2. ASSUME NEW th \in Thread, LockEvents(th) PROVE (\A o \in Thread : Waker(o) =>
     Waker(o)') \/ event_waiters' = {}
  BY <1>2 DEF LockEvents
<1>3. ASSUME NEW th \in Thread, SetHandlerActive(th) PROVE (\A o \in Thread : Waker(o) =>
     Waker(o)') \/ event_waiters' = {}
  BY <1>3 DEF SetHandlerActive
<1>4. ASSUME NEW th \in Thread, Broadcast(th) PROVE (\A o \in Thread : Waker(o) =>
     Waker(o)') \/ event_waiters' = {}
  BY <1>4 DEF Broadcast
<1>5. ASSUME NEW th \in Thread, CheckCompleted(th) PROVE (\A o \in Thread : Waker(o) =>
     Waker(o)') \/ event_waiters' = {}
  BY <1>5 DEF CheckCompleted
<1>6. ASSUME NEW th \in Thread, CheckHandlerActive(th) PROVE (\A o \in Thread : Waker(o) =>
     Waker(o)') \/ event_waiters' = {}
  BY <1>6 DEF CheckHandlerActive
<1>7. ASSUME NEW th \in Thread, RefreshEventData(th) PROVE (\A o \in Thread : Waker(o) =>
     Waker(o)') \/ event_waiters' = {}
  BY <1>7 DEF RefreshEventData
<1>8. ASSUME NEW th \in Thread, PollReturns(th) \/ HandleEventTrigger(th) \/
     OpHandleEvents(th) \/ CallbackReturns(th) \/ FinishBackend(th) \/ EndEventHandling(th)
     \/ (\E o \in Thread : ReapTransfer(th, o)) \/ (\E d \in Device : RemoveBroken(th,
     d)) PROVE (\A o \in Thread : Waker(o) => Waker(o)') \/ event_waiters' = {}
  BY <1>8 DEF PollReturns, HandleEventTrigger, OpHandleEvents, CallbackReturns,
       FinishBackend, EndEventHandling, ReapTransfer, RemoveBroken
<1>9. ASSUME NEW th \in Thread, OpenBackend(th) \/ OpenAddDevice(th) \/ CloseAnnounce(th) \/
     DoClose(th) \/ CloseDone(th) PROVE (\A o \in Thread : Waker(o) => Waker(o)') \/
     event_waiters' = {}
  BY <1>9 DEF OpenBackend, OpenAddDevice, CloseAnnounce, DoClose, CloseDone
<1>10. ASSUME NEW th \in Thread, CloseBackend(th) PROVE (\A o \in Thread : Waker(o) =>
     Waker(o)') \/ event_waiters' = {}
  BY <1>10 DEF CloseBackend
<1>11. ASSUME NEW th \in Thread, NEW d \in Device, SyncTransfer(th, d) \/ OpenDevice(th, d)
     \/ CloseDevice(th, d) PROVE (\A o \in Thread : Waker(o) => Waker(o)') \/ event_waiters'
     = {}
  BY <1>11 DEF SyncTransfer, OpenDevice, CloseDevice, Begin
<1>12. ASSUME NEW th \in Thread, InterruptEventHandler(th) \/ NestedHandleEvents(th) PROVE
     (\A o \in Thread : Waker(o) => Waker(o)') \/ event_waiters' = {}
  BY <1>12 DEF InterruptEventHandler, NestedHandleEvents, Begin
<1>13. ASSUME NEW th \in Thread, KernelAnswers(th) \/ RefreshFails(th) \/
     PollInterrupted(th) PROVE (\A o \in Thread : Waker(o) => Waker(o)') \/ event_waiters' =
     {}
  BY <1>13 DEF KernelAnswers, RefreshFails, PollInterrupted
<1>14. ASSUME NEW d \in Device, Unplug(d) PROVE (\A o \in Thread : Waker(o) => Waker(o)') \/
     event_waiters' = {}
  BY <1>14 DEF Unplug
<1>15. CASE UNCHANGED vars
  BY <1>15 DEF vars
<1> QED
  BY <1>1, <1>2, <1>3, <1>4, <1>5, <1>6, <1>7, <1>8, <1>9, <1>10, <1>11, <1>12, <1>13,
       <1>14, <1>15 DEF Next, ThreadStep, ProgramCall

\* A thread joins the waiters when it sees a thread that closes or the indicator.
LEMMA WaitersHaveWaker ==
  ASSUME "handle_events" \notin CallbackCalls, IInv, WakerInv, [Next]_vars
  PROVE  event_waiters' \subseteq event_waiters \/ \E o \in Thread : Waker(o)
<1> USE CallbackAssumption, NoOneAssumption DEF lockVars, flagVars, listVars,
        sourceVars, threadVars, callVars, xferVars, progVars, Goto, IInv, TypeOK,
        HandlingWhere, HandlingLabel, LockOwner, SleepersWait, HoldsEvents,
        WakerInv, ActiveHasHandler, Waker
<1>1. ASSUME NEW th \in Thread, SyncLoop(th) \/ TryLockEvents(th) \/ EventsLockTaken(th) \/
     DoOwnHandling(th) \/ ClearHandlerActive(th) \/ UnlockEvents(th) \/ LockEventWaiters(th)
     \/ WakeUp(th) PROVE event_waiters' \subseteq event_waiters \/ \E o \in Thread :
     Waker(o)
  BY <1>1 DEF SyncLoop, TryLockEvents, EventsLockTaken, DoOwnHandling, ClearHandlerActive,
       UnlockEvents, LockEventWaiters, WakeUp
<1>2. ASSUME NEW th \in Thread, LockEvents(th) PROVE event_waiters' \subseteq event_waiters
     \/ \E o \in Thread : Waker(o)
  BY <1>2 DEF LockEvents
<1>3. ASSUME NEW th \in Thread, SetHandlerActive(th) PROVE event_waiters' \subseteq
     event_waiters \/ \E o \in Thread : Waker(o)
  BY <1>3 DEF SetHandlerActive
<1>4. ASSUME NEW th \in Thread, Broadcast(th) PROVE event_waiters' \subseteq event_waiters
     \/ \E o \in Thread : Waker(o)
  BY <1>4 DEF Broadcast
<1>5. ASSUME NEW th \in Thread, CheckCompleted(th) PROVE event_waiters' \subseteq
     event_waiters \/ \E o \in Thread : Waker(o)
  <2>1. CASE device_close > 0
    <3>1. Closers # {}
      <4>1. device_close = Cardinality(Closers)
        BY DEF CloseFlagCountsClosers
      <4>2. Cardinality({}) = 0
        BY FS_EmptySet
      <4> HIDE DEF IInv, TypeOK
      <4> QED
        BY <2>1, <4>1, <4>2
    <3>2. \A o \in Closers : o \in Thread /\ Waker(o)
      BY DEF Closers, Closing
    <3> QED
      BY <3>1, <3>2
  <2>2. CASE ~(device_close > 0)
    BY <1>5, <2>2 DEF CheckCompleted
  <2> QED
    BY <2>1, <2>2
<1>6. ASSUME NEW th \in Thread, CheckHandlerActive(th) PROVE event_waiters' \subseteq
     event_waiters \/ \E o \in Thread : Waker(o)
  <2>1. CASE event_handler_active
    BY <2>1
  <2>2. CASE ~event_handler_active
    BY <1>6, <2>2 DEF CheckHandlerActive
  <2> QED
    BY <2>1, <2>2
<1>7. ASSUME NEW th \in Thread, RefreshEventData(th) PROVE event_waiters' \subseteq
     event_waiters \/ \E o \in Thread : Waker(o)
  BY <1>7 DEF RefreshEventData
<1>8. ASSUME NEW th \in Thread, PollReturns(th) \/ HandleEventTrigger(th) \/
     OpHandleEvents(th) \/ CallbackReturns(th) \/ FinishBackend(th) \/ EndEventHandling(th)
     \/ (\E o \in Thread : ReapTransfer(th, o)) \/ (\E d \in Device : RemoveBroken(th,
     d)) PROVE event_waiters' \subseteq event_waiters \/ \E o \in Thread : Waker(o)
  BY <1>8 DEF PollReturns, HandleEventTrigger, OpHandleEvents, CallbackReturns,
       FinishBackend, EndEventHandling, ReapTransfer, RemoveBroken
<1>9. ASSUME NEW th \in Thread, OpenBackend(th) \/ OpenAddDevice(th) \/ CloseAnnounce(th) \/
     DoClose(th) \/ CloseDone(th) PROVE event_waiters' \subseteq event_waiters \/ \E o \in
     Thread : Waker(o)
  BY <1>9 DEF OpenBackend, OpenAddDevice, CloseAnnounce, DoClose, CloseDone
<1>10. ASSUME NEW th \in Thread, CloseBackend(th) PROVE event_waiters' \subseteq
     event_waiters \/ \E o \in Thread : Waker(o)
  BY <1>10 DEF CloseBackend
<1>11. ASSUME NEW th \in Thread, NEW d \in Device, SyncTransfer(th, d) \/ OpenDevice(th, d)
     \/ CloseDevice(th, d) PROVE event_waiters' \subseteq event_waiters \/ \E o \in Thread :
     Waker(o)
  BY <1>11 DEF SyncTransfer, OpenDevice, CloseDevice, Begin
<1>12. ASSUME NEW th \in Thread, InterruptEventHandler(th) \/ NestedHandleEvents(th) PROVE
     event_waiters' \subseteq event_waiters \/ \E o \in Thread : Waker(o)
  BY <1>12 DEF InterruptEventHandler, NestedHandleEvents, Begin
<1>13. ASSUME NEW th \in Thread, KernelAnswers(th) \/ RefreshFails(th) \/
     PollInterrupted(th) PROVE event_waiters' \subseteq event_waiters \/ \E o \in Thread :
     Waker(o)
  BY <1>13 DEF KernelAnswers, RefreshFails, PollInterrupted
<1>14. ASSUME NEW d \in Device, Unplug(d) PROVE event_waiters' \subseteq event_waiters \/ \E
     o \in Thread : Waker(o)
  BY <1>14 DEF Unplug
<1>15. CASE UNCHANGED vars
  BY <1>15 DEF vars
<1> QED
  BY <1>1, <1>2, <1>3, <1>4, <1>5, <1>6, <1>7, <1>8, <1>9, <1>10, <1>11, <1>12, <1>13,
       <1>14, <1>15 DEF Next, ThreadStep, ProgramCall

\* WakerInv holds in every behaviour without nested handlers.
LEMMA WakerInvariance ==
  ASSUME "handle_events" \notin CallbackCalls
  PROVE  Spec => []WakerInv
<1>1. Init => WakerInv
  BY DEF Init, WakerInv, CallbackHandles, ActiveHasHandler, SleeperHasWaker
<1>2. IInv /\ WakerInv /\ [Next]_vars => WakerInv'
  <2> SUFFICES ASSUME IInv, WakerInv, [Next]_vars PROVE WakerInv'
    OBVIOUS
  <2>1. CallbackHandles' /\ ActiveHasHandler'
    BY CallbackStep, ActiveStep
  <2>2. ASSUME event_waiters' # {} PROVE \E o \in Thread : Waker(o)'
    <3>1. \E o \in Thread : Waker(o)
      BY <2>2, WaitersHaveWaker DEF WakerInv, SleeperHasWaker, Waker
    <3> QED
      BY <2>2, <3>1, WakersStay
  <2>3. SleeperHasWaker'
    BY <2>2 DEF SleeperHasWaker, Waker
  <2> QED
    BY <2>1, <2>3 DEF WakerInv
<1> QED
  BY <1>1, <1>2, Invariance, PTL DEF Spec

\* No wakeup is missed (libusb_handle_events_timeout_completed, libusb_unlock_events):
\* while a thread sleeps among the event waiters, one that will broadcast to them is at
\* work.  It needs callbacks that do not handle events themselves: one that does waits
\* for its own thread, before handle_events can refuse the recursion.
THEOREM SleepersAreWoken ==
  ASSUME "handle_events" \notin CallbackCalls
  PROVE  Spec => []SleeperHasWaker
<1>1. WakerInv => SleeperHasWaker
  BY DEF WakerInv
<1> QED
  BY <1>1, WakerInvariance, PTL
=============================================================================
