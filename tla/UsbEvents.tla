----------------------------- MODULE UsbEvents -----------------------------
(***************************************************************************)
(* Which thread handles libusb's events, how the others wait for it, and   *)
(* how opening or closing a device gets it out of poll(): the events lock, *)
(* the event waiters, the event flags with the pipe that signals them, and *)
(* the list of event sources.                                              *)
(*                                                                         *)
(* A thread of the program makes synchronous transfers (submit, then       *)
(* libusb_handle_events_completed until the callback has set its flag),    *)
(* opens and closes devices and interrupts the handler.  A mutex held over *)
(* several actions is in the state; event_data_lock never is, so its       *)
(* critical sections are single actions.  The 60 s after which             *)
(* libusb_handle_events looks again are left out: a missed wakeup is a     *)
(* hang here and not a delay.                                              *)
(***************************************************************************)
EXTENDS Naturals, FiniteSets

CONSTANTS
  Thread,         \* the program's threads
  Device,         \* the devices it opens and closes
  CallbackCalls,  \* what its callbacks do: subset of {"close", "handle_events"}
  MaxCalls        \* bound on the API calls it makes

ASSUME ThreadAssumption == IsFiniteSet(Thread)
ASSUME CallbackAssumption == CallbackCalls \subseteq {"close", "handle_events"}
ASSUME BoundAssumption == MaxCalls \in Nat

NoOne == "no one"
NoDevice == "no device"
ASSUME NoOneAssumption == NoOne \notin Thread
ASSUME NoDeviceAssumption == NoDevice \notin Device

EventFlag == {"EVENT_SOURCES_MODIFIED", "USER_INTERRUPT", "DEVICE_CLOSE"}

Label == {"idle", "sync", "try", "trylock", "activate", "own", "prepare", "poll",
          "trigger", "backend", "reap", "callback", "finish", "release", "unlock",
          "broadcast", "waiters", "check", "check_active", "waiting", "woken",
          "close", "close_lock", "close_activate", "do_close", "close_backend",
          "close_done", "open", "open_list"}

VARIABLES
  events_lock, event_handler_active,  \* the events lock and its indicator
  device_close, event_flags, event,   \* under event_data_lock; bytes in the pipe
  event_waiters_lock, event_waiters,  \* mutex and condition variable
  open_devs_lock, open_devs,
  event_sources, event_data,          \* fds registered, and fds handed to poll()
  reported, broken,                   \* fds poll() reported, and those with POLLERR
  handling,                           \* handling[th]: event_handling_key is set
  pc, op, dev,                        \* where a thread is, its call, its device
  xfer, answered, completed,          \* transfers in flight, done in the kernel,
                                      \* and the flags their callbacks set
  handles, calls,                     \* handles the program has; calls it made
  gone                                \* devices that were unplugged

lockVars == <<events_lock, event_handler_active, event_waiters_lock, open_devs_lock>>
flagVars == <<device_close, event_flags, event>>
sourceVars == <<event_sources, event_data, reported, broken>>
callVars == <<op, dev, handling>>
threadVars == <<pc, callVars>>
xferVars == <<xfer, answered, completed>>
listVars == <<event_waiters, open_devs>>
progVars == <<handles, calls>>
vars == <<lockVars, flagVars, listVars, sourceVars, threadVars, xferVars, progVars, gone>>

Init ==
  /\ events_lock = NoOne /\ event_handler_active = FALSE
  /\ device_close = 0 /\ event_flags = {} /\ event = 0
  /\ event_waiters_lock = NoOne /\ event_waiters = {}
  /\ open_devs_lock = NoOne /\ open_devs = {}
  /\ event_sources = {} /\ event_data = {} /\ reported = {} /\ broken = {}
  /\ handling = [th \in Thread |-> FALSE]
  /\ pc = [th \in Thread |-> "idle"]
  /\ op = [th \in Thread |-> "none"]
  /\ dev = [th \in Thread |-> NoDevice]
  /\ xfer = [th \in Thread |-> NoDevice]
  /\ answered = {}
  /\ completed = [th \in Thread |-> FALSE]
  /\ handles = {} /\ calls = 0 /\ gone = {}

Goto(th, label) == pc' = [pc EXCEPT ![th] = label]

\* Mutant: a byte for every flag.
SignalAlways(flag) ==
  /\ event_flags' = event_flags \cup {flag}
  /\ event' = event + 1

\* Set a flag: the pipe gets a byte if no flag was set.
Signal(flag) ==
  /\ event_flags' = event_flags \cup {flag}
  /\ event' = IF event_flags = {} THEN event + 1 ELSE event

\* Mutant: the pipe is read although other flags are set, and whatever it holds.
ClearAlways(flags) ==
  /\ event_flags' = event_flags \ flags
  /\ event' = event - 1

\* Clear flags: the pipe is read if none is left.  usbi_clear_event would block on
\* an empty one.
Clear(flags) ==
  /\ event_flags' = event_flags \ flags
  /\ IF event_flags' = {} THEN event > 0 /\ event' = event - 1 ELSE event' = event

\* Mutant: nobody is told.
RemoveQuietly(d) ==
  /\ event_sources' = event_sources \ {d}
  /\ UNCHANGED <<event_flags, event>>

\* usbi_remove_event_source: nothing if it was removed before.
RemoveEventSource(d) ==
  /\ event_sources' = event_sources \ {d}
  /\ IF d \in event_sources THEN Signal("EVENT_SOURCES_MODIFIED")
     ELSE UNCHANGED <<event_flags, event>>
-----------------------------------------------------------------------------
(* The program's calls *)

Begin(th, what, d, label) ==
  /\ pc[th] \in {"idle", "callback"}
  /\ pc[th] = "callback" => what \in CallbackCalls
  /\ calls < MaxCalls
  /\ calls' = calls + 1
  /\ op' = [op EXCEPT ![th] = IF pc[th] = "idle" THEN what ELSE @]
  /\ dev' = [dev EXCEPT ![th] = d]
  /\ Goto(th, label)
  /\ UNCHANGED <<lockVars, flagVars, listVars, sourceVars, handling>>

\* libusb_bulk_transfer and the like: submit, then sync_transfer_wait_for_completion.
SyncTransfer(th, d) ==
  /\ d \in handles \ gone
  /\ Begin(th, "sync", d, "sync")
  /\ xfer' = [xfer EXCEPT ![th] = d]
  /\ completed' = [completed EXCEPT ![th] = FALSE]
  /\ UNCHANGED <<answered, handles>>

\* A device has one handle at a time, which stands for its descriptor too.
OpenDevice(th, d) ==
  /\ d \notin handles \cup gone \cup event_sources
  /\ \A o \in Thread : dev[o] = d => pc[o] = "idle"
  /\ Begin(th, "open", d, "open")
  /\ UNCHANGED <<xferVars, handles>>

\* libusb_close, of a device no transfer is in flight on; a thread that is
\* handling events goes straight to do_close.
CloseDevice(th, d) ==
  /\ d \in handles /\ \A o \in Thread : xfer[o] # d
  /\ Begin(th, "close", d, IF handling[th] THEN "do_close" ELSE "close")
  /\ handles' = handles \ {d}
  /\ UNCHANGED xferVars

\* libusb_interrupt_event_handler
InterruptEventHandler(th) ==
  /\ pc[th] = "idle" /\ calls < MaxCalls
  /\ calls' = calls + 1
  /\ Signal("USER_INTERRUPT")
  /\ UNCHANGED <<lockVars, device_close, listVars, sourceVars, threadVars, xferVars,
                 handles>>

\* libusb_handle_events called by a callback.
NestedHandleEvents(th) ==
  /\ pc[th] = "callback"
  /\ Begin(th, "handle_events", dev[th], "try")
  /\ UNCHANGED <<xferVars, handles>>
-----------------------------------------------------------------------------
(* libusb_handle_events_timeout_completed *)

\* while (!*completed)
SyncLoop(th) ==
  /\ pc[th] = "sync"
  /\ Goto(th, IF completed[th] THEN "idle" ELSE "try")
  /\ UNCHANGED <<lockVars, flagVars, listVars, sourceVars, callVars, xferVars, progVars>>

\* Mutant: a thread that closes a device is not let in first.
TryLockAnyway(th) ==
  /\ pc[th] = "try"
  /\ Goto(th, "trylock")
  /\ UNCHANGED <<lockVars, flagVars, listVars, sourceVars, callVars, xferVars, progVars>>

\* libusb_try_lock_events: not while somebody is closing a device.
TryLockEvents(th) ==
  /\ pc[th] = "try"
  /\ Goto(th, IF device_close > 0 THEN "waiters" ELSE "trylock")
  /\ UNCHANGED <<lockVars, flagVars, listVars, sourceVars, callVars, xferVars, progVars>>

EventsLockTaken(th) ==
  /\ pc[th] = "trylock" /\ events_lock # NoOne
  /\ Goto(th, "waiters")
  /\ UNCHANGED <<lockVars, flagVars, listVars, sourceVars, callVars, xferVars, progVars>>

\* Mutant: the lock does not exclude.
LockEventsShared(th) ==
  /\ pc[th] \in {"trylock", "close_lock"}
  /\ events_lock' = th
  /\ Goto(th, IF pc[th] = "trylock" THEN "activate" ELSE "close_activate")
  /\ UNCHANGED <<event_handler_active, event_waiters_lock, open_devs_lock, flagVars,
                 listVars, sourceVars, callVars, xferVars, progVars>>

\* Taken here, and in libusb_lock_events by a thread that closes a device.
LockEvents(th) ==
  /\ pc[th] \in {"trylock", "close_lock"} /\ events_lock = NoOne
  /\ events_lock' = th
  /\ Goto(th, IF pc[th] = "trylock" THEN "activate" ELSE "close_activate")
  /\ UNCHANGED <<event_handler_active, event_waiters_lock, open_devs_lock, flagVars,
                 listVars, sourceVars, callVars, xferVars, progVars>>

SetHandlerActive(th) ==
  /\ pc[th] \in {"activate", "close_activate"}
  /\ event_handler_active' = TRUE
  /\ Goto(th, IF pc[th] = "activate" THEN "own" ELSE "do_close")
  /\ UNCHANGED <<events_lock, event_waiters_lock, open_devs_lock, flagVars, listVars,
                 sourceVars, callVars, xferVars, progVars>>

\* The last handler may have completed the transfer this thread waits for.
DoOwnHandling(th) ==
  /\ pc[th] = "own"
  /\ Goto(th, IF completed[th] THEN "release" ELSE "prepare")
  /\ UNCHANGED <<lockVars, flagVars, listVars, sourceVars, callVars, xferVars, progVars>>

\* libusb_unlock_events
ClearHandlerActive(th) ==
  /\ pc[th] = "release"
  /\ event_handler_active' = FALSE
  /\ Goto(th, "unlock")
  /\ UNCHANGED <<events_lock, event_waiters_lock, open_devs_lock, flagVars, listVars,
                 sourceVars, callVars, xferVars, progVars>>

\* Mutant: the waiters are not told.
UnlockWithoutBroadcast(th) ==
  /\ pc[th] = "unlock"
  /\ events_lock' = NoOne
  /\ Goto(th, IF op[th] = "sync" THEN "sync" ELSE "idle")
  /\ UNCHANGED <<event_handler_active, event_waiters_lock, open_devs_lock, flagVars,
                 listVars, sourceVars, callVars, xferVars, progVars>>

\* The mutex first, then the waiters.
UnlockEvents(th) ==
  /\ pc[th] = "unlock"
  /\ events_lock' = NoOne
  /\ Goto(th, "broadcast")
  /\ UNCHANGED <<event_handler_active, event_waiters_lock, open_devs_lock, flagVars,
                 listVars, sourceVars, callVars, xferVars, progVars>>

Broadcast(th) ==
  /\ pc[th] = "broadcast" /\ event_waiters_lock = NoOne
  /\ event_waiters' = {}
  /\ pc' = [o \in Thread |->
              IF o \in event_waiters THEN "woken"
              ELSE IF o # th THEN pc[o]
              ELSE IF op[th] = "sync" THEN "sync" ELSE "idle"]
  /\ UNCHANGED <<lockVars, flagVars, open_devs, sourceVars, callVars, xferVars, progVars>>

\* libusb_lock_event_waiters
LockEventWaiters(th) ==
  /\ pc[th] = "waiters" /\ event_waiters_lock = NoOne
  /\ event_waiters_lock' = th
  /\ Goto(th, "check")
  /\ UNCHANGED <<events_lock, event_handler_active, open_devs_lock, flagVars, listVars,
                 sourceVars, callVars, xferVars, progVars>>

\* Already completed; else libusb_event_handler_active looks at device_close, ...
\* A nested call waits for no transfer (completed is NULL).
CheckCompleted(th) ==
  /\ pc[th] = "check"
  /\ IF completed[th] /\ ~handling[th]
     THEN /\ event_waiters_lock' = NoOne /\ Goto(th, "sync")
          /\ UNCHANGED event_waiters
     ELSE IF device_close > 0
     THEN /\ event_waiters_lock' = NoOne /\ Goto(th, "waiting")
          /\ event_waiters' = event_waiters \cup {th}
     ELSE Goto(th, "check_active") /\ UNCHANGED <<event_waiters_lock, event_waiters>>
  /\ UNCHANGED <<events_lock, event_handler_active, open_devs_lock, flagVars, open_devs,
                 sourceVars, callVars, xferVars, progVars>>

\* ... then at the indicator: wait for the handler, or retry if it went away.
CheckHandlerActive(th) ==
  /\ pc[th] = "check_active"
  /\ event_waiters_lock' = NoOne
  /\ IF event_handler_active
     THEN Goto(th, "waiting") /\ event_waiters' = event_waiters \cup {th}
     ELSE Goto(th, "try") /\ UNCHANGED event_waiters
  /\ UNCHANGED <<events_lock, event_handler_active, open_devs_lock, flagVars, open_devs,
                 sourceVars, callVars, xferVars, progVars>>

\* The wait returns with the mutex, which is then released.
WakeUp(th) ==
  /\ pc[th] = "woken" /\ event_waiters_lock = NoOne
  /\ Goto(th, IF handling[th] THEN "callback" ELSE "sync")
  /\ UNCHANGED <<lockVars, flagVars, listVars, sourceVars, callVars, xferVars, progVars>>
-----------------------------------------------------------------------------
(* handle_events.  Its test for recursion is never reached by a nested call:   *)
(* libusb_try_lock_events fails first.                                         *)

\* Mutant: the descriptors handed to poll() are never brought up to date.
RefreshForgotten(th) ==
  /\ pc[th] = "prepare"
  /\ handling' = [handling EXCEPT ![th] = TRUE]
  /\ Goto(th, "poll")
  /\ UNCHANGED <<lockVars, flagVars, listVars, sourceVars, op, dev, xferVars, progVars>>

\* Under event_data_lock: take over the list of event sources if it changed.
RefreshEventData(th) ==
  /\ pc[th] = "prepare"
  /\ IF "EVENT_SOURCES_MODIFIED" \in event_flags
     THEN event_data' = event_sources /\ Clear({"EVENT_SOURCES_MODIFIED"})
     ELSE UNCHANGED <<event_data, event_flags, event>>
  /\ handling' = [handling EXCEPT ![th] = TRUE]
  /\ Goto(th, "poll")
  /\ UNCHANGED <<lockVars, device_close, listVars, event_sources, reported, broken, op,
                 dev, xferVars, progVars>>

\* usbi_alloc_event_data has no memory: the flag stays for the next attempt.
RefreshFails(th) ==
  /\ pc[th] = "prepare" /\ "EVENT_SOURCES_MODIFIED" \in event_flags
  /\ calls < MaxCalls /\ calls' = calls + 1
  /\ Goto(th, "release")
  /\ UNCHANGED <<lockVars, flagVars, listVars, sourceVars, callVars, xferVars, handles>>

\* poll() fails with EINTR.
PollInterrupted(th) ==
  /\ pc[th] = "poll"
  /\ calls < MaxCalls /\ calls' = calls + 1
  /\ Goto(th, "finish")
  /\ UNCHANGED <<lockVars, flagVars, listVars, sourceVars, callVars, xferVars, handles>>

Readable(d) == d \in gone \/ \E o \in answered : xfer[o] = d

\* poll() returns; descriptors removed since are ignored.
PollReturns(th) ==
  LET ready == {d \in event_data : Readable(d)} IN
  /\ pc[th] = "poll" /\ (event > 0 \/ ready # {})
  /\ reported' = IF "EVENT_SOURCES_MODIFIED" \in event_flags
                 THEN ready \cap event_sources ELSE ready
  /\ broken' = reported' \cap gone
  /\ Goto(th, IF event > 0 THEN "trigger" ELSE "backend")
  /\ UNCHANGED <<lockVars, flagVars, listVars, event_sources, event_data, callVars,
                 xferVars, progVars>>

HandleEventTrigger(th) ==
  /\ pc[th] = "trigger"
  /\ Clear({"USER_INTERRUPT"})
  /\ Goto(th, IF reported = {} THEN "finish" ELSE "backend")
  /\ UNCHANGED <<lockVars, device_close, listVars, sourceVars, callVars, xferVars,
                 progVars>>

\* op_handle_events holds open_devs_lock from here to FinishBackend.
OpHandleEvents(th) ==
  /\ pc[th] = "backend" /\ open_devs_lock = NoOne
  /\ open_devs_lock' = th
  /\ Goto(th, "reap")
  /\ UNCHANGED <<events_lock, event_handler_active, event_waiters_lock, flagVars,
                 listVars, sourceVars, callVars, xferVars, progVars>>

\* Reap a transfer of a reported device and run its callback: sync_transfer_cb.
ReapTransfer(th, o) ==
  /\ pc[th] = "reap" /\ o \in answered /\ xfer[o] \in reported \cap open_devs
  /\ answered' = answered \ {o}
  /\ xfer' = [xfer EXCEPT ![o] = NoDevice]
  /\ completed' = [completed EXCEPT ![o] = TRUE]
  /\ Goto(th, "callback")
  /\ UNCHANGED <<lockVars, flagVars, listVars, sourceVars, callVars, progVars>>

CallbackReturns(th) ==
  /\ pc[th] = "callback"
  /\ Goto(th, "reap")
  /\ UNCHANGED <<lockVars, flagVars, listVars, sourceVars, callVars, xferVars, progVars>>

\* POLLERR: the descriptor is no longer polled; the transfers come back, see
\* UsbTransfer.
RemoveBroken(th, d) ==
  /\ pc[th] = "reap" /\ d \in broken \cap open_devs
  /\ broken' = broken \ {d}
  /\ RemoveEventSource(d)
  /\ UNCHANGED <<lockVars, device_close, listVars, event_data, reported, threadVars,
                 xferVars, progVars>>

FinishBackend(th) ==
  /\ pc[th] = "reap" /\ broken \cap open_devs = {}
  /\ ~\E o \in answered : xfer[o] \in reported \cap open_devs
  /\ open_devs_lock' = NoOne
  /\ Goto(th, "finish")
  /\ UNCHANGED <<events_lock, event_handler_active, event_waiters_lock, flagVars,
                 listVars, sourceVars, callVars, xferVars, progVars>>

EndEventHandling(th) ==
  /\ pc[th] = "finish"
  /\ handling' = [handling EXCEPT ![th] = FALSE]
  /\ reported' = {} /\ broken' = {}
  /\ Goto(th, "release")
  /\ UNCHANGED <<lockVars, flagVars, listVars, event_sources, event_data, op, dev,
                 xferVars, progVars>>
-----------------------------------------------------------------------------
(* libusb_open and libusb_close *)

\* The backend adds the descriptor (usbi_add_event_source).
OpenBackend(th) ==
  /\ pc[th] = "open"
  /\ event_sources' = event_sources \cup {dev[th]}
  /\ Signal("EVENT_SOURCES_MODIFIED")
  /\ Goto(th, "open_list")
  /\ UNCHANGED <<lockVars, device_close, listVars, event_data, reported, broken, callVars,
                 xferVars, progVars>>

OpenAddDevice(th) ==
  /\ pc[th] = "open_list" /\ open_devs_lock = NoOne
  /\ open_devs' = open_devs \cup {dev[th]}
  /\ handles' = handles \cup {dev[th]}
  /\ Goto(th, "idle")
  /\ UNCHANGED <<lockVars, flagVars, event_waiters, sourceVars, callVars, xferVars,
                 calls>>

\* Announce the close, and get the handler out of poll().
CloseAnnounce(th) ==
  /\ pc[th] = "close"
  /\ device_close' = device_close + 1
  /\ event_flags' = IF device_close = 0 THEN event_flags \cup {"DEVICE_CLOSE"} ELSE event_flags
  /\ event' = IF event_flags = {} THEN event + 1 ELSE event
  /\ Goto(th, "close_lock")
  /\ UNCHANGED <<lockVars, listVars, sourceVars, callVars, xferVars, progVars>>

\* do_close, under open_devs_lock ...
DoClose(th) ==
  /\ pc[th] = "do_close" /\ open_devs_lock = NoOne
  /\ open_devs' = open_devs \ {dev[th]}
  /\ Goto(th, "close_backend")
  /\ UNCHANGED <<lockVars, flagVars, event_waiters, sourceVars, callVars, xferVars,
                 progVars>>

\* ... and op_close (usbi_remove_event_source).
CloseBackend(th) ==
  /\ pc[th] = "close_backend"
  /\ RemoveEventSource(dev[th])
  /\ Goto(th, IF handling[th] THEN "callback" ELSE "close_done")
  /\ UNCHANGED <<lockVars, device_close, listVars, event_data, reported, broken, callVars,
                 xferVars, progVars>>

\* Mutant: the flag goes although others are still closing.
CloseDoneForAll(th) ==
  /\ pc[th] = "close_done"
  /\ device_close' = device_close - 1
  /\ Clear({"DEVICE_CLOSE"})
  /\ Goto(th, "release")
  /\ UNCHANGED <<lockVars, listVars, sourceVars, callVars, xferVars, progVars>>

\* The last one to close clears the flag; then libusb_unlock_events.
CloseDone(th) ==
  /\ pc[th] = "close_done"
  /\ device_close' = device_close - 1
  /\ Clear(IF device_close = 1 THEN {"DEVICE_CLOSE"} ELSE {})
  /\ Goto(th, "release")
  /\ UNCHANGED <<lockVars, listVars, sourceVars, callVars, xferVars, progVars>>
-----------------------------------------------------------------------------
\* The device answers a transfer.
KernelAnswers(th) ==
  /\ xfer[th] # NoDevice /\ th \notin answered
  /\ answered' = answered \cup {th}
  /\ UNCHANGED <<lockVars, flagVars, listVars, sourceVars, threadVars, xfer, completed,
                 progVars>>

\* A device is unplugged: what was in flight on it is over.
Unplug(d) ==
  /\ d \in event_sources \ gone
  /\ gone' = gone \cup {d}
  /\ answered' = answered \cup {th \in Thread : xfer[th] = d}
  /\ UNCHANGED <<lockVars, flagVars, listVars, sourceVars, threadVars, xfer, completed,
                 progVars>>

ThreadStep(th) ==
  \/ SyncLoop(th) \/ TryLockEvents(th) \/ EventsLockTaken(th) \/ LockEvents(th)
  \/ SetHandlerActive(th) \/ DoOwnHandling(th) \/ ClearHandlerActive(th)
  \/ UnlockEvents(th) \/ Broadcast(th) \/ LockEventWaiters(th) \/ CheckCompleted(th)
  \/ CheckHandlerActive(th) \/ WakeUp(th)
  \/ RefreshEventData(th) \/ PollReturns(th) \/ HandleEventTrigger(th)
  \/ OpHandleEvents(th) \/ CallbackReturns(th) \/ FinishBackend(th)
  \/ EndEventHandling(th)
  \/ \E o \in Thread : ReapTransfer(th, o)
  \/ \E d \in Device : RemoveBroken(th, d)
  \/ OpenBackend(th) \/ OpenAddDevice(th)
  \/ CloseAnnounce(th) \/ DoClose(th) \/ CloseBackend(th) \/ CloseDone(th)

ProgramCall(th) ==
  \/ \E d \in Device : SyncTransfer(th, d) \/ OpenDevice(th, d) \/ CloseDevice(th, d)
  \/ InterruptEventHandler(th) \/ NestedHandleEvents(th)

Quiescent == \A th \in Thread : pc[th] = "idle"

Next ==
  \/ /\ \E th \in Thread : \/ ThreadStep(th) \/ ProgramCall(th) \/ KernelAnswers(th)
                            \/ RefreshFails(th) \/ PollInterrupted(th)
     /\ UNCHANGED gone
  \/ \E d \in Device : Unplug(d)
  \/ Quiescent /\ UNCHANGED vars

Spec == Init /\ [][Next]_vars

\* Every thread keeps running inside libusb; the devices owe nothing.
Fairness == \A th \in Thread : WF_vars(ThreadStep(th) /\ UNCHANGED gone)

FairSpec == Spec /\ Fairness
-----------------------------------------------------------------------------
TypeOK ==
  /\ events_lock \in Thread \cup {NoOne}
  /\ event_handler_active \in BOOLEAN
  /\ device_close \in Nat
  /\ event_flags \subseteq EventFlag
  /\ event \in Nat
  /\ event_waiters_lock \in Thread \cup {NoOne}
  /\ event_waiters \subseteq Thread
  /\ open_devs_lock \in Thread \cup {NoOne}
  /\ open_devs \subseteq Device
  /\ event_sources \subseteq Device /\ event_data \subseteq Device
  /\ reported \subseteq Device /\ broken \subseteq Device /\ gone \subseteq Device
  /\ handling \in [Thread -> BOOLEAN]
  /\ pc \in [Thread -> Label]
  /\ op \in [Thread -> {"none", "sync", "open", "close", "handle_events"}]
  /\ dev \in [Thread -> Device \cup {NoDevice}]
  /\ xfer \in [Thread -> Device \cup {NoDevice}]
  /\ answered \subseteq Thread
  /\ completed \in [Thread -> BOOLEAN]
  /\ handles \subseteq Device
  /\ calls \in 0..MaxCalls

\* Where a thread holds the events lock, and where it handles events.
HoldsEvents == {"activate", "own", "prepare", "poll", "trigger", "backend", "reap",
                "callback", "finish", "close_activate", "do_close", "close_backend",
                "close_done", "release", "unlock"}
Handles == {"prepare", "poll", "trigger", "backend", "reap", "callback", "finish"}

\* The threads inside libusb_close, but for a callback that called it.
Closing == {"close_lock", "close_activate", "do_close", "close_backend", "close_done"}
Closers == {th \in Thread : pc[th] \in Closing /\ ~handling[th]}

\* libusb_handle_events lets one thread at a time handle events, and none while
\* another one closes a device.
OneHandler ==
  \A th, o \in Thread :
    pc[th] \in Handles /\ pc[o] \in Handles \cup {"do_close", "close_backend"} => th = o

\* The pipe holds one byte while some flag is set and none otherwise, whoever set
\* or cleared the flag: poll() neither sleeps on a pending event nor spins, and
\* reading the pipe never blocks.
PipeMatchesFlags == event = IF event_flags = {} THEN 0 ELSE 1

\* DEVICE_CLOSE is set exactly while some thread is closing a device.
CloseFlagCountsClosers ==
  /\ device_close = Cardinality(Closers)
  /\ "DEVICE_CLOSE" \in event_flags <=> device_close > 0

\* A thread in poll() watches every registered descriptor, or is about to be told
\* that they changed.
PollWatchesDevices ==
  \A th \in Thread : pc[th] = "poll" =>
    event_data = event_sources \/ "EVENT_SOURCES_MODIFIED" \in event_flags

\* A thread asleep among the event waiters has a thread to wake it: one that
\* holds the events lock or is closing a device, or has yet to broadcast.
SleeperHasWaker ==
  event_waiters # {} =>
    \E th \in Thread : pc[th] \in HoldsEvents \cup {"broadcast", "close_lock"}

\* A synchronous transfer that the device has answered returns to its caller, whichever
\* thread handles the events by then.
SyncReturns ==
  \A th \in Thread :
    op[th] = "sync" /\ pc[th] # "idle" /\ (th \in answered \/ completed[th])
      ~> pc[th] = "idle"

\* libusb_close returns, although it needs the lock of the thread that handles
\* events and no device may have anything to say to that thread.
CloseReturns == \A th \in Thread : pc[th] = "close" ~> pc[th] = "idle"

\* The comment in libusb_close: called by the current event handler it needs no
\* lock that the handler does not already have.
CloseFromCallbackProceeds ==
  \A th \in Thread : pc[th] = "do_close" => open_devs_lock # th

\* The comment in handle_events: handling events recursively from a callback is
\* prevented, so a thread that handles events never waits for the handler.
HandlerNeverWaits ==
  \A th \in event_waiters : ~handling[th]
=============================================================================
