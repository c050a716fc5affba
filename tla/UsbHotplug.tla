----------------------------- MODULE UsbHotplug -----------------------------
(***************************************************************************)
(* Hotplug notification in libusb (hotplug.c): the monitor thread adds     *)
(* devices to the context and removes them, and queues a message for each; *)
(* the event handler takes the queue and calls the callbacks, outside of   *)
(* hotplug_cbs_lock; the program registers and deregisters callbacks while *)
(* this happens. A device is one struct libusb_device: plugged in again,   *)
(* it is another one. Callbacks match every device and both events.        *)
(***************************************************************************)
EXTENDS Naturals, Sequences, SequencesExt, FiniteSets

CONSTANTS
  HotplugDevice,
  HotplugCallback,
  Enumerating,      \* the callbacks registered with LIBUSB_HOTPLUG_ENUMERATE
  OneShot           \* the callbacks that may return 1

\* A callback that is enumerated by the thread that registers it may not be freed by
\* the handler because it returned 1 there: the code leaves that to the program.
ASSUME CallbackAssumption ==
  Enumerating \subseteq HotplugCallback /\ OneShot \subseteq HotplugCallback \ Enumerating

NoCallback == "none"
ASSUME NoCallbackAssumption == NoCallback \notin HotplugCallback

NoMessage == [event |-> "none"]
Message == [event : {"ARRIVED", "LEFT"}, device : HotplugDevice]

VARIABLES
  device,            \* "absent", "listed" in ctx->usb_devs, "gone"
  refcnt,            \* references to the device, 0 once it is destroyed
  monitor,           \* the message the monitor thread is about to queue
  hotplug_msgs,      \* ctx->hotplug_msgs
  event_flags,       \* those of ctx->event_flags that concern hotplug
  signalled,         \* the event pipe
  hotplug_cbs,       \* ctx->hotplug_cbs, the newest first: list_add puts it at the head
  next_handle,       \* ctx->next_hotplug_cb_handle
  handle,            \* that of each callback
  needs_free,        \* the callbacks with USBI_HOTPLUG_NEEDS_FREE
  freed,
  handler_at, batch, hotplug_cb, next_cb,   \* usbi_hotplug_process
  registering, devs, uncalled,              \* libusb_hotplug_register_callback
  deregistering,     \* the threads between marking a callback and raising the flag
  arrived, departed  \* what each callback was told

deviceVars == <<device, refcnt, monitor>>
eventPipeVars == <<hotplug_msgs, event_flags, signalled>>
callbackVars == <<hotplug_cbs, next_handle, handle, needs_free, freed>>
handlerVars == <<handler_at, batch, hotplug_cb, next_cb>>
registerVars == <<registering, devs, uncalled>>
toldVars == <<arrived, departed>>
hotplugVars == <<deviceVars, eventPipeVars, callbackVars, handlerVars, registerVars,
                 deregistering, toldVars>>

HotplugInit ==
  /\ device \in [HotplugDevice -> {"absent", "listed"}]
  /\ refcnt = [d \in HotplugDevice |-> IF device[d] = "listed" THEN 1 ELSE 0]
  /\ monitor = NoMessage
  /\ hotplug_msgs = <<>> /\ event_flags = {} /\ signalled = FALSE
  /\ hotplug_cbs = {} /\ needs_free = {} /\ freed = {}
  /\ next_handle = 1 /\ handle = [c \in HotplugCallback |-> 0]
  /\ handler_at = "poll" /\ batch = <<>> /\ hotplug_cb = NoCallback /\ next_cb = NoCallback
  /\ registering = NoCallback /\ devs = {} /\ uncalled = {} /\ deregistering = {}
  /\ arrived = [c \in HotplugCallback |-> {}] /\ departed = [c \in HotplugCallback |-> {}]

RaiseEventTooLate(flag) ==
  /\ event_flags' = event_flags \cup {flag}
  /\ signalled' = (signalled \/ event_flags' = {})

\* Only the first flag signals the event: the handler clears all of them at once.
RaiseEvent(flag) ==
  /\ event_flags' = event_flags \cup {flag}
  /\ signalled' = (signalled \/ event_flags = {})

-----------------------------------------------------------------------------
\* The monitor thread, under linux_hotplug_lock.
ConnectDevice(d) ==
  /\ monitor = NoMessage /\ device[d] = "absent"
  /\ device' = [device EXCEPT ![d] = "listed"]
  /\ refcnt' = [refcnt EXCEPT ![d] = 1]
  /\ monitor' = [event |-> "ARRIVED", device |-> d]
  /\ UNCHANGED <<eventPipeVars, callbackVars, handlerVars, registerVars, deregistering, toldVars>>

\* The reference the device was born with passes to the message.
DisconnectDevice(d) ==
  /\ monitor = NoMessage /\ device[d] = "listed"
  /\ device' = [device EXCEPT ![d] = "gone"]
  /\ monitor' = [event |-> "LEFT", device |-> d]
  /\ UNCHANGED <<refcnt, eventPipeVars, callbackVars, handlerVars, registerVars, deregistering,
                 toldVars>>

HotplugNotification ==
  /\ monitor # NoMessage
  /\ hotplug_msgs' = Append(hotplug_msgs, monitor)
  /\ RaiseEvent("HOTPLUG_MSG_PENDING")
  /\ monitor' = NoMessage
  /\ UNCHANGED <<device, refcnt, callbackVars, handlerVars, registerVars, deregistering, toldVars>>

-----------------------------------------------------------------------------
\* hotplug_cbs_lock is the handler's while it dispatches, except during the calls.
HotplugLockFree == handler_at # "dispatch"

\* The newest of some callbacks, by their handles. (These start again at 1 after 2^31
\* registrations, which is left out.)
NewestOf(cbs) ==
  IF cbs = {} THEN {NoCallback} ELSE {c \in cbs : \A o \in cbs : handle[o] <= handle[c]}

FirstCallback == NewestOf(hotplug_cbs)
CallbackAfter(c) == NewestOf({o \in hotplug_cbs : handle[o] < handle[c]})

HandleEventTrigger ==
  /\ handler_at = "poll" /\ signalled
  /\ batch' = hotplug_msgs /\ hotplug_msgs' = <<>>
  /\ event_flags' = {} /\ signalled' = FALSE
  /\ handler_at' = "process"
  /\ UNCHANGED <<deviceVars, callbackVars, hotplug_cb, next_cb, registerVars, deregistering, toldVars>>

HotplugProcess ==
  /\ handler_at = "process"
  /\ handler_at' = "dispatch" /\ next_cb' \in FirstCallback
  /\ UNCHANGED <<deviceVars, eventPipeVars, callbackVars, batch, hotplug_cb, registerVars,
                 deregistering, toldVars>>

SkipCallback ==
  /\ handler_at = "dispatch" /\ batch # <<>> /\ next_cb \in needs_free
  /\ next_cb' \in CallbackAfter(next_cb)
  /\ UNCHANGED <<deviceVars, eventPipeVars, callbackVars, handler_at, batch, hotplug_cb,
                 registerVars, deregistering, toldVars>>

\* The callback to call and the one after it are fixed, and the lock is dropped.
CallCallback ==
  /\ handler_at = "dispatch" /\ batch # <<>>
  /\ next_cb # NoCallback /\ next_cb \notin needs_free
  /\ handler_at' = "calling"
  /\ hotplug_cb' = next_cb /\ next_cb' \in CallbackAfter(next_cb)
  /\ UNCHANGED <<deviceVars, eventPipeVars, callbackVars, batch, registerVars, deregistering,
                 toldVars>>

Tell(c, message) ==
  /\ arrived' = IF message.event = "ARRIVED"
                THEN [arrived EXCEPT ![c] = @ \cup {message.device}] ELSE arrived
  /\ departed' = IF message.event = "LEFT"
                 THEN [departed EXCEPT ![c] = @ \cup {message.device}] ELSE departed

\* r is what the callback returns.
CallbackReturned(r) ==
  /\ handler_at = "calling" /\ "handler" \notin deregistering
  /\ Tell(hotplug_cb, Head(batch))
  /\ handler_at' = "dispatch"
  /\ IF r = 0
     THEN UNCHANGED callbackVars
     ELSE /\ hotplug_cb \in OneShot
          /\ hotplug_cbs' = hotplug_cbs \ {hotplug_cb}
          /\ freed' = freed \cup {hotplug_cb} /\ needs_free' = needs_free \ {hotplug_cb}
          /\ UNCHANGED <<next_handle, handle>>
  /\ hotplug_cb' = NoCallback
  /\ UNCHANGED <<deviceVars, eventPipeVars, batch, next_cb, registerVars, deregistering>>

MessageDone ==
  /\ handler_at = "dispatch" /\ batch # <<>> /\ next_cb = NoCallback
  /\ refcnt' = IF Head(batch).event = "LEFT"
               THEN [refcnt EXCEPT ![Head(batch).device] = @ - 1] ELSE refcnt
  /\ batch' = Tail(batch) /\ next_cb' \in FirstCallback
  /\ UNCHANGED <<device, monitor, eventPipeVars, callbackVars, handler_at, hotplug_cb,
                 registerVars, deregistering, toldVars>>

FreeDeregistered ==
  /\ handler_at = "dispatch" /\ batch = <<>>
  /\ hotplug_cbs' = hotplug_cbs \ needs_free
  /\ freed' = freed \cup needs_free /\ needs_free' = {}
  /\ handler_at' = "poll" /\ next_cb' = NoCallback
  /\ UNCHANGED <<deviceVars, eventPipeVars, next_handle, handle, batch, hotplug_cb, registerVars,
                 deregistering, toldVars>>

-----------------------------------------------------------------------------
\* libusb_hotplug_register_callback: into the list first, then the devices there are.
RegisterCallback(c) ==
  /\ registering = NoCallback /\ "user" \notin deregistering /\ HotplugLockFree
  /\ c \notin hotplug_cbs \cup freed
  /\ hotplug_cbs' = hotplug_cbs \cup {c}
  /\ handle' = [handle EXCEPT ![c] = next_handle] /\ next_handle' = next_handle + 1
  /\ registering' = IF c \in Enumerating THEN c ELSE NoCallback
  /\ UNCHANGED <<deviceVars, eventPipeVars, needs_free, freed, handlerVars, devs, uncalled,
                 deregistering, toldVars>>

ListedAndAnnounced ==
  {d \in HotplugDevice :
     device[d] = "listed" /\ [event |-> "ARRIVED", device |-> d] \notin ToSet(hotplug_msgs \o batch)}

Listed == {d \in HotplugDevice : device[d] = "listed"}

\* libusb_get_device_list takes a reference to each device.
GetDeviceList ==
  /\ registering # NoCallback /\ devs = {}
  /\ devs' = Listed /\ uncalled' = Listed
  /\ refcnt' = [d \in HotplugDevice |-> IF d \in Listed THEN refcnt[d] + 1 ELSE refcnt[d]]
  /\ registering' = IF Listed = {} THEN NoCallback ELSE registering
  /\ UNCHANGED <<device, monitor, eventPipeVars, callbackVars, handlerVars, deregistering, toldVars>>

EnumerateDevice(d) ==
  /\ d \in uncalled
  /\ Tell(registering, [event |-> "ARRIVED", device |-> d])
  /\ uncalled' = uncalled \ {d}
  /\ UNCHANGED <<deviceVars, eventPipeVars, callbackVars, handlerVars, registering, devs,
                 deregistering>>

FreeDeviceList ==
  /\ devs # {} /\ uncalled = {}
  /\ refcnt' = [d \in HotplugDevice |-> IF d \in devs THEN refcnt[d] - 1 ELSE refcnt[d]]
  /\ devs' = {} /\ registering' = NoCallback
  /\ UNCHANGED <<device, monitor, eventPipeVars, callbackVars, handlerVars, uncalled, deregistering,
                 toldVars>>

MarkAndFree(th, c) ==
  /\ HotplugLockFree /\ th \notin deregistering
  /\ c \in hotplug_cbs
  /\ hotplug_cbs' = hotplug_cbs \ {c} /\ freed' = freed \cup {c}
  /\ deregistering' = deregistering \cup {th}
  /\ UNCHANGED <<deviceVars, eventPipeVars, next_handle, handle, needs_free, handlerVars, devs,
                 uncalled, toldVars>>

\* libusb_hotplug_deregister_callback only marks the callback, for the handler to free.
MarkCallback(th, c) ==
  /\ HotplugLockFree /\ th \notin deregistering
  /\ c \in hotplug_cbs \ needs_free
  /\ needs_free' = needs_free \cup {c}
  /\ deregistering' = deregistering \cup {th}
  /\ UNCHANGED <<deviceVars, eventPipeVars, hotplug_cbs, next_handle, handle, freed, handlerVars,
                 devs, uncalled, toldVars>>

DeregisterCallback(th, c) ==
  /\ th = "user" => registering = NoCallback
  /\ th = "handler" => handler_at = "calling" /\ c # registering
  /\ MarkCallback(th, c) /\ UNCHANGED registering

\* The device list could not be allocated.
EnumerationFails ==
  /\ registering # NoCallback /\ devs = {}
  /\ MarkCallback("user", registering) /\ registering' = NoCallback

CallbackDeregistered(th) ==
  /\ th \in deregistering
  /\ RaiseEvent("HOTPLUG_CB_DEREGISTERED")
  /\ deregistering' = deregistering \ {th}
  /\ UNCHANGED <<deviceVars, hotplug_msgs, callbackVars, handlerVars, registerVars, toldVars>>

-----------------------------------------------------------------------------
HandlerStep ==
  \/ HandleEventTrigger \/ HotplugProcess \/ SkipCallback \/ CallCallback
  \/ \E r \in {0, 1} : CallbackReturned(r)
  \/ MessageDone \/ FreeDeregistered
  \/ CallbackDeregistered("handler")

UserStep ==
  \/ GetDeviceList
  \/ \E d \in HotplugDevice : EnumerateDevice(d)
  \/ FreeDeviceList
  \/ EnumerationFails
  \/ CallbackDeregistered("user")

MonitorStep ==
  \/ \E d \in HotplugDevice : ConnectDevice(d) \/ DisconnectDevice(d)
  \/ HotplugNotification

HotplugNext ==
  \/ HandlerStep \/ UserStep \/ MonitorStep
  \/ \E c \in HotplugCallback : RegisterCallback(c)
  \/ \E c \in HotplugCallback, th \in {"user", "handler"} : DeregisterCallback(th, c)

HotplugSpec == HotplugInit /\ [][HotplugNext]_hotplugVars

\* Every device has left and every callback been freed.
HotplugOver ==
  /\ handler_at = "poll" /\ ~signalled /\ freed = HotplugCallback
  /\ monitor = NoMessage /\ \A d \in HotplugDevice : device[d] = "gone"

HotplugTypeOK ==
  /\ device \in [HotplugDevice -> {"absent", "listed", "gone"}]
  /\ refcnt \in [HotplugDevice -> Nat]
  /\ monitor \in Message \cup {NoMessage}
  /\ hotplug_msgs \in Seq(Message) /\ batch \in Seq(Message)
  /\ event_flags \subseteq {"HOTPLUG_MSG_PENDING", "HOTPLUG_CB_DEREGISTERED"}
  /\ signalled = (event_flags # {})
  /\ hotplug_cbs \subseteq HotplugCallback /\ needs_free \subseteq hotplug_cbs
  /\ freed \subseteq HotplugCallback \ hotplug_cbs
  /\ next_handle \in Nat /\ handle \in [HotplugCallback -> Nat]
  /\ handler_at \in {"poll", "process", "dispatch", "calling"}
  /\ {hotplug_cb, next_cb, registering} \subseteq HotplugCallback \cup {NoCallback}
  /\ uncalled \subseteq devs /\ devs \subseteq HotplugDevice
  /\ deregistering \subseteq {"user", "handler"}
  /\ arrived \in [HotplugCallback -> SUBSET HotplugDevice]
  /\ departed \in [HotplugCallback -> SUBSET HotplugDevice]

-----------------------------------------------------------------------------
PendingMessages == ({monitor} \ {NoMessage}) \cup ToSet(hotplug_msgs) \cup ToSet(batch)
MessagePending(event, d) == [event |-> event, device |-> d] \in PendingMessages

\* A callback misses nothing: with LIBUSB_HOTPLUG_ENUMERATE it has been told of every
\* device in the list whose message has been dispatched, whatever came between its
\* registration and its enumeration; and of a device it was told of, that it left.
EventsReported ==
  \A c \in hotplug_cbs \ (needs_free \cup {registering}), d \in HotplugDevice :
    /\ c \in Enumerating /\ device[d] = "listed" /\ ~MessagePending("ARRIVED", d)
         => d \in arrived[c]
    /\ device[d] = "gone" /\ d \in arrived[c] /\ ~MessagePending("LEFT", d)
         => d \in departed[c]

\* Nothing is freed while it is in use: the devices of queued messages, those being
\* enumerated, and the callbacks usbi_hotplug_process and the registration hold on to
\* without the lock.
NothingFreedInUse ==
  /\ \A m \in PendingMessages : refcnt[m.device] > 0
  /\ \A d \in devs : refcnt[d] > 0
  /\ {hotplug_cb, next_cb, registering} \cap freed = {}

\* A deregistered callback is freed in the end, by a handler that the flag woke.
DeregisteredFreed ==
  \A c \in HotplugCallback : c \in needs_free ~> c \in freed
=============================================================================
