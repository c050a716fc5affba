-------------------------- MODULE UsbHotplugProofs --------------------------
(***************************************************************************)
(* Proofs about UsbHotplug, for any devices and any callbacks: what        *)
(* usbi_hotplug_process, the registration and the queued messages hold on  *)
(* to outside of the lock is not freed, and a callback misses nothing.     *)
(*                                                                         *)
(* Both rest on the order of the messages: a device has one that it        *)
(* arrived and then one that it left, wherever in the queues these are. A  *)
(* departure is therefore still to be dispatched when its arrival is, and  *)
(* the reference that the message holds is the last one of the list.       *)
(***************************************************************************)
EXTENDS UsbHotplug, TLAPS

\* Of two messages about a device the first says that it arrived, the second that it left.
Precedes(m, n) == m.device = n.device => m.event = "ARRIVED" /\ n.event = "LEFT"
InOrder(q) == \A i, j \in DOMAIN q : i < j => Precedes(q[i], q[j])

MessageOrder ==
  /\ InOrder(batch) /\ InOrder(hotplug_msgs)
  /\ \A m \in ToSet(batch), n \in ToSet(hotplug_msgs) : Precedes(m, n)
  /\ monitor # NoMessage =>
       \A m \in ToSet(batch) \cup ToSet(hotplug_msgs) : Precedes(m, monitor)

\* A message that a device arrived is followed by one that it left, once it has.
MessagesTell ==
  \A m \in PendingMessages :
    /\ device[m.device] # "absent"
    /\ m.event = "ARRIVED" => device[m.device] = "listed" \/ MessagePending("LEFT", m.device)
    /\ m.event = "LEFT" => device[m.device] = "gone"

\* The device list holds a reference, which passes to the message that the device left;
\* so does the array of libusb_get_device_list.
ListReference(d) == IF device[d] = "listed" \/ MessagePending("LEFT", d) THEN 1 ELSE 0
DevsReference(d) == IF d \in devs THEN 1 ELSE 0
ReferencesHeld ==
  \A d \in HotplugDevice :
    /\ refcnt[d] = ListReference(d) + DevsReference(d)
    /\ d \in devs => device[d] # "absent"

\* Handles tell the callbacks apart.
HandlesDiffer ==
  /\ \A c \in hotplug_cbs : handle[c] < next_handle
  /\ \A c, o \in hotplug_cbs : handle[c] = handle[o] => c = o

\* What usbi_hotplug_process holds on to is in the list; the next callback is older
\* than the one that is called.
HandlerHolds ==
  /\ handler_at = "poll" => batch = <<>>
  /\ handler_at \in {"poll", "process"} => next_cb = NoCallback
  /\ IF handler_at = "calling"
     THEN /\ batch # <<>> /\ hotplug_cb \in hotplug_cbs
          /\ next_cb # NoCallback => handle[next_cb] < handle[hotplug_cb]
     ELSE hotplug_cb = NoCallback
  /\ next_cb # NoCallback => next_cb \in hotplug_cbs

\* Nobody deregisters a callback while its registration is going on.
RegistrationHolds ==
  /\ registering # NoCallback => registering \in (hotplug_cbs \ needs_free) \cap Enumerating
  /\ registering = NoCallback => devs = {}
  /\ \A c \in HotplugCallback \ (hotplug_cbs \cup freed) : arrived[c] = {}

\* The dispatch of the first message has yet to come to the callback.
StillToCall(c) ==
  \/ handler_at = "process"
  \/ handler_at = "calling" /\ c = hotplug_cb
  \/ next_cb # NoCallback /\ handle[c] <= handle[next_cb]

Awaits(c, m) ==
  \/ m = monitor \/ m \in ToSet(hotplug_msgs)
  \/ \E i \in DOMAIN batch : batch[i] = m /\ (i > 1 \/ StillToCall(c))

\* A callback was told, or will be, by the handler or by its registration.
ArrivalsTold ==
  \A c \in hotplug_cbs \ needs_free, d \in HotplugDevice :
    c \in Enumerating /\ device[d] = "listed" =>
      \/ d \in arrived[c]
      \/ Awaits(c, [event |-> "ARRIVED", device |-> d])
      \/ registering = c /\ (devs = {} \/ d \in uncalled)

DeparturesTold ==
  \A c \in hotplug_cbs \ needs_free, d \in HotplugDevice :
    /\ device[d] = "gone"
    /\ d \in arrived[c] \/ (registering = c /\ d \in uncalled)
    => d \in departed[c] \/ Awaits(c, [event |-> "LEFT", device |-> d])

HotplugInv ==
  /\ HotplugTypeOK
  /\ MessageOrder /\ MessagesTell /\ ReferencesHeld
  /\ HandlesDiffer /\ HandlerHolds /\ RegistrationHolds
  /\ ArrivalsTold /\ DeparturesTold

-----------------------------------------------------------------------------

\* What Append does.
LEMMA AppendFacts ==
  ASSUME NEW S, NEW q \in Seq(S), NEW e \in S
  PROVE  /\ Append(q, e) \in Seq(S)
         /\ Len(Append(q, e)) = Len(q) + 1 /\ DOMAIN Append(q, e) = 1 .. Len(q) + 1
         /\ \A i \in DOMAIN q : Append(q, e)[i] = q[i]
         /\ Append(q, e)[Len(q) + 1] = e
         /\ ToSet(Append(q, e)) = ToSet(q) \cup {e}
<1>1. /\ Append(q, e) \in Seq(S)
      /\ Len(Append(q, e)) = Len(q) + 1 /\ DOMAIN Append(q, e) = 1 .. Len(q) + 1
      /\ \A i \in DOMAIN q : Append(q, e)[i] = q[i]
      /\ Append(q, e)[Len(q) + 1] = e
  OBVIOUS
<1>2. DOMAIN q = 1 .. Len(q) /\ Len(q) \in Nat
  OBVIOUS
<1>3. DOMAIN Append(q, e) = DOMAIN q \cup {Len(q) + 1}
  BY <1>1, <1>2
<1>4. ToSet(Append(q, e)) = ToSet(q) \cup {e}
  BY <1>1, <1>3 DEF ToSet
<1> QED
  BY <1>1, <1>4

\* What Tail does.
LEMMA TailFacts ==
  ASSUME NEW S, NEW q \in Seq(S), q # <<>>
  PROVE  /\ Tail(q) \in Seq(S) /\ Head(q) = q[1] /\ Head(q) \in S /\ 1 \in DOMAIN q
         /\ \A i \in DOMAIN Tail(q) : i \in Nat \ {0} /\ i + 1 \in DOMAIN q /\ Tail(q)[i] = q[i + 1]
         /\ \A i \in DOMAIN q : i > 1 => i - 1 \in DOMAIN Tail(q) /\ Tail(q)[i - 1] = q[i]
         /\ ToSet(q) = ToSet(Tail(q)) \cup {Head(q)}
<1>1. Len(q) \in Nat \ {0} /\ DOMAIN q = 1 .. Len(q) /\ \A i \in DOMAIN q : q[i] \in S
  OBVIOUS
<1>2. Tail(q) \in Seq(S) /\ Len(Tail(q)) = Len(q) - 1
  OBVIOUS
<1>3. \A i \in 1 .. Len(q) - 1 : Tail(q)[i] = q[i + 1]
  OBVIOUS
<1>4. DOMAIN Tail(q) = 1 .. Len(q) - 1
  BY <1>1, <1>2
<1>5. Head(q) = q[1] /\ Head(q) \in S /\ 1 \in DOMAIN q
  BY <1>1
<1>6. \A i \in DOMAIN Tail(q) :
        i \in Nat \ {0} /\ i + 1 \in DOMAIN q /\ Tail(q)[i] = q[i + 1]
  BY <1>1, <1>3, <1>4
<1>7. \A i \in DOMAIN q : i > 1 => i - 1 \in DOMAIN Tail(q) /\ Tail(q)[i - 1] = q[i]
  <2> SUFFICES ASSUME NEW i \in DOMAIN q, i > 1
               PROVE  i - 1 \in DOMAIN Tail(q) /\ Tail(q)[i - 1] = q[i]
    OBVIOUS
  <2>1. i - 1 \in 1 .. Len(q) - 1 /\ (i - 1) + 1 = i
    BY <1>1
  <2> QED
    BY <2>1, <1>3, <1>4
<1>8. ToSet(q) = ToSet(Tail(q)) \cup {Head(q)}
  <2>1. ASSUME NEW i \in DOMAIN q PROVE q[i] \in ToSet(Tail(q)) \cup {Head(q)}
    <3>1. CASE i = 1
      BY <3>1, <1>5
    <3>2. CASE i > 1
      <4>1. i - 1 \in DOMAIN Tail(q) /\ Tail(q)[i - 1] = q[i]
        BY <3>2, <1>7
      <4> QED
        BY <4>1 DEF ToSet
    <3> QED
      BY <1>1, <3>1, <3>2
  <2>2. ToSet(q) \subseteq ToSet(Tail(q)) \cup {Head(q)}
    BY <2>1 DEF ToSet
  <2>3. ToSet(Tail(q)) \subseteq ToSet(q)
    BY <1>6 DEF ToSet
  <2>4. Head(q) \in ToSet(q)
    BY <1>5 DEF ToSet
  <2> QED
    BY <2>2, <2>3, <2>4
<1> QED
  BY <1>2, <1>5, <1>6, <1>7, <1>8

\* The newest of some callbacks is one of them.
LEMMA NewestFacts ==
  ASSUME NEW cbs \in SUBSET HotplugCallback, NEW c \in NewestOf(cbs)
  PROVE  /\ c = NoCallback <=> cbs = {}
         /\ c # NoCallback => c \in cbs /\ \A o \in cbs : handle[o] <= handle[c]
BY NoCallbackAssumption DEF NewestOf

\* The actions that change the devices or the queues of messages.
LEMMA QueuesMove ==
  ASSUME [HotplugNext]_hotplugVars
  PROVE  \/ UNCHANGED <<device, monitor, hotplug_msgs, batch>> \/ HandleEventTrigger
         \/ HotplugNotification \/ MessageDone
         \/ \E d \in HotplugDevice : ConnectDevice(d) \/ DisconnectDevice(d)
BY DEF HotplugNext, HandlerStep, UserStep, MonitorStep, hotplugVars, deviceVars, eventPipeVars,
       handlerVars, HotplugProcess, SkipCallback, CallCallback, CallbackReturned,
       FreeDeregistered, CallbackDeregistered, GetDeviceList, EnumerateDevice, FreeDeviceList,
       EnumerationFails, MarkCallback, RegisterCallback, DeregisterCallback

\* A message that comes after all of a queue may be appended.
LEMMA OrderedAppend ==
  ASSUME NEW q \in Seq(Message), NEW e \in Message, InOrder(q),
         \A m \in ToSet(q) : Precedes(m, e)
  PROVE  InOrder(Append(q, e))
<1> DEFINE a == Append(q, e)
<1>1. SUFFICES ASSUME NEW i \in DOMAIN a, NEW j \in DOMAIN a, i < j PROVE Precedes(a[i], a[j])
  BY DEF InOrder
<1>2. DOMAIN a = 1 .. Len(q) + 1 /\ DOMAIN q = 1 .. Len(q) /\ Len(q) \in Nat
  BY AppendFacts
<1>3. i \in DOMAIN q /\ a[i] = q[i]
  <2>1. i \in DOMAIN q
    BY <1>1, <1>2
  <2> QED
    BY <2>1, AppendFacts
<1>4. CASE j \in DOMAIN q
  <2>1. a[j] = q[j]
    BY <1>4, AppendFacts
  <2> QED
    BY <1>1, <1>3, <1>4, <2>1 DEF InOrder
<1>5. CASE j = Len(q) + 1
  <2>1. a[j] = e
    BY <1>5, AppendFacts
  <2>2. a[i] \in ToSet(q)
    BY <1>3 DEF ToSet
  <2> QED
    BY <2>1, <2>2
<1> QED
  BY <1>2, <1>4, <1>5

\* What is left of an ordered queue is ordered, and comes after what was taken.
LEMMA OrderedTail ==
  ASSUME NEW q \in Seq(Message), InOrder(q), q # <<>>
  PROVE  InOrder(Tail(q)) /\ \A n \in ToSet(Tail(q)) : Precedes(Head(q), n)
<1>1. ASSUME NEW i \in DOMAIN Tail(q)
      PROVE  i \in Nat \ {0} /\ i + 1 \in DOMAIN q /\ Tail(q)[i] = q[i + 1]
  BY TailFacts
<1>2. ASSUME NEW i \in DOMAIN Tail(q), NEW j \in DOMAIN Tail(q), i < j
      PROVE  Precedes(Tail(q)[i], Tail(q)[j])
  <2>1. i + 1 < j + 1
    BY <1>1, <1>2
  <2> QED
    BY <1>1, <2>1 DEF InOrder
<1>3. ASSUME NEW i \in DOMAIN Tail(q) PROVE Precedes(Head(q), Tail(q)[i])
  <2>1. Head(q) = q[1] /\ 1 \in DOMAIN q
    BY TailFacts
  <2>2. 1 < i + 1
    BY <1>1
  <2> QED
    BY <1>1, <2>1, <2>2 DEF InOrder
<1> QED
  BY <1>2, <1>3 DEF InOrder, ToSet

\* A queue moves on, and what is in it with it.
LEMMA MessagesStay ==
  ASSUME HotplugInv,
         HandleEventTrigger \/ HotplugNotification \/ UNCHANGED <<monitor, hotplug_msgs, batch>>
  PROVE  PendingMessages' = PendingMessages
<1>1. CASE HandleEventTrigger
  <2>1. batch = <<>>
    BY <1>1 DEF HotplugInv, HandlerHolds, HandleEventTrigger
  <2>2. batch' = hotplug_msgs /\ hotplug_msgs' = batch /\ monitor' = monitor
    BY <1>1, <2>1 DEF HandleEventTrigger, deviceVars
  <2> QED
    BY <2>2 DEF PendingMessages
<1>2. CASE HotplugNotification
  <2>1. monitor \in Message /\ hotplug_msgs \in Seq(Message)
    BY <1>2 DEF HotplugInv, HotplugTypeOK, HotplugNotification
  <2>2. ToSet(hotplug_msgs') = ToSet(hotplug_msgs) \cup {monitor}
    BY <1>2, <2>1, AppendFacts DEF HotplugNotification
  <2> QED
    BY <1>2, <2>2 DEF PendingMessages, HotplugNotification, handlerVars
<1>3. CASE UNCHANGED <<monitor, hotplug_msgs, batch>>
  BY <1>3 DEF PendingMessages
<1> QED
  BY <1>1, <1>2, <1>3

\* The first message is dispatched; no other is the same.
LEMMA MessageGoes ==
  ASSUME HotplugInv, MessageDone
  PROVE  /\ Head(batch) \in PendingMessages /\ Head(batch) \in Message
         /\ PendingMessages' = PendingMessages \ {Head(batch)}
         /\ \A n \in PendingMessages' : Precedes(Head(batch), n)
<1> USE DEF HotplugInv, HotplugTypeOK, MessageOrder
<1>1. batch \in Seq(Message) /\ batch # <<>>
  BY DEF MessageDone
<1>2. /\ Head(batch) \in Message
      /\ ToSet(batch) = ToSet(Tail(batch)) \cup {Head(batch)}
      /\ \A n \in ToSet(Tail(batch)) : Precedes(Head(batch), n)
  BY <1>1, TailFacts, OrderedTail
<1>3. PendingMessages' =
        ({monitor} \ {NoMessage}) \cup ToSet(hotplug_msgs) \cup ToSet(Tail(batch))
  BY DEF MessageDone, PendingMessages, eventPipeVars
<1>4. \A n \in PendingMessages' : Precedes(Head(batch), n)
  BY <1>2, <1>3
<1>5. ~Precedes(Head(batch), Head(batch))
  BY DEF Precedes
<1> QED
  BY <1>2, <1>3, <1>4, <1>5 DEF PendingMessages

\* The monitor thread has a message for each change of a device.
LEMMA MessageComes ==
  ASSUME HotplugInv, NEW d \in HotplugDevice, ConnectDevice(d) \/ DisconnectDevice(d)
  PROVE  /\ PendingMessages' = PendingMessages \cup {monitor'}
         /\ monitor' \in Message /\ monitor'.device = d
         /\ \A m \in PendingMessages : Precedes(m, monitor')
<1>1. /\ monitor = NoMessage /\ hotplug_msgs' = hotplug_msgs /\ batch' = batch
      /\ monitor' = [event |-> "ARRIVED", device |-> d]
           \/ monitor' = [event |-> "LEFT", device |-> d]
  BY DEF ConnectDevice, DisconnectDevice, eventPipeVars, handlerVars
<1>2. monitor' \in Message /\ monitor' # NoMessage /\ monitor'.device = d
  BY <1>1 DEF Message, NoMessage
<1>3. PendingMessages' = PendingMessages \cup {monitor'}
  BY <1>1, <1>2 DEF PendingMessages
<1>4. ASSUME NEW m \in PendingMessages PROVE Precedes(m, monitor')
  <2>1. m \in Message
    BY DEF HotplugInv, HotplugTypeOK, PendingMessages, ToSet
  <2>2. SUFFICES ASSUME m.device = d PROVE m.event = "ARRIVED" /\ monitor'.event = "LEFT"
    BY <1>2 DEF Precedes
  <2>3. device[d] # "absent"
    BY <2>2 DEF HotplugInv, MessagesTell
  <2>4. DisconnectDevice(d)
    BY <2>3 DEF ConnectDevice
  <2>5. monitor'.event = "LEFT" /\ device[d] = "listed"
    BY <2>4 DEF DisconnectDevice
  <2> QED
    BY <2>1, <2>2, <2>5 DEF HotplugInv, MessagesTell, Message
<1> QED
  BY <1>2, <1>3, <1>4

\* The monitor thread and the handler keep the order.
LEMMA MessageOrderStep == ASSUME HotplugInv, [HotplugNext]_hotplugVars PROVE MessageOrder'
<1> USE DEF hotplugVars, deviceVars, eventPipeVars, callbackVars, handlerVars, registerVars,
     toldVars
<1>1. MessageOrder /\ hotplug_msgs \in Seq(Message) /\ batch \in Seq(Message)
  BY DEF HotplugInv, HotplugTypeOK
<1>2. CASE HandleEventTrigger
  <2>1. /\ batch' = hotplug_msgs /\ hotplug_msgs' = <<>> /\ monitor' = monitor
        /\ ToSet(<<>>) = {} /\ InOrder(<<>>)
    BY <1>2 DEF HandleEventTrigger, ToSet, InOrder
  <2> QED
    BY <1>1, <2>1 DEF MessageOrder
<1>3. CASE HotplugNotification
  <2>1. monitor \in Message /\ hotplug_msgs' = Append(hotplug_msgs, monitor)
    BY <1>3 DEF HotplugInv, HotplugTypeOK, HotplugNotification
  <2>2. monitor' = NoMessage /\ batch' = batch /\ monitor # NoMessage
    BY <1>3 DEF HotplugNotification
  <2>3. ToSet(hotplug_msgs') = ToSet(hotplug_msgs) \cup {monitor}
    BY <1>1, <2>1, AppendFacts
  <2>4. InOrder(hotplug_msgs')
    BY <1>1, <2>1, <2>2, OrderedAppend DEF MessageOrder
  <2> QED
    BY <1>1, <2>2, <2>3, <2>4 DEF MessageOrder
<1>4. ASSUME NEW d \in HotplugDevice, ConnectDevice(d) \/ DisconnectDevice(d) PROVE MessageOrder'
  <2>1. hotplug_msgs' = hotplug_msgs /\ batch' = batch
    BY <1>4 DEF ConnectDevice, DisconnectDevice
  <2>2. \A m \in PendingMessages : Precedes(m, monitor')
    BY <1>4, MessageComes
  <2> QED
    BY <1>1, <2>1, <2>2 DEF MessageOrder, PendingMessages
<1>5. CASE MessageDone
  <2>1. hotplug_msgs' = hotplug_msgs /\ batch' = Tail(batch) /\ monitor' = monitor /\ batch # <<>>
    BY <1>5 DEF MessageDone
  <2>2. InOrder(batch') /\ ToSet(batch') \subseteq ToSet(batch)
    BY <1>1, <2>1, OrderedTail, TailFacts DEF MessageOrder
  <2> QED
    BY <1>1, <2>1, <2>2 DEF MessageOrder
<1>6. CASE UNCHANGED <<monitor, hotplug_msgs, batch>>
  BY <1>1, <1>6 DEF MessageOrder
<1>7. \/ UNCHANGED <<monitor, hotplug_msgs, batch>> \/ HandleEventTrigger \/ HotplugNotification
      \/ MessageDone \/ \E d \in HotplugDevice : ConnectDevice(d) \/ DisconnectDevice(d)
  BY QueuesMove
<1> QED
  BY <1>2, <1>3, <1>4, <1>5, <1>6, <1>7

\* Types, and that no reference is dropped that nobody has.
LEMMA TypesStep == ASSUME HotplugInv, [HotplugNext]_hotplugVars PROVE HotplugTypeOK'
<1> USE DEF hotplugVars, deviceVars, eventPipeVars, callbackVars, handlerVars, registerVars,
     toldVars, HotplugInv, HotplugTypeOK
<1>1. CASE HandleEventTrigger
  <2>1. device' \in [HotplugDevice -> {"absent", "listed", "gone"}]
    BY <1>1 DEF HandleEventTrigger
  <2>2. refcnt' \in [HotplugDevice -> Nat]
    BY <1>1 DEF HandleEventTrigger
  <2>3. monitor' \in Message \cup {NoMessage}
    BY <1>1 DEF HandleEventTrigger, Message, NoMessage
  <2>4. hotplug_msgs' \in Seq(Message) /\ batch' \in Seq(Message)
    BY <1>1 DEF HandleEventTrigger
  <2>5. event_flags' \subseteq {"HOTPLUG_MSG_PENDING", "HOTPLUG_CB_DEREGISTERED"} /\
       signalled' = (event_flags' # {})
    BY <1>1 DEF HandleEventTrigger
  <2>6. hotplug_cbs' \subseteq HotplugCallback /\ needs_free' \subseteq hotplug_cbs' /\ freed'
       \subseteq HotplugCallback \ hotplug_cbs'
    BY <1>1 DEF HandleEventTrigger
  <2>7. next_handle' \in Nat /\ handle' \in [HotplugCallback -> Nat]
    BY <1>1 DEF HandleEventTrigger
  <2>8. handler_at' \in {"poll", "process", "dispatch", "calling"} /\ {hotplug_cb', next_cb',
       registering'} \subseteq HotplugCallback \cup {NoCallback}
    BY <1>1 DEF HandleEventTrigger, NewestOf, FirstCallback, CallbackAfter
  <2>9. uncalled' \subseteq devs' /\ devs' \subseteq HotplugDevice /\ deregistering' \subseteq
       {"user", "handler"}
    BY <1>1 DEF HandleEventTrigger
  <2>10. arrived' \in [HotplugCallback -> SUBSET HotplugDevice] /\ departed' \in
       [HotplugCallback -> SUBSET HotplugDevice]
    BY <1>1 DEF HandleEventTrigger
  <2> QED
    BY <2>1, <2>2, <2>3, <2>4, <2>5, <2>6, <2>7, <2>8, <2>9, <2>10 DEF HotplugTypeOK
<1>2. CASE HotplugProcess
  BY <1>2 DEF HotplugProcess, NewestOf, FirstCallback, CallbackAfter, Message
<1>3. CASE SkipCallback
  BY <1>3 DEF SkipCallback, NewestOf, FirstCallback, CallbackAfter, Message
<1>4. CASE CallCallback
  BY <1>4 DEF CallCallback, NewestOf, FirstCallback, CallbackAfter, Message
<1>5. ASSUME NEW r \in {0, 1}, CallbackReturned(r) PROVE HotplugTypeOK'
  <2>1. device' \in [HotplugDevice -> {"absent", "listed", "gone"}]
    BY <1>5 DEF CallbackReturned
  <2>2. refcnt' \in [HotplugDevice -> Nat]
    BY <1>5 DEF CallbackReturned
  <2>3. monitor' \in Message \cup {NoMessage}
    BY <1>5 DEF CallbackReturned, Message, NoMessage
  <2>4. hotplug_msgs' \in Seq(Message) /\ batch' \in Seq(Message)
    BY <1>5 DEF CallbackReturned
  <2>5. event_flags' \subseteq {"HOTPLUG_MSG_PENDING", "HOTPLUG_CB_DEREGISTERED"} /\
       signalled' = (event_flags' # {})
    BY <1>5 DEF CallbackReturned
  <2>6. hotplug_cbs' \subseteq HotplugCallback /\ needs_free' \subseteq hotplug_cbs' /\ freed'
       \subseteq HotplugCallback \ hotplug_cbs'
    BY <1>5, CallbackAssumption DEF CallbackReturned
  <2>7. next_handle' \in Nat /\ handle' \in [HotplugCallback -> Nat]
    BY <1>5 DEF CallbackReturned
  <2>8. handler_at' \in {"poll", "process", "dispatch", "calling"} /\ {hotplug_cb', next_cb',
       registering'} \subseteq HotplugCallback \cup {NoCallback}
    BY <1>5 DEF CallbackReturned, NewestOf, FirstCallback, CallbackAfter
  <2>9. uncalled' \subseteq devs' /\ devs' \subseteq HotplugDevice /\ deregistering' \subseteq
       {"user", "handler"}
    BY <1>5 DEF CallbackReturned
  <2>10. arrived' \in [HotplugCallback -> SUBSET HotplugDevice] /\ departed' \in
       [HotplugCallback -> SUBSET HotplugDevice]
    <3>1. Head(batch) \in Message
      BY <1>5, TailFacts DEF CallbackReturned, HandlerHolds
    <3>2. Head(batch).device \in HotplugDevice
      BY <3>1 DEF Message
    <3> QED
      BY <1>5, <3>1, <3>2 DEF CallbackReturned, Tell
  <2> QED
    BY <2>1, <2>2, <2>3, <2>4, <2>5, <2>6, <2>7, <2>8, <2>9, <2>10 DEF HotplugTypeOK
<1>6. CASE MessageDone
  <2>1. device' \in [HotplugDevice -> {"absent", "listed", "gone"}]
    BY <1>6 DEF MessageDone
  <2>2. refcnt' \in [HotplugDevice -> Nat]
    <3>1. Head(batch) \in Message
      BY <1>6, TailFacts DEF MessageDone
    <3>2. Head(batch).device \in HotplugDevice
      BY <3>1 DEF Message
    <3>3. Head(batch).event = "LEFT" => refcnt[Head(batch).device] \in Nat \ {0}
      <4>1. SUFFICES ASSUME Head(batch).event = "LEFT"
                     PROVE  refcnt[Head(batch).device] \in Nat \ {0}
        OBVIOUS
      <4>2. Head(batch) = [event |-> "LEFT", device |-> Head(batch).device]
        BY <3>1, <4>1 DEF Message
      <4>3. Head(batch) \in PendingMessages
        BY <1>6, TailFacts DEF MessageDone, PendingMessages
      <4>4. ListReference(Head(batch).device) = 1
        BY <4>2, <4>3 DEF MessagePending, ListReference
      <4>5. refcnt[Head(batch).device] = 1 + DevsReference(Head(batch).device)
        BY <4>4, <3>2 DEF ReferencesHeld
      <4> QED
        BY <4>5 DEF DevsReference
    <3> QED
      BY <1>6, <3>2, <3>3 DEF MessageDone
  <2>3. monitor' \in Message \cup {NoMessage}
    BY <1>6 DEF MessageDone, Message, NoMessage
  <2>4. hotplug_msgs' \in Seq(Message) /\ batch' \in Seq(Message)
    <3>1. Tail(batch) \in Seq(Message)
      BY <1>6, TailFacts DEF MessageDone
    <3> QED
      BY <1>6, <3>1 DEF MessageDone
  <2>5. event_flags' \subseteq {"HOTPLUG_MSG_PENDING", "HOTPLUG_CB_DEREGISTERED"} /\
       signalled' = (event_flags' # {})
    BY <1>6 DEF MessageDone
  <2>6. hotplug_cbs' \subseteq HotplugCallback /\ needs_free' \subseteq hotplug_cbs' /\ freed'
       \subseteq HotplugCallback \ hotplug_cbs'
    BY <1>6 DEF MessageDone
  <2>7. next_handle' \in Nat /\ handle' \in [HotplugCallback -> Nat]
    BY <1>6 DEF MessageDone
  <2>8. handler_at' \in {"poll", "process", "dispatch", "calling"} /\ {hotplug_cb', next_cb',
       registering'} \subseteq HotplugCallback \cup {NoCallback}
    BY <1>6 DEF MessageDone, NewestOf, FirstCallback, CallbackAfter
  <2>9. uncalled' \subseteq devs' /\ devs' \subseteq HotplugDevice /\ deregistering' \subseteq
       {"user", "handler"}
    BY <1>6 DEF MessageDone
  <2>10. arrived' \in [HotplugCallback -> SUBSET HotplugDevice] /\ departed' \in
       [HotplugCallback -> SUBSET HotplugDevice]
    BY <1>6 DEF MessageDone
  <2> QED
    BY <2>1, <2>2, <2>3, <2>4, <2>5, <2>6, <2>7, <2>8, <2>9, <2>10 DEF HotplugTypeOK
<1>7. CASE FreeDeregistered
  BY <1>7 DEF FreeDeregistered, NewestOf, FirstCallback, CallbackAfter,
       Message
<1>8. ASSUME NEW th \in {"user", "handler"}, CallbackDeregistered(th) PROVE HotplugTypeOK'
  BY <1>8 DEF CallbackDeregistered, RaiseEvent, NewestOf, FirstCallback,
       CallbackAfter, Message
<1>9. CASE GetDeviceList
  BY <1>9 DEF GetDeviceList, Listed, NewestOf, FirstCallback, CallbackAfter,
       Message
<1>10. ASSUME NEW d \in HotplugDevice, EnumerateDevice(d) PROVE HotplugTypeOK'
  <2>1. device' \in [HotplugDevice -> {"absent", "listed", "gone"}]
    BY <1>10 DEF EnumerateDevice
  <2>2. refcnt' \in [HotplugDevice -> Nat]
    BY <1>10 DEF EnumerateDevice
  <2>3. monitor' \in Message \cup {NoMessage}
    BY <1>10 DEF EnumerateDevice, Message, NoMessage
  <2>4. hotplug_msgs' \in Seq(Message) /\ batch' \in Seq(Message)
    BY <1>10 DEF EnumerateDevice
  <2>5. event_flags' \subseteq {"HOTPLUG_MSG_PENDING", "HOTPLUG_CB_DEREGISTERED"} /\
       signalled' = (event_flags' # {})
    BY <1>10 DEF EnumerateDevice
  <2>6. hotplug_cbs' \subseteq HotplugCallback /\ needs_free' \subseteq hotplug_cbs' /\ freed'
       \subseteq HotplugCallback \ hotplug_cbs'
    BY <1>10 DEF EnumerateDevice
  <2>7. next_handle' \in Nat /\ handle' \in [HotplugCallback -> Nat]
    BY <1>10 DEF EnumerateDevice
  <2>8. handler_at' \in {"poll", "process", "dispatch", "calling"} /\ {hotplug_cb', next_cb',
       registering'} \subseteq HotplugCallback \cup {NoCallback}
    BY <1>10 DEF EnumerateDevice, NewestOf, FirstCallback, CallbackAfter
  <2>9. uncalled' \subseteq devs' /\ devs' \subseteq HotplugDevice /\ deregistering' \subseteq
       {"user", "handler"}
    BY <1>10 DEF EnumerateDevice
  <2>10. arrived' \in [HotplugCallback -> SUBSET HotplugDevice] /\ departed' \in
       [HotplugCallback -> SUBSET HotplugDevice]
    <3>1. registering \in HotplugCallback
      BY <1>10 DEF EnumerateDevice, RegistrationHolds
    <3> QED
      BY <1>10, <3>1 DEF EnumerateDevice, Tell
  <2> QED
    BY <2>1, <2>2, <2>3, <2>4, <2>5, <2>6, <2>7, <2>8, <2>9, <2>10 DEF HotplugTypeOK
<1>11. CASE FreeDeviceList
  <2>1. device' \in [HotplugDevice -> {"absent", "listed", "gone"}]
    BY <1>11 DEF FreeDeviceList
  <2>2. refcnt' \in [HotplugDevice -> Nat]
    <3>1. ASSUME NEW d \in devs PROVE d \in HotplugDevice /\ refcnt[d] \in Nat \ {0}
      <4>1. d \in HotplugDevice
        OBVIOUS
      <4>2. refcnt[d] = ListReference(d) + 1
        BY <4>1 DEF ReferencesHeld, DevsReference
      <4> QED
        BY <4>1, <4>2 DEF ListReference
    <3> QED
      BY <1>11, <3>1 DEF FreeDeviceList
  <2>3. monitor' \in Message \cup {NoMessage}
    BY <1>11 DEF FreeDeviceList, Message, NoMessage
  <2>4. hotplug_msgs' \in Seq(Message) /\ batch' \in Seq(Message)
    BY <1>11 DEF FreeDeviceList
  <2>5. event_flags' \subseteq {"HOTPLUG_MSG_PENDING", "HOTPLUG_CB_DEREGISTERED"} /\
       signalled' = (event_flags' # {})
    BY <1>11 DEF FreeDeviceList
  <2>6. hotplug_cbs' \subseteq HotplugCallback /\ needs_free' \subseteq hotplug_cbs' /\ freed'
       \subseteq HotplugCallback \ hotplug_cbs'
    BY <1>11 DEF FreeDeviceList
  <2>7. next_handle' \in Nat /\ handle' \in [HotplugCallback -> Nat]
    BY <1>11 DEF FreeDeviceList
  <2>8. handler_at' \in {"poll", "process", "dispatch", "calling"} /\ {hotplug_cb', next_cb',
       registering'} \subseteq HotplugCallback \cup {NoCallback}
    BY <1>11 DEF FreeDeviceList, NewestOf, FirstCallback, CallbackAfter
  <2>9. uncalled' \subseteq devs' /\ devs' \subseteq HotplugDevice /\ deregistering' \subseteq
       {"user", "handler"}
    BY <1>11 DEF FreeDeviceList
  <2>10. arrived' \in [HotplugCallback -> SUBSET HotplugDevice] /\ departed' \in
       [HotplugCallback -> SUBSET HotplugDevice]
    BY <1>11 DEF FreeDeviceList
  <2> QED
    BY <2>1, <2>2, <2>3, <2>4, <2>5, <2>6, <2>7, <2>8, <2>9, <2>10 DEF HotplugTypeOK
<1>12. CASE EnumerationFails
  BY <1>12 DEF EnumerationFails, MarkCallback, NewestOf, FirstCallback,
       CallbackAfter, Message
<1>13. ASSUME NEW d \in HotplugDevice, ConnectDevice(d) PROVE HotplugTypeOK'
  BY <1>13 DEF ConnectDevice, NewestOf, FirstCallback, CallbackAfter, Message
<1>14. ASSUME NEW d \in HotplugDevice, DisconnectDevice(d) PROVE HotplugTypeOK'
  BY <1>14 DEF DisconnectDevice, NewestOf, FirstCallback, CallbackAfter,
       Message
<1>15. CASE HotplugNotification
  <2>1. device' \in [HotplugDevice -> {"absent", "listed", "gone"}]
    BY <1>15 DEF HotplugNotification, RaiseEvent
  <2>2. refcnt' \in [HotplugDevice -> Nat]
    BY <1>15 DEF HotplugNotification, RaiseEvent
  <2>3. monitor' \in Message \cup {NoMessage}
    BY <1>15 DEF HotplugNotification, RaiseEvent, Message, NoMessage
  <2>4. hotplug_msgs' \in Seq(Message) /\ batch' \in Seq(Message)
    <3>1. Append(hotplug_msgs, monitor) \in Seq(Message)
      BY <1>15, AppendFacts DEF HotplugNotification, RaiseEvent
    <3> QED
      BY <1>15, <3>1 DEF HotplugNotification, RaiseEvent
  <2>5. event_flags' \subseteq {"HOTPLUG_MSG_PENDING", "HOTPLUG_CB_DEREGISTERED"} /\
       signalled' = (event_flags' # {})
    BY <1>15 DEF HotplugNotification, RaiseEvent
  <2>6. hotplug_cbs' \subseteq HotplugCallback /\ needs_free' \subseteq hotplug_cbs' /\ freed'
       \subseteq HotplugCallback \ hotplug_cbs'
    BY <1>15 DEF HotplugNotification, RaiseEvent
  <2>7. next_handle' \in Nat /\ handle' \in [HotplugCallback -> Nat]
    BY <1>15 DEF HotplugNotification, RaiseEvent
  <2>8. handler_at' \in {"poll", "process", "dispatch", "calling"} /\ {hotplug_cb', next_cb',
       registering'} \subseteq HotplugCallback \cup {NoCallback}
    BY <1>15 DEF HotplugNotification, RaiseEvent, NewestOf, FirstCallback, CallbackAfter
  <2>9. uncalled' \subseteq devs' /\ devs' \subseteq HotplugDevice /\ deregistering' \subseteq
       {"user", "handler"}
    BY <1>15 DEF HotplugNotification, RaiseEvent
  <2>10. arrived' \in [HotplugCallback -> SUBSET HotplugDevice] /\ departed' \in
       [HotplugCallback -> SUBSET HotplugDevice]
    BY <1>15 DEF HotplugNotification, RaiseEvent
  <2> QED
    BY <2>1, <2>2, <2>3, <2>4, <2>5, <2>6, <2>7, <2>8, <2>9, <2>10 DEF HotplugTypeOK
<1>16. ASSUME NEW c \in HotplugCallback, RegisterCallback(c) PROVE HotplugTypeOK'
  BY <1>16 DEF RegisterCallback, NewestOf, FirstCallback, CallbackAfter,
       Message
<1>17. ASSUME NEW c \in HotplugCallback, NEW th \in {"user", "handler"},
     DeregisterCallback(th, c) PROVE HotplugTypeOK'
  BY <1>17 DEF DeregisterCallback, MarkCallback, NewestOf, FirstCallback,
       CallbackAfter, Message
<1>18. CASE UNCHANGED hotplugVars
  BY <1>18 DEF hotplugVars, NewestOf, FirstCallback, CallbackAfter, Message
<1> QED
  BY <1>1, <1>2, <1>3, <1>4, <1>5, <1>6, <1>7, <1>8, <1>9, <1>10, <1>11, <1>12, <1>13,
       <1>14, <1>15, <1>16, <1>17, <1>18 DEF HotplugNext, HandlerStep, UserStep, MonitorStep

\* A device changes when its message is queued.
LEMMA MessagesTellStep == ASSUME HotplugInv, [HotplugNext]_hotplugVars PROVE MessagesTell'
<1> DEFINE Left(d) == [event |-> "LEFT", device |-> d]
<1>1. \A m \in PendingMessages : m \in Message /\ m.device \in HotplugDevice
  <2>1. \A m \in PendingMessages : m \in Message
    BY DEF HotplugInv, HotplugTypeOK, PendingMessages, ToSet
  <2> QED
    BY <2>1 DEF Message
<1>2. MessagesTell /\ device \in [HotplugDevice -> {"absent", "listed", "gone"}]
  BY DEF HotplugInv, HotplugTypeOK
<1>3. CASE device' = device /\ PendingMessages' = PendingMessages
  BY <1>2, <1>3 DEF MessagesTell, MessagePending
<1>4. ASSUME NEW d \in HotplugDevice, ConnectDevice(d) \/ DisconnectDevice(d)
      PROVE  MessagesTell'
  <2>1. /\ PendingMessages' = PendingMessages \cup {monitor'}
        /\ monitor' \in Message /\ monitor'.device = d
    BY <1>4, MessageComes
  <2>2. SUFFICES ASSUME NEW m \in PendingMessages'
                 PROVE  /\ device'[m.device] # "absent"
                        /\ m.event = "ARRIVED" =>
                             device'[m.device] = "listed" \/ Left(m.device) \in PendingMessages'
                        /\ m.event = "LEFT" => device'[m.device] = "gone"
    BY DEF MessagesTell, MessagePending
  <2>3. CASE m.device # d
    <3>1. m \in PendingMessages /\ device'[m.device] = device[m.device]
      BY <1>2, <1>4, <2>1, <2>3, <1>1 DEF ConnectDevice, DisconnectDevice
    <3> QED
      BY <1>2, <2>1, <3>1 DEF MessagesTell, MessagePending
  <2>4. CASE m.device = d /\ ConnectDevice(d)
    <3>1. device[d] = "absent" /\ device'[d] = "listed" /\ monitor'.event = "ARRIVED"
      BY <1>2, <2>4 DEF ConnectDevice
    <3>2. m = monitor'
      BY <1>2, <2>1, <2>2, <2>4, <3>1 DEF MessagesTell
    <3> QED
      BY <2>4, <3>1, <3>2
  <2>5. CASE m.device = d /\ DisconnectDevice(d)
    <3>1. device'[d] = "gone" /\ monitor' = Left(d)
      BY <1>2, <2>5 DEF DisconnectDevice
    <3> QED
      BY <2>1, <2>5, <3>1
  <2> QED
    BY <1>4, <2>3, <2>4, <2>5
<1>5. CASE MessageDone
  <2>1. /\ PendingMessages' = PendingMessages \ {Head(batch)}
        /\ \A n \in PendingMessages' : Precedes(Head(batch), n)
        /\ Head(batch) \in Message
    BY <1>5, MessageGoes
  <2>2. device' = device
    BY <1>5 DEF MessageDone
  <2>3. ASSUME NEW m \in PendingMessages', m.event = "ARRIVED", Left(m.device) \in PendingMessages
        PROVE  Left(m.device) \in PendingMessages'
    <3>1. CASE Left(m.device) = Head(batch)
      <4>1. Head(batch).device = m.device /\ Head(batch).event = "LEFT"
        BY <3>1
      <4> QED
        BY <2>1, <2>3, <4>1 DEF Precedes
    <3> QED
      BY <2>1, <2>3, <3>1
  <2> QED
    BY <1>2, <2>1, <2>2, <2>3 DEF MessagesTell, MessagePending
<1>6. (device' = device /\ PendingMessages' = PendingMessages) \/ MessageDone
        \/ \E d \in HotplugDevice : ConnectDevice(d) \/ DisconnectDevice(d)
  <2>1. CASE HandleEventTrigger \/ HotplugNotification
    BY <2>1, MessagesStay DEF HandleEventTrigger, HotplugNotification, deviceVars
  <2>2. CASE UNCHANGED <<device, monitor, hotplug_msgs, batch>>
    BY <2>2, MessagesStay
  <2> QED
    BY <2>1, <2>2, QueuesMove
<1> QED
  BY <1>3, <1>4, <1>5, <1>6

\* What changes the references is what changes their counts.
LEMMA ReferencesStep ==
  ASSUME HotplugInv, [HotplugNext]_hotplugVars, HotplugTypeOK' PROVE ReferencesHeld'
<1> DEFINE Left(d) == [event |-> "LEFT", device |-> d]
<1> USE DEF hotplugVars, deviceVars, eventPipeVars, callbackVars, handlerVars, registerVars,
     toldVars
<1>1. /\ device \in [HotplugDevice -> {"absent", "listed", "gone"}]
      /\ refcnt \in [HotplugDevice -> Nat] /\ devs \subseteq HotplugDevice
      /\ ReferencesHeld
  BY DEF HotplugInv, HotplugTypeOK
<1>2. CASE /\ device' = device /\ refcnt' = refcnt /\ devs' = devs
           /\ PendingMessages' = PendingMessages
  BY <1>1, <1>2 DEF ReferencesHeld, ListReference, DevsReference, MessagePending
<1>3. ASSUME NEW d \in HotplugDevice, ConnectDevice(d) PROVE ReferencesHeld'
  <2>1. /\ PendingMessages' = PendingMessages \cup {monitor'}
        /\ monitor' = [event |-> "ARRIVED", device |-> d]
        /\ device[d] = "absent" /\ device' = [device EXCEPT ![d] = "listed"]
        /\ refcnt' = [refcnt EXCEPT ![d] = 1] /\ devs' = devs
    BY <1>3, MessageComes DEF ConnectDevice
  <2>2. \A e \in HotplugDevice : Left(e) \in PendingMessages' <=> Left(e) \in PendingMessages
    BY <2>1
  <2>3. d \notin devs
    BY <1>1, <2>1 DEF ReferencesHeld
  <2>4. device'[d] = "listed" /\ refcnt'[d] = 1
    BY <1>1, <2>1
  <2>5. \A e \in HotplugDevice \ {d} : device'[e] = device[e] /\ refcnt'[e] = refcnt[e]
    BY <1>1, <2>1
  <2>6. ASSUME NEW e \in HotplugDevice
        PROVE  /\ refcnt'[e] = ListReference(e)' + DevsReference(e)'
               /\ e \in devs' => device'[e] # "absent"
    <3>1. CASE e = d
      BY <2>1, <2>3, <2>4, <3>1 DEF ListReference, DevsReference, MessagePending
    <3>2. CASE e # d
      <4>1. ListReference(e)' = ListReference(e) /\ DevsReference(e)' = DevsReference(e)
        BY <2>1, <2>2, <2>5, <3>2 DEF ListReference, DevsReference, MessagePending
      <4> QED
        BY <1>1, <2>1, <2>5, <3>2, <4>1 DEF ReferencesHeld
    <3> QED
      BY <3>1, <3>2
  <2> QED
    BY <2>6 DEF ReferencesHeld
<1>4. ASSUME NEW d \in HotplugDevice, DisconnectDevice(d) PROVE ReferencesHeld'
  <2>1. /\ PendingMessages' = PendingMessages \cup {monitor'}
        /\ monitor' = Left(d)
        /\ device[d] = "listed" /\ device' = [device EXCEPT ![d] = "gone"]
        /\ refcnt' = refcnt /\ devs' = devs
    BY <1>4, MessageComes DEF DisconnectDevice
  <2>2. \A e \in HotplugDevice \ {d} : Left(e) # Left(d) /\ device'[e] = device[e]
    <3>1. \A e \in HotplugDevice : Left(e).device = e
      OBVIOUS
    <3> QED
      BY <1>1, <2>1, <3>1
  <2>3. ASSUME NEW e \in HotplugDevice
        PROVE  ListReference(e)' = ListReference(e) /\ DevsReference(e)' = DevsReference(e)
               /\ (device'[e] = "absent" => device[e] = "absent")
    <3>1. CASE e = d
      <4>1. device'[d] = "gone" /\ Left(d) \in PendingMessages'
        BY <1>1, <2>1
      <4> QED
        BY <2>1, <3>1, <4>1 DEF ListReference, DevsReference, MessagePending
    <3>2. CASE e # d
      BY <2>1, <2>2, <3>2 DEF ListReference, DevsReference, MessagePending
    <3> QED
      BY <3>1, <3>2
  <2> QED
    BY <1>1, <2>1, <2>3 DEF ReferencesHeld
<1>5. CASE MessageDone
  <2> DEFINE h == Head(batch)
  <2>1. /\ h \in PendingMessages /\ h \in Message /\ PendingMessages' = PendingMessages \ {h}
        /\ device' = device /\ devs' = devs
    BY <1>5, MessageGoes DEF MessageDone
  <2>2. h.device \in HotplugDevice /\ h = [event |-> h.event, device |-> h.device]
    BY <2>1 DEF Message
  <2>3. ASSUME NEW e \in HotplugDevice
        PROVE  refcnt'[e] = ListReference(e)' + DevsReference(e)'
    <3>1. DevsReference(e)' = DevsReference(e) /\ DevsReference(e) \in {0, 1}
      BY <2>1 DEF DevsReference
    <3>2. CASE h = Left(e)
      <4>1. h.event = "LEFT" /\ h.device = e
        BY <3>2
      <4>2. ListReference(e) = 1
        BY <2>1, <3>2 DEF ListReference, MessagePending
      <4>3. device[e] = "gone"
        BY <2>1, <4>1 DEF HotplugInv, MessagesTell
      <4>4. ListReference(e)' = 0
        BY <2>1, <3>2, <4>3 DEF ListReference, MessagePending
      <4>5. refcnt'[e] = refcnt[e] - 1
        BY <1>1, <1>5, <4>1 DEF MessageDone
      <4>6. refcnt[e] = ListReference(e) + DevsReference(e)
        BY <1>1 DEF ReferencesHeld
      <4> QED
        BY <3>1, <4>2, <4>4, <4>5, <4>6
    <3>3. CASE h # Left(e)
      <4>1. ListReference(e)' = ListReference(e)
        BY <2>1, <3>3 DEF ListReference, MessagePending
      <4>2. refcnt'[e] = refcnt[e]
        BY <1>1, <1>5, <2>2, <3>3 DEF MessageDone
      <4>3. refcnt[e] = ListReference(e) + DevsReference(e)
        BY <1>1 DEF ReferencesHeld
      <4> QED
        BY <3>1, <4>1, <4>2, <4>3
    <3> QED
      BY <3>2, <3>3
  <2> QED
    BY <1>1, <2>1, <2>3 DEF ReferencesHeld
<1>6. CASE GetDeviceList
  <2>1. /\ device' = device /\ PendingMessages' = PendingMessages
        /\ devs = {} /\ devs' = Listed
        /\ refcnt' = [d \in HotplugDevice |-> IF d \in Listed THEN refcnt[d] + 1 ELSE refcnt[d]]
    BY <1>6, MessagesStay DEF GetDeviceList
  <2>2. ASSUME NEW e \in HotplugDevice
        PROVE  refcnt'[e] = ListReference(e)' + DevsReference(e)'
    <3>1. ListReference(e)' = ListReference(e) /\ ListReference(e) \in {0, 1}
      BY <2>1 DEF ListReference, MessagePending
    <3>2. refcnt[e] = ListReference(e) + DevsReference(e) /\ DevsReference(e) = 0
      BY <1>1, <2>1 DEF ReferencesHeld, DevsReference
    <3>3. DevsReference(e)' = IF e \in Listed THEN 1 ELSE 0
      BY <2>1 DEF DevsReference
    <3> QED
      BY <2>1, <3>1, <3>2, <3>3
  <2> QED
    BY <2>1, <2>2 DEF ReferencesHeld, Listed
<1>7. CASE FreeDeviceList
  <2>1. /\ device' = device /\ PendingMessages' = PendingMessages /\ devs' = {}
        /\ refcnt' = [d \in HotplugDevice |-> IF d \in devs THEN refcnt[d] - 1 ELSE refcnt[d]]
    BY <1>7, MessagesStay DEF FreeDeviceList
  <2>2. ASSUME NEW e \in HotplugDevice
        PROVE  refcnt'[e] = ListReference(e)' + DevsReference(e)'
    <3>1. ListReference(e)' = ListReference(e) /\ ListReference(e) \in {0, 1}
      BY <2>1 DEF ListReference, MessagePending
    <3>2. refcnt[e] = ListReference(e) + DevsReference(e)
      BY <1>1 DEF ReferencesHeld
    <3>3. DevsReference(e)' = 0 /\ DevsReference(e) = IF e \in devs THEN 1 ELSE 0
      BY <2>1 DEF DevsReference
    <3> QED
      BY <2>1, <3>1, <3>2, <3>3
  <2> QED
    BY <2>1, <2>2 DEF ReferencesHeld
<1>8. (device' = device /\ refcnt' = refcnt /\ devs' = devs /\ PendingMessages' = PendingMessages)
        \/ MessageDone \/ GetDeviceList \/ FreeDeviceList
        \/ \E d \in HotplugDevice : ConnectDevice(d) \/ DisconnectDevice(d)
  <2>1. CASE HandleEventTrigger \/ HotplugNotification
    BY <2>1, MessagesStay DEF HandleEventTrigger, HotplugNotification
  <2>2. CASE UNCHANGED <<device, monitor, hotplug_msgs, batch>>
    <3>1. PendingMessages' = PendingMessages
      BY <2>2, MessagesStay
    <3> QED
      BY <2>2, <3>1 DEF HotplugNext, HandlerStep, UserStep, MonitorStep, HotplugProcess,
           SkipCallback, CallCallback, CallbackReturned, FreeDeregistered,
           CallbackDeregistered, EnumerateDevice, EnumerationFails, MarkCallback,
           RegisterCallback, DeregisterCallback, HandleEventTrigger, HotplugNotification
  <2> QED
    BY <2>1, <2>2, QueuesMove
<1> QED
  BY <1>2, <1>3, <1>4, <1>5, <1>6, <1>7, <1>8

\* list_add and list_del are all that changes the list.
LEMMA CallbacksChange ==
  ASSUME [HotplugNext]_hotplugVars
  PROVE  \/ hotplug_cbs' \subseteq hotplug_cbs /\ UNCHANGED <<next_handle, handle>>
         \/ \E c \in HotplugCallback : RegisterCallback(c)
BY DEF HotplugNext, HandlerStep, UserStep, MonitorStep, hotplugVars, deviceVars, callbackVars,
       HandleEventTrigger, HotplugProcess, SkipCallback, CallCallback, CallbackReturned,
       MessageDone, FreeDeregistered, CallbackDeregistered, GetDeviceList, EnumerateDevice,
       FreeDeviceList, EnumerationFails, MarkCallback, ConnectDevice, DisconnectDevice,
       HotplugNotification, DeregisterCallback

\* Handles are handed out once.
LEMMA HandlesStep == ASSUME HotplugInv, [HotplugNext]_hotplugVars PROVE HandlesDiffer'
<1>1. /\ HandlesDiffer /\ next_handle \in Nat /\ hotplug_cbs \subseteq HotplugCallback
      /\ handle \in [HotplugCallback -> Nat]
  BY DEF HotplugInv, HotplugTypeOK
<1>2. CASE hotplug_cbs' \subseteq hotplug_cbs /\ UNCHANGED <<next_handle, handle>>
  BY <1>1, <1>2 DEF HandlesDiffer
<1>3. ASSUME NEW c \in HotplugCallback, RegisterCallback(c) PROVE HandlesDiffer'
  <2>1. /\ hotplug_cbs' = hotplug_cbs \cup {c} /\ c \notin hotplug_cbs
        /\ handle' = [handle EXCEPT ![c] = next_handle] /\ next_handle' = next_handle + 1
    BY <1>3 DEF RegisterCallback
  <2>2. handle'[c] = next_handle /\ \A o \in hotplug_cbs : handle'[o] = handle[o]
    BY <1>1, <2>1
  <2> QED
    BY <1>1, <2>1, <2>2 DEF HandlesDiffer
<1> QED
  BY <1>2, <1>3, CallbacksChange

\* The handler holds on to callbacks that only it frees.
LEMMA HandlerHoldsStep ==
  ASSUME HotplugInv, HotplugTypeOK', [HotplugNext]_hotplugVars
  PROVE  HandlerHolds'
<1> USE DEF hotplugVars, deviceVars, eventPipeVars, callbackVars, handlerVars, registerVars,
     toldVars
<1> USE DEF HotplugInv, HotplugTypeOK, HandlerHolds
<1>1. CASE HandleEventTrigger
  BY <1>1 DEF HandleEventTrigger
<1>2. CASE HotplugProcess
  <2>1. NewestOf(hotplug_cbs) \subseteq hotplug_cbs \cup {NoCallback}
    BY DEF NewestOf
  <2> QED
    BY <1>2, <2>1, NoCallbackAssumption DEF HotplugProcess, FirstCallback
<1>3. CASE SkipCallback
  <2>1. \A c \in CallbackAfter(next_cb) : c # NoCallback => c \in hotplug_cbs
    BY DEF NewestOf, CallbackAfter
  <2> QED
    BY <1>3, <2>1 DEF SkipCallback
<1>4. CASE CallCallback
  <2>1. \A c \in CallbackAfter(next_cb) : c # NoCallback =>
         c \in hotplug_cbs /\ handle[c] < handle[next_cb]
    BY DEF NewestOf, CallbackAfter
  <2>2. next_cb \in hotplug_cbs
    BY <1>4 DEF CallCallback
  <2> QED
    BY <1>4, <2>1, <2>2 DEF CallCallback
<1>5. ASSUME NEW r \in {0, 1}, CallbackReturned(r) PROVE HandlerHolds'
  BY <1>5 DEF CallbackReturned
<1>6. CASE MessageDone
  <2>1. NewestOf(hotplug_cbs) \subseteq hotplug_cbs \cup {NoCallback}
    BY DEF NewestOf
  <2> QED
    BY <1>6, <2>1, NoCallbackAssumption DEF MessageDone, FirstCallback
<1>7. CASE FreeDeregistered
  BY <1>7 DEF FreeDeregistered
<1>8. ASSUME NEW th \in {"user", "handler"}, CallbackDeregistered(th) PROVE HandlerHolds'
  BY <1>8 DEF CallbackDeregistered, RaiseEvent
<1>9. CASE GetDeviceList
  BY <1>9 DEF GetDeviceList, Listed
<1>10. ASSUME NEW d \in HotplugDevice, EnumerateDevice(d) PROVE HandlerHolds'
  BY <1>10 DEF EnumerateDevice
<1>11. CASE FreeDeviceList
  BY <1>11 DEF FreeDeviceList
<1>12. CASE EnumerationFails
  BY <1>12 DEF EnumerationFails, MarkCallback
<1>13. ASSUME NEW d \in HotplugDevice, ConnectDevice(d) PROVE HandlerHolds'
  BY <1>13 DEF ConnectDevice
<1>14. ASSUME NEW d \in HotplugDevice, DisconnectDevice(d) PROVE HandlerHolds'
  BY <1>14 DEF DisconnectDevice
<1>15. CASE HotplugNotification
  BY <1>15 DEF HotplugNotification, RaiseEvent
<1>16. ASSUME NEW c \in HotplugCallback, RegisterCallback(c) PROVE HandlerHolds'
  BY <1>16 DEF RegisterCallback
<1>17. ASSUME NEW c \in HotplugCallback, NEW th \in {"user", "handler"},
     DeregisterCallback(th, c) PROVE HandlerHolds'
  BY <1>17 DEF DeregisterCallback, MarkCallback
<1>18. CASE UNCHANGED hotplugVars
  BY <1>18 DEF hotplugVars
<1> QED
  BY <1>1, <1>2, <1>3, <1>4, <1>5, <1>6, <1>7, <1>8, <1>9, <1>10, <1>11, <1>12, <1>13,
       <1>14, <1>15, <1>16, <1>17, <1>18 DEF HotplugNext, HandlerStep, UserStep, MonitorStep

\* Nobody marks the callback that is registered.
LEMMA RegistrationStep ==
  ASSUME HotplugInv, HotplugTypeOK', [HotplugNext]_hotplugVars
  PROVE  RegistrationHolds'
<1> USE DEF hotplugVars, deviceVars, eventPipeVars, callbackVars, handlerVars, registerVars,
     toldVars
<1> USE DEF HotplugInv, HotplugTypeOK, RegistrationHolds
<1>1. CASE HandleEventTrigger
  BY <1>1 DEF HandleEventTrigger
<1>2. CASE HotplugProcess
  BY <1>2 DEF HotplugProcess
<1>3. CASE SkipCallback
  BY <1>3 DEF SkipCallback
<1>4. CASE CallCallback
  BY <1>4 DEF CallCallback
<1>5. ASSUME NEW r \in {0, 1}, CallbackReturned(r) PROVE RegistrationHolds'
  <2>1. hotplug_cb \in HotplugCallback /\ Head(batch).device \in HotplugDevice
    <3>1. hotplug_cb \in HotplugCallback /\ batch # <<>>
      BY <1>5 DEF CallbackReturned, HandlerHolds
    <3>2. Head(batch) \in Message
      BY <3>1, TailFacts
    <3> QED
      BY <3>1, <3>2 DEF Message
  <2>2. hotplug_cb \notin HotplugCallback \ (hotplug_cbs \cup freed)
    BY <1>5 DEF CallbackReturned, HandlerHolds
  <2>3. \A c \in HotplugCallback : c # hotplug_cb => arrived'[c] = arrived[c]
    BY <1>5, <2>1 DEF CallbackReturned, Tell
  <2>4. hotplug_cb # registering \/ hotplug_cbs' = hotplug_cbs
    <3>1. ASSUME hotplug_cb \in OneShot PROVE hotplug_cb # registering
      BY <2>1, <3>1, CallbackAssumption, NoCallbackAssumption
    <3> QED
      BY <1>5, <3>1 DEF CallbackReturned
  <2>5. hotplug_cbs' \cup freed' = hotplug_cbs \cup freed
    BY <1>5, <2>1, <2>2 DEF CallbackReturned
  <2>6. \A c \in HotplugCallback \ (hotplug_cbs' \cup freed') : arrived'[c] = {}
    BY <2>2, <2>3, <2>5
  <2> QED
    BY <1>5, <2>4, <2>6 DEF CallbackReturned
<1>6. CASE MessageDone
  BY <1>6 DEF MessageDone
<1>7. CASE FreeDeregistered
  BY <1>7 DEF FreeDeregistered
<1>8. ASSUME NEW th \in {"user", "handler"}, CallbackDeregistered(th) PROVE
     RegistrationHolds'
  BY <1>8 DEF CallbackDeregistered, RaiseEvent
<1>9. CASE GetDeviceList
  BY <1>9 DEF GetDeviceList, Listed
<1>10. ASSUME NEW d \in HotplugDevice, EnumerateDevice(d) PROVE RegistrationHolds'
  <2>1. registering \in hotplug_cbs
    BY <1>10, NoCallbackAssumption DEF EnumerateDevice
  <2>2. \A c \in HotplugCallback : c # registering => arrived'[c] = arrived[c]
    BY <1>10 DEF EnumerateDevice, Tell
  <2> QED
    BY <1>10, <2>1, <2>2 DEF EnumerateDevice
<1>11. CASE FreeDeviceList
  BY <1>11 DEF FreeDeviceList
<1>12. CASE EnumerationFails
  BY <1>12 DEF EnumerationFails, MarkCallback
<1>13. ASSUME NEW d \in HotplugDevice, ConnectDevice(d) PROVE RegistrationHolds'
  BY <1>13 DEF ConnectDevice
<1>14. ASSUME NEW d \in HotplugDevice, DisconnectDevice(d) PROVE RegistrationHolds'
  BY <1>14 DEF DisconnectDevice
<1>15. CASE HotplugNotification
  BY <1>15 DEF HotplugNotification, RaiseEvent
<1>16. ASSUME NEW c \in HotplugCallback, RegisterCallback(c) PROVE RegistrationHolds'
  BY <1>16 DEF RegisterCallback
<1>17. ASSUME NEW c \in HotplugCallback, NEW th \in {"user", "handler"},
     DeregisterCallback(th, c) PROVE RegistrationHolds'
  BY <1>17 DEF DeregisterCallback, MarkCallback
<1>18. CASE UNCHANGED hotplugVars
  BY <1>18 DEF hotplugVars
<1> QED
  BY <1>1, <1>2, <1>3, <1>4, <1>5, <1>6, <1>7, <1>8, <1>9, <1>10, <1>11, <1>12, <1>13,
       <1>14, <1>15, <1>16, <1>17, <1>18 DEF HotplugNext, HandlerStep, UserStep, MonitorStep

\* What a callback awaits does not pass it by.
LEMMA AwaitsStep ==
  ASSUME HotplugInv, NEW c \in hotplug_cbs \ needs_free, c \in hotplug_cbs', NEW m \in Message,
         Awaits(c, m), [HotplugNext]_hotplugVars
  PROVE  \/ Awaits(c, m)'
         \/ c = hotplug_cb /\ m = Head(batch) /\ \E r \in {0, 1} : CallbackReturned(r)
<1> USE DEF hotplugVars, deviceVars, eventPipeVars, callbackVars, handlerVars, registerVars,
     toldVars
<1> USE DEF HotplugInv, HotplugTypeOK, HandlerHolds
<1> DEFINE Passes ==
             \/ Awaits(c, m)'
             \/ c = hotplug_cb /\ m = Head(batch) /\ \E r \in {0, 1} : CallbackReturned(r)
<1>1. CASE HandleEventTrigger
  <2>1. batch = <<>> /\ monitor' = monitor /\ batch' = hotplug_msgs /\ handler_at' = "process"
    BY <1>1 DEF HandleEventTrigger
  <2>2. CASE m = monitor
    BY <2>1, <2>2 DEF Awaits
  <2>3. CASE m \in ToSet(hotplug_msgs)
    <3>1. PICK i \in DOMAIN hotplug_msgs : hotplug_msgs[i] = m
      BY <2>3 DEF ToSet
    <3>2. StillToCall(c)'
      BY <2>1 DEF StillToCall
    <3> QED
      BY <2>1, <3>1, <3>2 DEF Awaits
  <2> QED
    BY <2>1, <2>2, <2>3 DEF Awaits
<1>2. CASE HotplugProcess
  <2>1. StillToCall(c)'
    BY <1>2, NewestFacts DEF HotplugProcess, FirstCallback, StillToCall
  <2> QED
    BY <1>2, <2>1 DEF HotplugProcess, Awaits
<1>3. CASE SkipCallback
  <2>1. /\ handler_at = "dispatch" /\ next_cb' \in CallbackAfter(next_cb)
        /\ batch' = batch /\ hotplug_msgs' = hotplug_msgs /\ monitor' = monitor /\ handle' = handle
    BY <1>3 DEF SkipCallback
  <2>2. SUFFICES ASSUME StillToCall(c) PROVE StillToCall(c)'
    BY <2>1 DEF Awaits
  <2>3. next_cb \in hotplug_cbs /\ handle[c] <= handle[next_cb]
    BY <2>1, <2>2 DEF StillToCall
  <2>4. CASE c = next_cb
    BY <1>3, <2>4 DEF SkipCallback, StillToCall
  <2>5. CASE c # next_cb
    <3>1. handle[c] < handle[next_cb]
      BY <2>3, <2>5 DEF HandlesDiffer
    <3> DEFINE older == {o \in hotplug_cbs : handle[o] < handle[next_cb]}
    <3>2. c \in older /\ older \in SUBSET HotplugCallback
      BY <3>1
    <3>3. next_cb' \in NewestOf(older)
      BY <2>1 DEF CallbackAfter
    <3>4. next_cb' # NoCallback /\ handle[c] <= handle[next_cb']
      BY <3>2, <3>3, NewestFacts
    <3> QED
      BY <2>1, <3>4 DEF StillToCall
  <2> QED
    BY <2>4, <2>5
<1>4. CASE CallCallback
  <2>1. /\ handler_at = "dispatch" /\ next_cb' \in CallbackAfter(next_cb)
        /\ batch' = batch /\ hotplug_msgs' = hotplug_msgs /\ monitor' = monitor /\ handle' = handle
    BY <1>4 DEF CallCallback
  <2>2. SUFFICES ASSUME StillToCall(c) PROVE StillToCall(c)'
    BY <2>1 DEF Awaits
  <2>3. next_cb \in hotplug_cbs /\ handle[c] <= handle[next_cb]
    BY <2>1, <2>2 DEF StillToCall
  <2>4. CASE c = next_cb
    BY <1>4, <2>4 DEF CallCallback, StillToCall
  <2>5. CASE c # next_cb
    <3>1. handle[c] < handle[next_cb]
      BY <2>3, <2>5 DEF HandlesDiffer
    <3> DEFINE older == {o \in hotplug_cbs : handle[o] < handle[next_cb]}
    <3>2. c \in older /\ older \in SUBSET HotplugCallback
      BY <3>1
    <3>3. next_cb' \in NewestOf(older)
      BY <2>1 DEF CallbackAfter
    <3>4. next_cb' # NoCallback /\ handle[c] <= handle[next_cb']
      BY <3>2, <3>3, NewestFacts
    <3> QED
      BY <2>1, <3>4 DEF StillToCall
  <2> QED
    BY <2>4, <2>5
<1>5. ASSUME NEW r \in {0, 1}, CallbackReturned(r) PROVE Passes
  <2>1. /\ batch' = batch /\ hotplug_msgs' = hotplug_msgs /\ monitor' = monitor
        /\ handle' = handle /\ next_cb' = next_cb /\ handler_at = "calling" /\ batch # <<>>
    BY <1>5 DEF CallbackReturned
  <2>2. CASE m = monitor \/ m \in ToSet(hotplug_msgs)
    BY <2>1, <2>2 DEF Awaits
  <2>3. CASE \E i \in DOMAIN batch : batch[i] = m /\ (i > 1 \/ StillToCall(c))
    <3>1. PICK i \in DOMAIN batch : batch[i] = m /\ (i > 1 \/ StillToCall(c))
      BY <2>3
    <3>2. CASE i > 1 \/ StillToCall(c)'
      BY <2>1, <3>1, <3>2 DEF Awaits
    <3>3. CASE ~(i > 1) /\ ~StillToCall(c)'
      <4>1. c = hotplug_cb
        BY <2>1, <3>1, <3>3 DEF StillToCall
      <4>2. i = 1
        BY <3>1, <3>3
      <4>3. m = Head(batch)
        BY <2>1, <3>1, <4>2, TailFacts
      <4> QED
        BY <1>5, <4>1, <4>3
    <3> QED
      BY <3>2, <3>3
  <2> QED
    BY <2>2, <2>3 DEF Awaits
<1>6. CASE MessageDone
  <2>1. /\ batch' = Tail(batch) /\ batch # <<>> /\ next_cb' \in NewestOf(hotplug_cbs)
        /\ hotplug_msgs' = hotplug_msgs /\ monitor' = monitor /\ handle' = handle
        /\ handler_at = "dispatch" /\ next_cb = NoCallback
    BY <1>6 DEF MessageDone, FirstCallback
  <2>2. CASE m = monitor \/ m \in ToSet(hotplug_msgs)
    BY <2>1, <2>2 DEF Awaits
  <2>3. CASE \E i \in DOMAIN batch : batch[i] = m /\ (i > 1 \/ StillToCall(c))
    <3>1. PICK i \in DOMAIN batch : batch[i] = m /\ (i > 1 \/ StillToCall(c))
      BY <2>3
    <3>2. i > 1
      BY <2>1, <3>1 DEF StillToCall
    <3>3. i - 1 \in DOMAIN batch' /\ batch'[i - 1] = m
      BY <2>1, <3>1, <3>2, TailFacts
    <3>4. StillToCall(c)'
      BY <2>1, NewestFacts DEF StillToCall
    <3> QED
      BY <3>3, <3>4 DEF Awaits
  <2> QED
    BY <2>2, <2>3 DEF Awaits
<1>7. CASE FreeDeregistered
  BY <1>7 DEF FreeDeregistered, Awaits, StillToCall
<1>8. ASSUME NEW th \in {"user", "handler"}, CallbackDeregistered(th) PROVE Passes
  BY <1>8 DEF CallbackDeregistered, RaiseEvent, Awaits, StillToCall
<1>9. CASE GetDeviceList
  BY <1>9 DEF GetDeviceList, Listed, Awaits, StillToCall
<1>10. ASSUME NEW d \in HotplugDevice, EnumerateDevice(d) PROVE Passes
  BY <1>10 DEF EnumerateDevice, Awaits, StillToCall
<1>11. CASE FreeDeviceList
  BY <1>11 DEF FreeDeviceList, Awaits, StillToCall
<1>12. CASE EnumerationFails
  BY <1>12 DEF EnumerationFails, MarkCallback, Awaits, StillToCall
<1>13. ASSUME NEW d \in HotplugDevice, ConnectDevice(d) PROVE Passes
  <2>1. m # monitor
    BY <1>13 DEF ConnectDevice, Message, NoMessage
  <2> QED
    BY <1>13, <2>1 DEF ConnectDevice, Awaits, StillToCall
<1>14. ASSUME NEW d \in HotplugDevice, DisconnectDevice(d) PROVE Passes
  <2>1. m # monitor
    BY <1>14 DEF DisconnectDevice, Message, NoMessage
  <2> QED
    BY <1>14, <2>1 DEF DisconnectDevice, Awaits, StillToCall
<1>15. CASE HotplugNotification
  <2>1. monitor \in Message /\ ToSet(hotplug_msgs') = ToSet(hotplug_msgs) \cup {monitor}
    BY <1>15, AppendFacts DEF HotplugNotification, RaiseEvent
  <2> QED
    BY <1>15, <2>1 DEF HotplugNotification, RaiseEvent, Awaits, StillToCall
<1>16. ASSUME NEW o \in HotplugCallback, RegisterCallback(o) PROVE Passes
  <2>1. /\ handle'[c] = handle[c]
        /\ next_cb # NoCallback => handle'[next_cb] = handle[next_cb]
    BY <1>16 DEF RegisterCallback
  <2> QED
    BY <1>16, <2>1 DEF RegisterCallback, Awaits, StillToCall
<1>17. ASSUME NEW o \in HotplugCallback, NEW th \in {"user", "handler"},
     DeregisterCallback(th, o) PROVE Passes
  BY <1>17 DEF DeregisterCallback, MarkCallback, Awaits, StillToCall
<1>18. CASE UNCHANGED hotplugVars
  BY <1>18 DEF hotplugVars, Awaits, StillToCall
<1> QED
  BY <1>1, <1>2, <1>3, <1>4, <1>5, <1>6, <1>7, <1>8, <1>9, <1>10, <1>11, <1>12, <1>13,
       <1>14, <1>15, <1>16, <1>17, <1>18 DEF HotplugNext, HandlerStep, UserStep, MonitorStep

\* What a step tells: the handler the callback it called, the registration its own.
LEMMA ToldStep ==
  ASSUME HotplugInv, [HotplugNext]_hotplugVars, NEW c \in HotplugCallback
  PROVE  /\ arrived[c] \subseteq arrived'[c] /\ departed[c] \subseteq departed'[c]
         /\ \A d \in arrived'[c] \ arrived[c] :
              \/ EnumerateDevice(d) /\ c = registering
              \/ /\ \E r \in {0, 1} : CallbackReturned(r)
                 /\ c = hotplug_cb /\ Head(batch) = [event |-> "ARRIVED", device |-> d]
         /\ (\E r \in {0, 1} : CallbackReturned(r)) /\ c = hotplug_cb =>
              /\ Head(batch).event = "ARRIVED" => Head(batch).device \in arrived'[c]
              /\ Head(batch).event = "LEFT" => Head(batch).device \in departed'[c]
<1>1. /\ arrived \in [HotplugCallback -> SUBSET HotplugDevice]
      /\ departed \in [HotplugCallback -> SUBSET HotplugDevice]
  BY DEF HotplugInv, HotplugTypeOK
<1>2. CASE UNCHANGED toldVars /\ ~\E r \in {0, 1} : CallbackReturned(r)
  BY <1>1, <1>2 DEF toldVars
<1>3. ASSUME NEW r \in {0, 1}, CallbackReturned(r)
      PROVE  /\ arrived[c] \subseteq arrived'[c] /\ departed[c] \subseteq departed'[c]
             /\ \A d \in arrived'[c] \ arrived[c] :
                  c = hotplug_cb /\ Head(batch) = [event |-> "ARRIVED", device |-> d]
             /\ c = hotplug_cb =>
                  /\ Head(batch).event = "ARRIVED" => Head(batch).device \in arrived'[c]
                  /\ Head(batch).event = "LEFT" => Head(batch).device \in departed'[c]
  <2>1. Tell(hotplug_cb, Head(batch)) /\ handler_at = "calling"
    BY <1>3 DEF CallbackReturned
  <2>2. batch # <<>> /\ batch \in Seq(Message)
    BY <2>1 DEF HotplugInv, HandlerHolds, HotplugTypeOK
  <2>3. Head(batch) \in Message
    BY <2>2, TailFacts
  <2>4. Head(batch) = [event |-> Head(batch).event, device |-> Head(batch).device]
    BY <2>3 DEF Message
  <2> QED
    BY <1>1, <2>1, <2>4 DEF Tell
<1>4. ASSUME NEW e \in HotplugDevice, EnumerateDevice(e)
      PROVE  /\ arrived[c] \subseteq arrived'[c] /\ departed[c] \subseteq departed'[c]
             /\ \A d \in arrived'[c] \ arrived[c] : d = e /\ c = registering
             /\ ~\E r \in {0, 1} : CallbackReturned(r)
  <2>1. Tell(registering, [event |-> "ARRIVED", device |-> e]) /\ uncalled' = uncalled \ {e}
        /\ e \in uncalled
    BY <1>4 DEF EnumerateDevice
  <2>2. ~\E r \in {0, 1} : CallbackReturned(r)
    BY <2>1 DEF CallbackReturned, registerVars
  <2> QED
    BY <1>1, <2>1, <2>2 DEF Tell
<1>5. UNCHANGED toldVars \/ (\E r \in {0, 1} : CallbackReturned(r))
        \/ \E e \in HotplugDevice : EnumerateDevice(e)
  BY DEF HotplugNext, HandlerStep, UserStep, MonitorStep, hotplugVars, toldVars,
         HandleEventTrigger, HotplugProcess, SkipCallback, CallCallback, MessageDone,
         FreeDeregistered, CallbackDeregistered, GetDeviceList, FreeDeviceList,
         EnumerationFails, MarkCallback, ConnectDevice, DisconnectDevice,
         HotplugNotification, RegisterCallback, DeregisterCallback
<1> QED
  BY <1>2, <1>3, <1>4, <1>5

\* A marked callback leaves the list before its mark goes.
LEMMA StayMarked ==
  ASSUME [HotplugNext]_hotplugVars PROVE needs_free \cap hotplug_cbs' \subseteq needs_free'
BY DEF HotplugNext, HandlerStep, UserStep, MonitorStep, hotplugVars, deviceVars, callbackVars,
       HandleEventTrigger, HotplugProcess, SkipCallback, CallCallback, CallbackReturned,
       MessageDone, FreeDeregistered, CallbackDeregistered, GetDeviceList, EnumerateDevice,
       FreeDeviceList, EnumerationFails, MarkCallback, ConnectDevice, DisconnectDevice,
       HotplugNotification, RegisterCallback, DeregisterCallback

\* Only the monitor thread changes a device.
LEMMA DevicesChange ==
  ASSUME [HotplugNext]_hotplugVars
  PROVE  device' = device \/ \E d \in HotplugDevice : ConnectDevice(d) \/ DisconnectDevice(d)
BY QueuesMove DEF HandleEventTrigger, HotplugNotification, MessageDone, deviceVars

\* The steps of libusb_hotplug_register_callback.
LEMMA RegistrationChanges ==
  ASSUME [HotplugNext]_hotplugVars
  PROVE  \/ UNCHANGED registerVars
         \/ GetDeviceList \/ FreeDeviceList \/ EnumerationFails
         \/ \E d \in HotplugDevice : EnumerateDevice(d)
         \/ \E c \in HotplugCallback : RegisterCallback(c)
BY DEF HotplugNext, HandlerStep, UserStep, MonitorStep, hotplugVars, registerVars,
       HandleEventTrigger, HotplugProcess, SkipCallback, CallCallback, CallbackReturned,
       MessageDone, FreeDeregistered, CallbackDeregistered, MarkCallback, ConnectDevice,
       DisconnectDevice, HotplugNotification, DeregisterCallback

\* An arrival is told by the handler or by the registration.
LEMMA ArrivalsStep == ASSUME HotplugInv, [HotplugNext]_hotplugVars PROVE ArrivalsTold'
<1> DEFINE Arrived(d) == [event |-> "ARRIVED", device |-> d]
           Expects(c, d) == registering = c /\ (devs = {} \/ d \in uncalled)
<1> SUFFICES ASSUME NEW c \in hotplug_cbs' \ needs_free', NEW d \in HotplugDevice,
                    c \in Enumerating, device'[d] = "listed"
             PROVE  d \in arrived'[c] \/ Awaits(c, Arrived(d))' \/ Expects(c, d)'
  BY DEF ArrivalsTold
<1>1. /\ ArrivalsTold /\ RegistrationHolds /\ c \in HotplugCallback
      /\ device \in [HotplugDevice -> {"absent", "listed", "gone"}]
      /\ uncalled \subseteq devs
  BY CallbackAssumption DEF HotplugInv, HotplugTypeOK
<1>2. Arrived(d) \in Message
  BY DEF Message
<1>3. CASE c \notin hotplug_cbs
  <2>1. RegisterCallback(c)
    <3>1. PICK o \in HotplugCallback : RegisterCallback(o)
      BY <1>3, CallbacksChange
    <3>2. o = c
      BY <1>3, <3>1 DEF RegisterCallback
    <3> QED
      BY <3>1, <3>2
  <2>2. registering' = c /\ devs' = {}
    BY <1>1, <2>1 DEF RegisterCallback, RegistrationHolds
  <2> QED
    BY <2>2
<1>4. CASE c \in hotplug_cbs /\ device[d] # "listed"
  <2>1. ConnectDevice(d)
    <3>1. PICK e \in HotplugDevice : ConnectDevice(e) \/ DisconnectDevice(e)
      BY <1>4, DevicesChange
    <3>2. e = d /\ ConnectDevice(e)
      BY <1>1, <1>4, <3>1 DEF ConnectDevice, DisconnectDevice
    <3> QED
      BY <3>2
  <2> QED
    BY <2>1 DEF ConnectDevice, Awaits
<1>5. CASE c \in hotplug_cbs /\ device[d] = "listed"
  <2>1. c \notin needs_free
    BY <1>5, StayMarked
  <2>2. CASE d \in arrived[c]
    BY <1>1, <2>2, ToldStep
  <2>3. CASE Awaits(c, Arrived(d))
    <3>1. CASE Awaits(c, Arrived(d))'
      BY <3>1
    <3>2. CASE c = hotplug_cb /\ Arrived(d) = Head(batch) /\ \E r \in {0, 1} : CallbackReturned(r)
      <4>1. Head(batch).event = "ARRIVED" /\ Head(batch).device = d
        BY <3>2
      <4> QED
        BY <1>1, <3>2, <4>1, ToldStep
    <3> QED
      BY <1>2, <1>5, <2>1, <2>3, <3>1, <3>2, AwaitsStep
  <2>4. CASE Expects(c, d)
    <3>1. CASE UNCHANGED registerVars
      BY <2>4, <3>1 DEF registerVars
    <3>2. CASE GetDeviceList
      <4>1. d \in Listed
        BY <1>5 DEF Listed
      <4> QED
        BY <2>4, <3>2, <4>1 DEF GetDeviceList
    <3>3. CASE FreeDeviceList
      BY <2>4, <3>3 DEF FreeDeviceList
    <3>4. CASE EnumerationFails
      BY <2>4, <3>4 DEF EnumerationFails, MarkCallback
    <3>5. ASSUME NEW e \in HotplugDevice, EnumerateDevice(e)
          PROVE  d \in arrived'[c] \/ Expects(c, d)'
      <4>1. /\ Tell(registering, Arrived(e)) /\ uncalled' = uncalled \ {e} /\ e \in uncalled
            /\ registering' = registering /\ devs' = devs
        BY <3>5 DEF EnumerateDevice
      <4>2. CASE e = d
        <5>1. arrived \in [HotplugCallback -> SUBSET HotplugDevice]
          BY DEF HotplugInv, HotplugTypeOK
        <5> QED
          BY <1>1, <2>4, <4>1, <4>2, <5>1 DEF Tell
      <4>3. CASE e # d
        BY <1>1, <2>4, <4>1, <4>3
      <4> QED
        BY <4>2, <4>3
    <3>6. ASSUME NEW o \in HotplugCallback, RegisterCallback(o) PROVE FALSE
      BY <1>1, <2>4, <3>6, NoCallbackAssumption DEF RegisterCallback
    <3> QED
      BY <3>1, <3>2, <3>3, <3>4, <3>5, <3>6, RegistrationChanges
  <2> QED
    BY <1>1, <1>5, <2>1, <2>2, <2>3, <2>4 DEF ArrivalsTold
<1> QED
  BY <1>1, <1>3, <1>4, <1>5

\* A departure is told by the handler, after the arrival.
LEMMA DeparturesStep == ASSUME HotplugInv, [HotplugNext]_hotplugVars PROVE DeparturesTold'
<1> DEFINE Left(d) == [event |-> "LEFT", device |-> d]
<1> SUFFICES ASSUME NEW c \in hotplug_cbs' \ needs_free', NEW d \in HotplugDevice,
                    device'[d] = "gone",
                    d \in arrived'[c] \/ (registering' = c /\ d \in uncalled')
             PROVE  d \in departed'[c] \/ Awaits(c, Left(d))'
  BY DEF DeparturesTold
<1>1. /\ DeparturesTold /\ RegistrationHolds
      /\ device \in [HotplugDevice -> {"absent", "listed", "gone"}]
      /\ uncalled \subseteq devs
  BY DEF HotplugInv, HotplugTypeOK
<1>2. Left(d) \in Message
  BY DEF Message
<1>3. ASSUME NEW o \in HotplugCallback, RegisterCallback(o)
      PROVE  o # c
  <2>1. arrived' = arrived /\ uncalled' = uncalled /\ o \notin hotplug_cbs \cup freed
        /\ registering = NoCallback
    BY <1>3 DEF RegisterCallback, toldVars
  <2> QED
    BY <1>1, <2>1 DEF RegistrationHolds
<1>4. c \in hotplug_cbs /\ c \in HotplugCallback
  <2>1. c \in hotplug_cbs
    <3>1. CASE hotplug_cbs' \subseteq hotplug_cbs
      BY <3>1
    <3>2. ASSUME NEW o \in HotplugCallback, RegisterCallback(o) PROVE c \in hotplug_cbs
      BY <1>3, <3>2 DEF RegisterCallback
    <3> QED
      BY <3>1, <3>2, CallbacksChange
  <2> QED
    BY <2>1 DEF HotplugInv, HotplugTypeOK
<1>5. c \notin needs_free
  BY <1>4, StayMarked
<1>6. CASE device[d] # "gone"
  <2>1. DisconnectDevice(d)
    <3>1. PICK e \in HotplugDevice : ConnectDevice(e) \/ DisconnectDevice(e)
      BY <1>6, DevicesChange
    <3>2. e = d /\ DisconnectDevice(e)
      BY <1>1, <1>6, <3>1 DEF ConnectDevice, DisconnectDevice
    <3> QED
      BY <3>2
  <2> QED
    BY <2>1 DEF DisconnectDevice, Awaits
<1>7. ASSUME Awaits(c, Left(d))
      PROVE  d \in departed'[c] \/ Awaits(c, Left(d))'
  <2>1. CASE Awaits(c, Left(d))'
    BY <2>1
  <2>2. CASE c = hotplug_cb /\ Left(d) = Head(batch) /\ \E r \in {0, 1} : CallbackReturned(r)
    <3>1. Head(batch).event = "LEFT" /\ Head(batch).device = d
      BY <2>2
    <3> QED
      BY <1>4, <2>2, <3>1, ToldStep
  <2> QED
    BY <1>2, <1>4, <1>5, <1>7, <2>1, <2>2, AwaitsStep
<1>8. CASE device[d] = "gone" /\ (d \in arrived[c] \/ (registering = c /\ d \in uncalled))
  <2>1. d \in departed[c] \/ Awaits(c, Left(d))
    BY <1>1, <1>4, <1>5, <1>8 DEF DeparturesTold
  <2> QED
    BY <1>4, <1>7, <2>1, ToldStep
<1>9. CASE /\ device[d] = "gone" /\ d \notin arrived[c] /\ ~(registering = c /\ d \in uncalled)
           /\ d \in arrived'[c]
  <2>1. ~(EnumerateDevice(d) /\ c = registering)
    BY <1>9 DEF EnumerateDevice
  <2>2. /\ \E r \in {0, 1} : CallbackReturned(r)
        /\ c = hotplug_cb /\ Head(batch) = [event |-> "ARRIVED", device |-> d]
    BY <1>4, <1>9, <2>1, ToldStep
  <2>3. batch # <<>> /\ batch \in Seq(Message)
    BY <2>2 DEF CallbackReturned, HotplugInv, HandlerHolds, HotplugTypeOK
  <2>4. Head(batch) \in PendingMessages /\ Head(batch).event = "ARRIVED" /\ Head(batch).device = d
    BY <2>2, <2>3, TailFacts DEF PendingMessages
  <2>5. Left(d) \in PendingMessages
    BY <1>9, <2>4 DEF HotplugInv, MessagesTell, MessagePending
  <2>6. Awaits(c, Left(d))
    <3>1. CASE Left(d) = monitor \/ Left(d) \in ToSet(hotplug_msgs)
      BY <3>1 DEF Awaits
    <3>2. CASE Left(d) \in ToSet(batch)
      <4>1. PICK i \in DOMAIN batch : batch[i] = Left(d)
        BY <3>2 DEF ToSet
      <4>2. i # 1
        BY <2>3, <2>4, <4>1, TailFacts
      <4>3. i > 1
        BY <2>3, <4>1, <4>2
      <4> QED
        BY <4>1, <4>3 DEF Awaits
    <3> QED
      BY <2>5, <3>1, <3>2 DEF PendingMessages
  <2> QED
    BY <1>7, <2>6
<1>10. CASE /\ device[d] = "gone" /\ d \notin arrived[c] /\ ~(registering = c /\ d \in uncalled)
            /\ registering' = c /\ d \in uncalled'
  <2>1. CASE UNCHANGED registerVars
    BY <1>10, <2>1 DEF registerVars
  <2>2. CASE GetDeviceList
    BY <1>10, <2>2 DEF GetDeviceList, Listed
  <2>3. CASE FreeDeviceList
    BY <1>10, <2>3 DEF FreeDeviceList
  <2>4. CASE EnumerationFails
    BY <1>4, <1>10, <2>4, NoCallbackAssumption DEF EnumerationFails
  <2>5. ASSUME NEW e \in HotplugDevice, EnumerateDevice(e) PROVE FALSE
    BY <1>10, <2>5 DEF EnumerateDevice
  <2>6. ASSUME NEW o \in HotplugCallback, RegisterCallback(o) PROVE FALSE
    BY <1>3, <1>4, <1>10, <2>6, NoCallbackAssumption DEF RegisterCallback
  <2> QED
    BY <2>1, <2>2, <2>3, <2>4, <2>5, <2>6, RegistrationChanges
<1> QED
  BY <1>6, <1>8, <1>9, <1>10

\* A context without callbacks or messages.
LEMMA HotplugInitInv == HotplugInit => HotplugInv
<1> SUFFICES ASSUME HotplugInit PROVE HotplugInv
  OBVIOUS
<1> USE DEF HotplugInit
<1>1. ToSet(<<>>) = {} /\ InOrder(<<>>) /\ <<>> \in Seq(Message)
  BY DEF ToSet, InOrder
<1>2. PendingMessages = {}
  BY <1>1 DEF PendingMessages
<1>3. HotplugTypeOK
  <2>1. refcnt \in [HotplugDevice -> Nat] /\ handle \in [HotplugCallback -> Nat]
    OBVIOUS
  <2>2. /\ arrived \in [HotplugCallback -> SUBSET HotplugDevice]
        /\ departed \in [HotplugCallback -> SUBSET HotplugDevice]
    OBVIOUS
  <2> QED
    BY <1>1, <2>1, <2>2 DEF HotplugTypeOK
<1>4. MessageOrder /\ MessagesTell
  BY <1>1, <1>2 DEF MessageOrder, MessagesTell
<1>5. ReferencesHeld
  BY <1>2 DEF ReferencesHeld, ListReference, DevsReference, MessagePending
<1>6. HandlesDiffer /\ HandlerHolds /\ RegistrationHolds /\ ArrivalsTold /\ DeparturesTold
  BY DEF HandlesDiffer, HandlerHolds, RegistrationHolds, ArrivalsTold, DeparturesTold
<1> QED
  BY <1>3, <1>4, <1>5, <1>6 DEF HotplugInv

\* The invariant that both theorems below follow from.
THEOREM HotplugInvariance == HotplugSpec => []HotplugInv
<1>1. HotplugInv /\ [HotplugNext]_hotplugVars => HotplugInv'
  <2> SUFFICES ASSUME HotplugInv, [HotplugNext]_hotplugVars PROVE HotplugInv'
    OBVIOUS
  <2>1. HotplugTypeOK'
    BY TypesStep
  <2>2. MessageOrder' /\ MessagesTell' /\ ReferencesHeld'
    BY <2>1, MessageOrderStep, MessagesTellStep, ReferencesStep
  <2>3. HandlesDiffer' /\ HandlerHolds' /\ RegistrationHolds'
    BY <2>1, HandlesStep, HandlerHoldsStep, RegistrationStep
  <2>4. ArrivalsTold' /\ DeparturesTold'
    BY ArrivalsStep, DeparturesStep
  <2> QED
    BY <2>1, <2>2, <2>3, <2>4 DEF HotplugInv
<1> QED
  BY <1>1, HotplugInitInv, PTL DEF HotplugSpec

\* Nothing is freed while it is in use: the device of a queued message has a reference,
\* which is the list's or, after linux_device_disconnected, the message's own; a device
\* that is enumerated has that of the array; and the callback that is called, the one
\* remembered to be the next and the one that is registered are in the list, whatever
\* is deregistered by whom while hotplug_cbs_lock is free.
THEOREM NothingFreed == HotplugSpec => []NothingFreedInUse
<1>1. HotplugInv => NothingFreedInUse
  <2> SUFFICES ASSUME HotplugInv PROVE NothingFreedInUse
    OBVIOUS
  <2>1. ASSUME NEW d \in HotplugDevice
        PROVE  /\ refcnt[d] = ListReference(d) + DevsReference(d)
               /\ ListReference(d) \in {0, 1} /\ DevsReference(d) \in {0, 1}
    BY DEF HotplugInv, ReferencesHeld, ListReference, DevsReference
  <2>2. ASSUME NEW m \in PendingMessages PROVE refcnt[m.device] > 0
    <3>1. m \in Message
      BY DEF HotplugInv, HotplugTypeOK, PendingMessages, ToSet
    <3>2. m.device \in HotplugDevice /\ m = [event |-> m.event, device |-> m.device]
          /\ m.event \in {"ARRIVED", "LEFT"}
      BY <3>1 DEF Message
    <3>3. device[m.device] = "listed" \/ MessagePending("LEFT", m.device)
      BY <3>2 DEF HotplugInv, MessagesTell, MessagePending
    <3>4. ListReference(m.device) = 1
      BY <3>3 DEF ListReference
    <3> QED
      BY <2>1, <3>2, <3>4
  <2>3. ASSUME NEW d \in devs PROVE refcnt[d] > 0
    <3>1. d \in HotplugDevice /\ DevsReference(d) = 1
      BY DEF HotplugInv, HotplugTypeOK, DevsReference
    <3> QED
      BY <2>1, <3>1
  <2>4. {hotplug_cb, next_cb, registering} \cap freed = {}
    <3>1. {hotplug_cb, next_cb, registering} \subseteq hotplug_cbs \cup {NoCallback}
      BY DEF HotplugInv, HandlerHolds, RegistrationHolds
    <3>2. freed \cap (hotplug_cbs \cup {NoCallback}) = {}
      BY NoCallbackAssumption DEF HotplugInv, HotplugTypeOK
    <3> QED
      BY <3>1, <3>2
  <2> QED
    BY <2>2, <2>3, <2>4 DEF NothingFreedInUse
<1> QED
  BY <1>1, HotplugInvariance, PTL

\* A callback misses nothing, whatever arrives and leaves between its entry into the
\* list, the snapshot of libusb_get_device_list and its calls by two threads at once: it
\* was told of every device whose arrival has been dispatched, if it enumerates, and of
\* the departure of every device it was told of.
THEOREM NothingMissed == HotplugSpec => []EventsReported
<1>1. HotplugInv => EventsReported
  <2> SUFFICES ASSUME HotplugInv, NEW c \in hotplug_cbs \ (needs_free \cup {registering}),
                      NEW d \in HotplugDevice
               PROVE  /\ c \in Enumerating /\ device[d] = "listed" /\ ~MessagePending("ARRIVED", d)
                           => d \in arrived[c]
                      /\ device[d] = "gone" /\ d \in arrived[c] /\ ~MessagePending("LEFT", d)
                           => d \in departed[c]
    BY DEF EventsReported
  <2>1. ASSUME NEW e \in {"ARRIVED", "LEFT"}, Awaits(c, [event |-> e, device |-> d])
        PROVE  MessagePending(e, d)
    <3>1. [event |-> e, device |-> d] # NoMessage
      BY DEF NoMessage
    <3> QED
      BY <2>1, <3>1 DEF Awaits, MessagePending, PendingMessages, ToSet
  <2>2. ASSUME c \in Enumerating, device[d] = "listed", ~MessagePending("ARRIVED", d)
        PROVE  d \in arrived[c]
    BY <2>1, <2>2 DEF HotplugInv, ArrivalsTold
  <2>3. ASSUME device[d] = "gone", d \in arrived[c], ~MessagePending("LEFT", d)
        PROVE  d \in departed[c]
    BY <2>1, <2>3 DEF HotplugInv, DeparturesTold
  <2> QED
    BY <2>2, <2>3
<1> QED
  BY <1>1, HotplugInvariance, PTL
=============================================================================
