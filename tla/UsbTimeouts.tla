---------------------------- MODULE UsbTimeouts ----------------------------
(***************************************************************************)
(* The timeouts of transfers in libusb (io.c): the flying list, sorted by  *)
(* the time a transfer expires, the scan of that list that cancels what    *)
(* has expired, and the timer that wakes the event handler for it. Every   *)
(* action is what its function does while it holds flying_transfers_lock.  *)
(* What the cancellation does to a transfer is UsbTransfer's subject.      *)
(***************************************************************************)
EXTENDS Naturals, Sequences, SequencesExt, FiniteSetsExt

CONSTANTS
  FlyingTransfer,   \* the transfers of the context
  Durations,        \* the timeouts programs ask for; 0 stands for none
  MaxTime           \* bound on the clock

ASSUME DurationsAssumption == Durations \subseteq Nat /\ MaxTime \in Nat

VARIABLES
  now,           \* the monotonic clock
  timeout,       \* timeout[t]: when t expires, 0 when it never does
  flying,        \* ctx->flying_transfers
  handled,       \* the transfers with USBI_TRANSFER_TIMEOUT_HANDLED
  using_timer,   \* whether the context has a timerfd
  timer          \* when the timer goes off, 0 when it is disarmed

timeoutVars == <<now, timeout, flying, handled, using_timer, timer>>

Flying == ToSet(flying)
Timed(t) == timeout[t] # 0

TimeoutsInit ==
  /\ now = 0
  /\ timeout = [t \in FlyingTransfer |-> 0]
  /\ flying = <<>> /\ handled = {}
  /\ using_timer \in BOOLEAN /\ timer = 0

\* The next timeout nobody has handled, 0 when there is none: what the timer is
\* armed for, and without a timer what bounds the handler's poll.
NextTimeout(list, seen) ==
  LET stops == {i \in DOMAIN list : ~Timed(list[i]) \/ list[i] \notin seen}
  IN  IF stops = {} THEN 0 ELSE timeout[list[Min(stops)]]

InsertPositionAfterEndless(when) ==
  LET later == {i \in DOMAIN flying : timeout[flying[i]] > when}
  IN  IF when = 0 \/ later = {} THEN Len(flying) + 1 ELSE Min(later)

\* Where a transfer that expires at time when goes: last when it never does, otherwise
\* before the first transfer that never expires or expires later.
InsertPosition(when) ==
  LET later == {i \in DOMAIN flying : ~Timed(flying[i]) \/ timeout[flying[i]] > when}
  IN  IF when = 0 \/ later = {} THEN Len(flying) + 1 ELSE Min(later)

\* libusb_submit_transfer. When the timer cannot be armed the transfer leaves the list.
AddToFlyingList(t, duration) ==
  LET when     == IF duration = 0 THEN 0 ELSE now + duration
      position == InsertPosition(when)
      first    == position = 1 /\ when # 0 /\ using_timer
  IN  /\ t \notin Flying
      /\ when <= MaxTime
      /\ timeout' = [timeout EXCEPT ![t] = when]
      /\ handled' = handled \ {t}
      /\ \/ /\ flying' = InsertAt(flying, position, t)
            /\ timer' = IF first THEN when ELSE timer
         \/ first /\ UNCHANGED <<flying, timer>>
      /\ UNCHANGED <<now, using_timer>>

RemoveWithoutRearming(t) ==
  /\ t \in Flying
  /\ flying' = Remove(flying, t)
  /\ UNCHANGED <<now, timeout, handled, using_timer, timer>>

\* A transfer completes, or its submission failed.
RemoveFromFlyingList(t) ==
  /\ \E position \in DOMAIN flying :
       flying[position] = t /\ flying' = RemoveAt(flying, position)
  /\ timer' = IF using_timer /\ Timed(t) /\ Head(flying) = t
              THEN NextTimeout(flying', handled) ELSE timer
  /\ UNCHANGED <<now, timeout, handled, using_timer>>

ScannedEndlessToo ==
  LET stops(i) == flying[i] \notin handled /\ timeout[flying[i]] > now
  IN  {flying[i] : i \in {k \in DOMAIN flying : \A j \in 1..k : ~stops(j)}}

\* The transfers a scan cancels: it stops at the first that never expires or has not
\* expired and been handled yet.
Scanned ==
  LET stops(i) == \/ ~Timed(flying[i])
                  \/ flying[i] \notin handled /\ timeout[flying[i]] > now
  IN  {flying[i] : i \in {k \in DOMAIN flying : \A j \in 1..k : ~stops(j)}}

\* Without a timer: the poll timed out, or a timeout had already expired before it.
HandleTimeouts ==
  /\ ~using_timer
  /\ LET next == NextTimeout(flying, handled) IN next # 0 /\ next <= now
  /\ handled' = handled \cup Scanned
  /\ UNCHANGED <<now, timeout, flying, using_timer, timer>>

\* With a timer nothing but the timer causes a scan.
HandleTimerTrigger ==
  /\ using_timer /\ timer # 0 /\ timer <= now
  /\ handled' = handled \cup Scanned
  /\ timer' = NextTimeout(flying, handled')
  /\ UNCHANGED <<now, timeout, flying, using_timer>>

Tick ==
  /\ now < MaxTime /\ now' = now + 1
  /\ UNCHANGED <<timeout, flying, handled, using_timer, timer>>

TimeoutsNext ==
  \/ \E t \in FlyingTransfer, duration \in Durations : AddToFlyingList(t, duration)
  \/ \E t \in FlyingTransfer : RemoveFromFlyingList(t)
  \/ HandleTimeouts
  \/ HandleTimerTrigger
  \/ Tick

TimeoutsSpec == TimeoutsInit /\ [][TimeoutsNext]_timeoutVars

\* The handler keeps handling events, and what it cancelled completes (ExpiryCompletes
\* of UsbTransfer).
HandledCompletes(t) == t \in handled /\ RemoveFromFlyingList(t)

TimeoutsTypeOK ==
  /\ now \in 0..MaxTime /\ timer \in 0..MaxTime
  /\ timeout \in [FlyingTransfer -> 0..MaxTime]
  /\ flying \in Seq(FlyingTransfer)
  /\ handled \subseteq {t \in FlyingTransfer : Timed(t)}
  /\ using_timer \in BOOLEAN

-----------------------------------------------------------------------------
Pending == {t \in Flying : Timed(t) /\ t \notin handled}

\* The handler is woken in time: without a timer the first unhandled timeout of the
\* list is the earliest there is (libusb_get_next_timeout), and with one the timer goes
\* off no later than any of them, unless a handled transfer still heads the list, whose
\* removal arms it (add_to_flying_list arms it only for the head of the list).
NextTimeoutKnown ==
  IF using_timer
  THEN \A t \in Pending : \/ timer # 0 /\ timer <= timeout[t]
                          \/ Head(flying) \in handled
  ELSE /\ \A t \in Pending : NextTimeout(flying, handled) <= timeout[t]
       /\ Pending # {} => NextTimeout(flying, handled) # 0

\* A transfer with a timeout is cancelled for it if it does not complete before: none
\* is hidden from the scan behind transfers that outlive it (io.c: handle_timeouts_locked
\* stops early), and no timeout is left without a timer.
TimeoutsHandled ==
  \A t \in FlyingTransfer : t \in Pending ~> t \notin Pending
=============================================================================
