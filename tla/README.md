# TLA+ models of the Android SDR dependencies

The repository bundles the native libraries that SatDump needs on Android: a
Linux/Android libusb, the drivers of several software-defined radios built on
it (libairspy, libairspyhf, libhydrasdr, libhackrf, librtlsdr, LimeSuite) and
libiio with its own dependencies. Its difficult code is concurrent: libusb's
asynchronous transfers and event handling, and the streaming loops of the radio
drivers. This directory models that code, checks the models with TLC and proves
some of what they say with TLAPS.

## Inventory

| Part | State | Operations | What must hold |
|---|---|---|---|
| libusb asynchronous transfers (`io.c`, `os/linux_usbfs.c`) | per transfer: state and timeout flags, URB array, `num_retired`, `reap_action`; per context: the flying list; the kernel's URBs | submit, cancel, timeout scan, reap, completion and callback, disconnection | one callback per accepted submission, with a status that agrees with who cancelled; no URB array freed under the kernel; list and flags agree; no transfer left behind by a disconnection; locks in order |
| libusb event handling (`io.c`, `core.c`, `sync.c`, `os/events_posix.c`) | events lock, `event_handler_active`, waiters, `device_close`, event flags and the event pipe, event sources and poll's copy of them | `libusb_handle_events`, waiting for the handler, open, close, interrupt, synchronous transfers | one handler; no lost wakeup; the pipe agrees with the flags; poll watches what is registered; close gets the lock |
| libairspy streaming (`airspy.c`) | `streaming`, `stop_requested`, a ring of buffers with its indices and loss counts, two threads | start, stop, transfer callback, both thread loops | no buffer written while it is read; ring indices right; losses reported; stop returns and leaves no thread |
| libairspyhf, libhydrasdr streaming (`airspyhf.c`, `hydrasdr.c`) | as libairspy; airspyhf counts its live transfers, hydrasdr remembers which threads run | the same, with other rules for ending a stream | the same; the count is exact |
| libhackrf streaming (`hackrf.c`) | `do_exit`, `streaming`, `transfers_setup`, one thread, one libusb context for all devices | start, stop, close, callback, event loop | no transfer drops out unnoticed; nothing freed in use; close returns |
| librtlsdr asynchronous reading (`librtlsdr.c`) | `async_status`, `async_cancel`, `dev_lost`, error count | read, cancel (also from the callback), close, callback | a cancelled reading ends; close waits for it |
| libusb transfer timeouts (`io.c`) | the sorted flying list, the timer | insertion, removal, scan, the length of a poll | no timeout is missed; the timer is armed for the right one |
| libusb hotplug (`hotplug.c`, `core.c`, `linux_usbfs.c`) | device list and references, messages, callbacks | connect, disconnect, dispatch, register, enumerate, deregister | callbacks miss nothing; nothing freed in use; deregistered callbacks are freed |
| LimeSuite packet ring (`fifo.h`, `Streamer.cpp`) | a ring of packets with positions inside the first and the last | push and pop, of packets and of samples | order and time stamps survive overflow, timeouts and partial reads |
| LimeSuite streams (`Streamer.cpp`) | used and active streams, their rings, `streamSize`, a thread per direction with its terminate flag, the FPGA | set up, start, stop, close; `UpdateThreads`; the two packet loops | a ring is not deleted under a thread; threads, rings and FPGA agree on the channels in a packet |
| libiio clients | a lock per pipe, buffers | open, refill, cancel, close | lock order, cancellation |
| everything else | tuner registers, IQ filters and converters, parsers, generated filter design | sequential computation | not about interleavings |

How they interact: a driver's threads call libusb; libusb calls the driver back
from whichever thread handles events; threads and callbacks share the driver's
flags and ring. libusb gives the driver a contract (`TransferContract`), and the
driver model is built on that contract, which the model of libusb's transfers is
checked to implement.

The `hazards` of `PROJECT.json` name the lines where each part can go wrong and
the properties that watch them.

## Modules

| Module | Models |
|---|---|
| `TransferContract` | what libusb promises the owner of a transfer |
| `UsbTransfer` | one open device, its transfers of every type, the handler and the user threads |
| `UsbTimeouts` | the flying list, the scan for expired transfers, the timer |
| `UsbEvents` | who handles events, waiting, opening and closing devices |
| `UsbHotplug` | devices, messages and callbacks |
| `AirspyStream` | libairspy's streaming over `TransferContract` |
| `AirspyHfStream`, `HydrasdrStream` | its descendants: they extend `AirspyStream`, take over the actions whose code is the same and replace the others |
| `RadioUsb` | the part of libusb the next two stand on: `TransferContract`, the kernel's side, one event handler |
| `HackrfStream`, `RtlSdrAsync` | libhackrf and librtlsdr over `RadioUsb` |
| `LimeFifo` | LimeSuite's `RingFIFO` |
| `LimeStreamer` | the streams, threads and FPGA of one LimeSuite chip |
| `MCUsbTransfer`, `MCUsbEvents` | instances for TLC: model values and symmetry |
| `UsbTransferProofs`, `UsbEventsProofs`, `UsbTimeoutsProofs`, `UsbHotplugProofs` | TLAPS proofs about the modules of libusb |
| `AirspyStreamProofs`, `RadioProofs`, `LimeProofs`, `PartsProofs` | TLAPS proofs about `MCAirspyStream`, `MCRadios`, `LimeFifo` and `LimeStreamer`, `MCParts` |
| `MCAirspyStream`, `MCRadios`, `MCParts` | instances for TLC of several modules; the first state chooses one, the others rest, and properties of one hold vacuously in the others |

Each action is the code between two points at which the thread may block or
another thread can see what it did. A mutex held across several such points is a
variable; one taken and released within a step is the guard that nobody holds it.
`Goto(th, label)` moves a thread's control point, so `pc[th]` reads as "about to
execute". Definitions introduced by "Mutant:" are plausible wrong versions of the
definition that follows; no specification uses them. They show that each property
is sensitive to the code it is about.

### TransferContract

`active`, `wants`, `due`: a submission makes a transfer active; a cancel by the user
or by the timeout may be accepted once; the transfer is retired once, with an
outcome that `Agrees` with the accepted cancel, and then the callback is called.
`Agrees` lets an accepted cancel end in `ERROR` or `NO_DEVICE`, since
`handle_bulk_completion` reports these when a cancelled URB meets a bus error or
an unplugged device, and it never lets `CANCELLED` or `TIMED_OUT` answer a
transfer nobody cancelled.

### UsbTransfer

| Code | Definitions |
|---|---|
| `libusb_submit_transfer`, `submit_bulk_transfer` | `SubmitTransfer`, `SubmitLockFlying`, `SubmitBusy`, `SubmitAddFlying`, `AllocUrbs`, `AllocUrbsFails`, `SubmitUrb`, `SubmitFirstUrbFails`, `SubmitLaterUrbFails`, `SubmitSucceeds`, `SubmitUndo` |
| `libusb_cancel_transfer`, `op_cancel_transfer`, `discard_urbs` | `CancelTransfer`, `CancelNotFound`, `CancelInFlight`, `DiscardResult`, `Discarded` |
| `handle_timeouts`, `handle_timeouts_locked`, `handle_timeout` | `HandleTimeouts`, `TimeoutsLock`, `HandleTimeout`, `MarkTimedOut`, `TimeoutsUnlock` |
| `submit_control_transfer`, `submit_iso_transfer` | the same actions: `UrbsOf` makes a control transfer one URB, and `SubmitFirstUrbFails` and `SubmitLaterUrbFails` differ by type as the functions do |
| `reap_for_handle`, `handle_bulk_completion` | `Reap`, `HandleBulkCompletion`, `AbnormalReap`, `NormalReap`, `CancelRemaining`, `ReadReapAction` |
| `handle_iso_completion` | `HandleIsoCompletion`, `Conclude`, `IsoStatus` |
| `handle_control_completion` | `HandleControlCompletion`, `ControlStatus` |
| `usbi_handle_transfer_cancellation`, `usbi_handle_transfer_completion` | `HandleCancellation`, `RemoveFlying`, `ClearInFlight`, `InvokeCallback`, `CallbackReturns` |
| `op_handle_events` on POLLERR, `usbi_handle_disconnect` | `PollError`, `DrainDone`, `DisconnectLock`, `DisconnectFound`, `DisconnectDone`, `ClearTransferPriv` |

The kernel is external: `KernelCompletes`, `Discarded`, `Unplug`. URBs of a transfer
complete in order and only the last can overflow, as the comments of
`handle_bulk_completion` assume; an URB that ends early may take those behind it
along (`USBFS_URB_BULK_CONTINUATION`). `caps` is chosen at the start: whether the
kernel hands back URBs after the device left.

`type` gives each transfer its type; `Kinds` is the set of assignments a run starts
from. An isochronous transfer reports the status of the URB reaped last
(`IsoStatus`), a control transfer that of its only one.

Abstracted: the data and its length (an URB is full, short, discarded, or failed
in one of four ways), isochronous packets, the flying list's order and clock
arithmetic (a timeout is passed or not), which are `UsbTimeouts`'s.

### UsbTimeouts

Each action is what its function does under `flying_transfers_lock`:
`AddToFlyingList` (`add_to_flying_list`, with the place in `InsertPosition`; when
the timer cannot be armed the transfer leaves the list again),
`RemoveFromFlyingList`, `HandleTimeouts` (without a timer: `handle_timeouts` once
`libusb_get_next_timeout` says so), `HandleTimerTrigger` (with one). `Scanned` is
what a scan cancels, `NextTimeout` what the timer is armed for and what bounds the
poll. `using_timer` is chosen at the start: the build's `config.h` has no timerfd,
the code supports both.

### UsbEvents

| Code | Definitions |
|---|---|
| `libusb_handle_events_timeout_completed` | `TryLockEvents`, `EventsLockTaken`, `LockEvents`, `SetHandlerActive`, `DoOwnHandling`, `LockEventWaiters`, `CheckCompleted`, `CheckHandlerActive`, `WakeUp` |
| `libusb_unlock_events` | `ClearHandlerActive`, `UnlockEvents`, `Broadcast` |
| `handle_events`, `handle_event_trigger` | `RefreshEventData`, `RefreshFails`, `PollReturns`, `PollInterrupted`, `HandleEventTrigger`, `EndEventHandling` |
| `op_handle_events` | `OpHandleEvents`, `ReapTransfer`, `CallbackReturns`, `RemoveBroken`, `FinishBackend` |
| `libusb_open`, `libusb_close`, `do_close` | `OpenDevice`, `OpenBackend`, `OpenAddDevice`, `CloseDevice`, `CloseAnnounce`, `DoClose`, `CloseBackend`, `CloseDone` |
| event flags and pipe | `Signal`, `Clear`, `RemoveEventSource` |
| `sync_transfer_wait_for_completion` | `SyncTransfer`, `SyncLoop` |

A transfer is one bit here (the device has answered, the callback has run); its
inside is `UsbTransfer`. A device stands for its handle and its descriptor, so it
has one handle at a time. Devices are closed only with no transfer in flight. The
60 s after which `libusb_handle_events` looks again is left out, so a lost wakeup
shows as a hang.

### AirspyStream

`airspy_start_rx` is `StartRx` up to `CreateIo` (`create_io_threads`,
`prepare_transfers`), `airspy_stop_rx` is `StopRx` up to `Stopped`
(`kill_io_threads`, `cancel_transfers`), `airspy_libusb_transfer_callback` is
`CallbackCheck`, `CallbackQueue`, `CallbackSubmit`, `transfer_threadproc` is `IoLoop`,
`IoEventsDone`, and `consumer_threadproc` is the seven `Consumer` actions. Both
calls make control transfers, and a control transfer handles events, so callbacks
may run in the program's thread (`MainHandlesEvents`). Blocks carry numbers, as
history, to say which were lost. `stop_requested` and `streaming` are `volatile`
and read without a lock, as in the code.

### AirspyHfStream and HydrasdrStream

Both repeat libairspy's ring, consumer and start, so they extend `AirspyStream` and
reuse its actions. `AirspyHfStream` adds `transfer_live` (`Counted`): the callback
counts its transfer out before it looks at it (`HfCallbackCheck`) and in again after
the resubmission (`HfCallbackSubmit`, `HfCallbackCount`), `cancel_transfers` handles
events while transfers are live, at most once per transfer (`HfDrain`, `HfDrained`),
and `airspyhf_stop` does nothing for a stream that is not streaming. In
`HydrasdrStream` the threads and the callback end a stream by clearing `streaming`;
`hydrasdr_stop_rx` sets `stop_requested`, clears it again and only then clears
`streaming` (`HydraClearRequest`, `HydraClearStreaming`), and joins the threads it
finds running (`created`).

In both, a stream that ended by itself and was not stopped keeps its threads, and
a start over them makes a second pair. The models reach that state (label
`doubled`) and stop there.

### RadioUsb, HackrfStream, RtlSdrAsync

`RadioUsb` has the transfers (`Submit`, `SubmitFails`, `Cancel`, `Reap`), the kernel's
side (`KernelCompletes`, `Unplug`) and one event handler at a time (`TakeEvents`,
`OneHandler` of `UsbEvents`). Control transfers handle events too, so a callback may
run in the program's thread.

| Code | Definitions |
|---|---|
| `transfer_threadproc` of this device, and of another on `g_libusb_context` | `HackrfThreadHandles`, `HackrfThreadHandled`, `HackrfThreadExits` |
| `hackrf_libusb_transfer_callback` | `HackrfCallbackCheck`, `HackrfProgramReturns`, `HackrfResubmit` |
| `hackrf_start_rx`, `prepare_setup_transfers`, `prepare_transfers` | `HackrfStart`, `HackrfControlDone`, `HackrfPrepare`, `HackrfPrepareTransfer`, `HackrfPrepared`, `HackrfStarted` |
| `hackrf_stop_rx`, `cancel_transfers` | `HackrfStop`, `HackrfCancelTransfer`, `HackrfCancelled` |
| `hackrf_close`, `kill_transfer_thread`, `request_exit`, `free_transfers` | `HackrfClose`, `HackrfKill`, `HackrfRequestExit`, `HackrfJoin`, `HackrfUsbClose`, `HackrfFree` |
| `rtlsdr_read_async` | `RtlReadAsync`, `RtlSubmit`, `RtlLoop`, `RtlEventsDone`, `RtlCheck`, `RtlCancelTransfer`, `RtlHandleReady`, `RtlHandledReady`, `RtlPassEnds`, `RtlFree`, `RtlReadReturns` |
| `_libusb_callback` | `RtlCallbackCheck`, `LosesDevice`, `RtlResubmit`, `RtlCallbackCancelStep`, `RtlCallbackReturns` |
| `rtlsdr_cancel_async` | `RtlCancelAsync`, `RtlMainCancels`, `RtlCallbackCancels` |
| `rtlsdr_close` | `RtlClose`, `RtlCloseWaits`, `RtlCloseWaited`, `RtlUsbClose` |

### UsbHotplug

| Code | Definitions |
|---|---|
| `linux_enumerate_device`, `linux_device_disconnected`, `usbi_hotplug_notification` | `ConnectDevice`, `DisconnectDevice`, `HotplugNotification` |
| `handle_event_trigger` | `HandleEventTrigger` |
| `usbi_hotplug_process` | `HotplugProcess`, `SkipCallback`, `CallCallback`, `CallbackReturned`, `MessageDone`, `FreeDeregistered` |
| `libusb_hotplug_register_callback`, `libusb_get_device_list`, `libusb_free_device_list` | `RegisterCallback`, `GetDeviceList`, `EnumerateDevice`, `FreeDeviceList`, `EnumerationFails` |
| `libusb_hotplug_deregister_callback` | `MarkCallback`, `DeregisterCallback`, `CallbackDeregistered` |

The list of callbacks is a set ordered by `handle`: `libusb_hotplug_register_callback` adds
the new one at the head under the next handle, so the walk goes from the newest to the
oldest (`FirstCallback`, `CallbackAfter`, `NewestOf`). That handles start again after 2^31
registrations is left out. A device plugged in again is another device. Callbacks match every device and both
events. A callback may deregister callbacks and, when it does not enumerate, return
1 to be freed (`CallbackAssumption`, see below).

### LimeFifo

Each action is what a method does between taking and releasing the lock:
`PushPacket` and `ReceivePacket` (`push_packet` in `ReceivePacketsLoop`), `PopSamples`,
`PopWakes`, `PopTimesOut` (`pop_samples`), `PushSamples`, `PushChunk`, `PushWaits`,
`PushWakes`, `PushTimesOut`, `PushDone` (`push_samples`), `PopPacket` (`pop_packet`).
A sample is its number on the stream's clock and whether it ends a burst. `Contents` is
what a reader has left in the ring, by position; what is received comes in full packets. A
transmitting program leaves gaps in time only between packets, since a push that
continues a partly filled packet stamps the packet anew (`fifo.h:104`).

### LimeStreamer

| Code | Definitions |
|---|---|
| `Streamer::SetupStream`, `StreamChannel::Setup` | `SetupStream`, `SetUp` |
| `StreamChannel::Start`, `Stop`, `Close` | `StartStream`, `StopStream`, `CloseStream`, `Closed` |
| `Streamer::UpdateThreads` | `Needed`, `UpdateThreads`, then per direction `StopThread`, `JoinThread`, then `Configure` (with `ResizeChannelBuffers`), then `StartThread` |
| `ReceivePacketsLoop`, `TransmitPacketsLoop` | `ThreadBegins`, `ThreadLoops`, `ThreadChecks`, `ThreadUses` |

One thread of the program makes the calls. What counts of a ring is whether it
exists and how many channels its packets are cut for (`shares`); of the FPGA, how
many channels it streams. A thread reads `streamSize` once, when it begins
(`chCount`), and looks at `used` and `mActive` of a channel before it uses its ring,
without a lock.

## What the models show and no property claims

These behaviours of the code are in the models, and no property says otherwise. The
third is at odds with `libusb_free_transfer`'s documentation as finding 3 is:

- A hackrf transfer resubmitted after `cancel_transfers` has gone by stays in flight
  after `hackrf_stop_rx`; a `hackrf_start_rx` that comes then is refused halfway.
  `hackrf_close` copes (`FreedIsUnused`).
- `rtlsdr_cancel_async` may write `CANCELING` after `rtlsdr_read_async` has returned;
  `rtlsdr_close` then waits for ever (`RtlCloseWaits`).
- `rtlsdr_read_async` takes a refused cancel for a finished transfer. When another
  thread's control transfer runs the callback at that moment, which resubmits, the
  transfer is freed in flight (label `freed in use`).
- `rtlsdr_close` of a lost device does not wait for the reading (the exception in
  `CloseAfterReading`).
- An airspyhf or hydrasdr stream that failed keeps its threads (label `doubled`).
- `airspy_start_rx` of a running stream clears its loss counters before it finds out
  (the exception in `LossesReported`).
- A hotplug callback may hear of an arrival twice, or after the departure: it is
  listed before it enumerates. One that returns 1 while its registration still
  enumerates would be freed in use; `CallbackAssumption` leaves that out.
- Without a timer the poll does not know of timeouts submitted while it waits, and
  they come up to 60 s late.
- `StreamChannel::Close` deletes a ring once `UpdateThreads` is done, but that leaves a
  thread running that serves another stream, and it may be using the ring (the
  exception in `RingDeletedBesideAnother`; the model ends there, `RingGone`).
- `streamSize` is not computed anew when a stream is closed, and threads that run
  are not told when a stream is set up beside them. The threads then take another
  number of channels to be in a packet than the FPGA puts there (`disturbed`, the
  exception in `ThreadsFitStreams`): after setting up channels 0 and 1, closing one
  and starting the other, the FPGA streams one channel and the thread unpacks two.

## Runs

Deadlock is checked in every run but `UsbEventsSafe`.

| Run | Instance | Shows |
|---|---|---|
| `UsbTransferUrbs` | 1 transfer of any type, of 2 URBs unless control, timed; 2 users and the handler; 3 calls | the URBs' bookkeeping and the refinement of `TransferContract`. Two URBs are the least that have a first, a last and a refused later one; three calls allow submit, cancel and resubmit, or two cancels racing |
| `UsbTransferPair` | a timed bulk and a control transfer of 1 URB each; 1 user; 3 calls | what transfers share: flying list, locks, references, the scans of the list |
| `UsbTransferLive` | 1 bulk or isochronous transfer of 2 URBs; 1 user; 2 calls, fair | cancel, timeout and unplug each lead to the callback |
| `UsbEventsSafe` | 3 threads, 2 devices, 5 calls; callbacks may close and handle events | one handler, pipe, close counter, poll set. Three threads are a handler, a waiter and a closer, or two closers and a handler. Such callbacks may block their own thread (the two runs below), hence no deadlock check |
| `UsbEventsLive` | 2 threads, 2 devices, 4 calls; callbacks do neither; fair | no lost wakeup, no deadlock; answered synchronous transfers and closes return |
| `UsbEventsCallbackClose` | 2 threads, callbacks close | finding 1 |
| `UsbEventsNested` | 2 threads, callbacks handle events | finding 2 |
| `AirspySafe` | airspy, airspyhf, hydrasdr; 2 transfers, ring of 2, 3 blocks, 2 calls, failures | buffers, and airspyhf's count. Three blocks overflow the ring of two |
| `AirspyFailing` | the same drivers; 1 transfer, ring of 2, 4 blocks, 3 calls, failures; fair | ring and losses over start, stop, start; stop returns and joins; queued blocks arrive |
| `AirspyStopped` | airspy, 2 transfers, 2 blocks, 2 calls | finding 3 |
| `Radios` | hackrf and rtl-sdr; 2 transfers, 1 block, 3 calls, failures, unplug; fair | a hackrf stream never shrinks silently, nothing is freed in use, `hackrf_close` returns, a cancelled or lost rtl-sdr reading ends, `rtlsdr_close` waits for it. With two transfers one can be cancelled while the other's callback runs; three calls allow start, stop, start before a close, which is not counted |
| `Parts` | `UsbTimeouts`: 3 transfers, timeouts 0 to 2, 4 ticks. `UsbHotplug`: 2 devices, an enumerating and a one-shot callback. `LimeFifo`: ring of 2 packets of 2, pushes and pops of up to 3 samples, 8 in all. `LimeStreamer`: 2 channels, 2 directions, 5 calls. Fair | timeouts are handled, the timer knows the next; callbacks miss nothing, nothing is freed in use, deregistered ones are freed; the ring keeps order and time; threads, rings and FPGA fit the streams. Three transfers put an endless and a handled one before a pending one; eight samples overflow the ring of four while a packet is half read; five calls set up two streams, start both and close one, or stop and start again |

Symmetry is used only in runs without liveness properties, over threads or
devices that the module treats alike.

**Bounds.** `MaxCalls` bounds the calls of the program (and, in `UsbEvents`,
`RefreshFails` and `PollInterrupted`, which would otherwise repeat for ever);
`MaxBlocks` the blocks a radio delivers; `MaxTime` the clock of `UsbTimeouts` and
`MaxSamples` that of `LimeFifo`; `MaxStreamCalls` the calls on LimeSuite's streams. They are the only bounds; every step inside a
call, of the kernel or of a callback is unbounded.

**Fairness.** `UsbTransfer`: each thread finishes the call it is in
(`ThreadStep`), the program keeps a thread in `libusb_handle_events` and its
callbacks return (`HandlerStep`), and poll's timeout wakes the handler
(`HandleTimeouts(Handler)`: poll() waits 60 s at most, and the build's `config.h`
has no timerfd that would wake it at the very moment). The
kernel and the program's calls get no fairness: a pending URB may stay pending
for ever, so `CancelCompletes` rests on the discard alone. `UsbEvents`: every
thread keeps running; mutexes are weakly fair, which is enough because the close
is kept from starvation by `device_close` and not by the mutex, and nothing is
assumed of the devices. `AirspyStream`: the threads run, events are handled where
the code handles them, and the program's callback returns. `Radios` assumes the
same; the step that gets `libusb_close` the events lock is strongly fair, because
`device_close` makes handlers stand back (`CloseReturns` of `UsbEvents`). `Parts`:
time passes, the handler handles events (its poll ends after 60 s, or when the timer
goes off), what it cancelled completes (`ExpiryCompletes` of `UsbTransfer`), and the
program's calls return; devices and packets may stay away for ever.

## Findings

1. **`UsbEventsCallbackClose`**: `libusb_close` bypasses the event lock when it is
   called by the event handler, "because we already hold the event handling lock"
   (`core.c:1465`), but `do_close` takes `open_devs_lock`, a plain mutex
   (`core.c:1427`) that `op_handle_events` holds while it runs the callbacks
   (`linux_usbfs.c:2922`). Called from a transfer callback it never returns.
2. **`UsbEventsNested`**: the test that should "prevent attempts to recursively
   handle events" (`io.c:2179`) sits behind `libusb_try_lock_events`, which fails
   for the thread that holds the lock already, so the nested call waits for the
   handler, itself, until its timeout (`io.c:2333`).
3. **`AirspyStopped`**: a callback that has passed its test of `stop_requested`
   resubmits its transfer (`airspy.c:477`) after `cancel_transfers` has gone by.
   `airspy_stop_rx` returns with the transfer active, and `airspy_set_packing` or
   `airspy_close` then free it, against `libusb_free_transfer`'s documentation
   (`io.c:1327`).

## Proofs

Every safety property that a passing run checks is also a theorem, for every value of
the constants and without a bound on behaviours. The theorems are in eight modules:

| Module | Specification | Theorems, with the property of the runs they state |
|---|---|---|
| `UsbTransferProofs` | `Spec` | `TypeCorrect` (`TypeOK`), `LocksOrdered` (`LocksInOrder`), `FlyingAgrees` (`FlyingMatchesFlags`), `UrbsOutlive` (`UrbsOutliveKernel`), `UrbsCounted` (`EveryUrbCounted`), `ReferencesCounted` (`DeviceReferenced`), `NoneStranded` (`NeverStranded`), `KeepsContract` (`ImplementsContract`) |
| `UsbEventsProofs` | `Spec` | `TypeCorrect` (`TypeOK`), `OneHandlerAtATime` (`OneHandler`), `PipeInStep` (`PipeMatchesFlags`), `CloseFlagCounts` (`CloseFlagCountsClosers`), `PollWatches` (`PollWatchesDevices`), `SleepersAreWoken` (`SleeperHasWaker`) |
| `AirspyStreamProofs` | `MCSpec` of `MCAirspyStream`, all three drivers | `TypeCorrect` (`TypeOK`), `BufferKept` (`BufferNotOverwritten`), `RingKept` (`RingConsistent`), `LossesTold` (`LossesReported`), `StreamsEnd` (`NoThreadOutlivesStream`), `LiveKept` (`TransfersCounted`) |
| `RadioProofs` | `MCSpec` of `MCRadios`, both drivers | `DropoutsTold` (`NoSilentDropout`), `FreedUnused` (`FreedIsUnused`), `ClosedAfterReading` (`CloseAfterReading`) |
| `UsbTimeoutsProofs` | `TimeoutsSpec` | `TimeoutKnown` (`NextTimeoutKnown`) |
| `UsbHotplugProofs` | `HotplugSpec` | `NothingFreed` (`NothingFreedInUse`), `NothingMissed` (`EventsReported`) |
| `LimeProofs` | `FifoSpec`, `StreamerSpec` | `OrderKept` (`FifoInOrder`), `RunningThreadsFit` (`ThreadsFitStreams`) |
| `PartsProofs` | `MCSpec` of `MCParts` | `PartsTypeCorrect` (`PartsTypeOK`), `PartsRun`, `PartsCorrect` |

Each module states one inductive invariant (`IInv`, `RadioInv`, `TimeoutsInv`,
`HotplugInv`, `FifoInv`, `StreamerInv`), whose parts are named for what they say. The
`...Step` lemmas go through the actions for one part each, and the theorems follow from
the invariant. TLC checked every invariant as well, on the runs' instances or larger ones:

| Invariant | Instance | States |
|---|---|---|
| `UsbTransferProofs`' `IInv` | those of `UsbTransferUrbs` and `UsbTransferPair` | 1,251,716 and 632,502 |
| `UsbEventsProofs`' `IInv` | that of `UsbEventsSafe` | 861,656 |
| `AirspyStreamProofs`' `IInv` | that of `AirspySafe`; also that of `AirspyFailing` | 4,966,384 |
| `RadioInv` | that of `Radios` | 455,781 |
| `HotplugInv` | 2 devices, 3 callbacks of which one enumerates and one is one-shot | 16,358,446 |
| `TimeoutsInv` | 3 transfers, timeouts 0 to 3, 6 ticks | 136,979 |
| `FifoInv` | ring of 3 packets of 3, pops and pushes of up to 5, 16 samples | 2,592,783 |
| `StreamerInv` | 7 calls | 458,731 |
| `WakerInv` of `UsbEventsProofs` | 2 threads, callbacks that close | 101,535 |

**Assumptions.** The theorems assume what the models' `ASSUME`s say and TLC evaluates:
threads and devices are finite where something is counted, `NoOne` and `NoCallback` are
outside their sets, a ring has at least one packet and a packet one sample, and the
like. Two restrict the program. `CallbackAssumption` of `UsbHotplug` is explained below
its table. `SleepersAreWoken` assumes that callbacks do not handle events: one that does
waits for its own thread, as finding 2 shows, and then nobody is there to wake others.

### UsbTransferProofs

- `LockInv`: who holds which lock at which label (`LocksHeld`), that a call returns to
  where it was made (`CallsReturn`) and that one thread at a time submits a transfer
  (`OneSubmitter`). `LocksInOrder` is a consequence.
- `FlyingInv`: `FlyingMatchesFlags` holds only because a transfer that is being submitted
  or completed is known to one thread (`SubmissionHasTransfer`, `HandlerFinishes`), and
  the URB array belongs to whoever that is (`ArrayOwned`).
- `UrbInv`: every URB is with the kernel, in the hand of the handler or counted in
  `num_retired` (`EveryUrbCounted`, `UrbsInKernel`, `UrbInHand`, `FillingCounts`), and
  something is left to come while a transfer flies (`SomeUrbLeft`). A control transfer
  does not count (`ControlNotCounted`), and a disconnected device has no URBs
  (`Disconnected`). `NeverStranded` follows: `SomethingCompletes` says what will.
- `CancelInv` relates `reap_action` and the cancelling flags to the contract: who cancels
  finds the transfer flying (`ScanSeesFlying`) and leaves traces that the completion
  reports (`CancelLeavesTraces`, `FinalAgrees`), and an URB that failed is not taken for a
  cancelled one (`FailedNotCancelled`).
- `KeepsContract` is the refinement: `Init` maps to `Init` of `TransferContract`, and every
  step to one of its steps or to none. `CancelInv` is what the step to a retired transfer
  needs, since the contract allows `CANCELLED` only after an accepted cancel.

### UsbEventsProofs

- `LockOwner` says that a thread at the labels of `HoldsEvents` owns the events
  lock, and so does one whose `handling` is set, wherever its callback has taken it.
  That needs `HandlingWhere`, which confines such a thread to labels where it does
  not release the lock, and `SleepersWait`, without which the broadcast could move
  a thread that is not asleep. `OneHandler` is a consequence of `LockOwner`.
- `CloseFlagCountsClosers` counts `Closers`, the threads inside `libusb_close` other
  than from a callback. `ClosersStep` shows that only `CloseAnnounce` and `CloseDone`
  change the set, and `CountStep` that each changes it and the counter by one. That the
  counter stays a number is the part of `TypeCorrect` that is not routine: it is an
  unsigned counter that is decremented.
- `PipeMatchesFlags` rests on that count: the second thread to close adds no flag
  and writes no byte, which is right only because `DEVICE_CLOSE` is set by then.
  `SignalKeepsFlags`, `ClearKeepsFlags` and `RemoveKeepsFlags` do the rest, one lemma
  per helper of the code.
- `SourcesTracked` is `PollWatchesDevices` said of every moment, not only of those
  at which a thread is in poll().
- `WakerInv` gives `SleeperHasWaker`: `event_handler_active` is set only while a thread is
  on its way through the event handling (`ActiveHasHandler`), and that thread passes the
  broadcast, since its callbacks do not leave the path (`CallbackHandles`).

### AirspyStreamProofs

`Step` splits `MCNext` into the actions that the drivers share and those of one of them, so
that one proof covers libairspy and its descendants. `ThreadInv` says which threads exist
at which label of start and stop, and that a callback runs where events are handled;
`RingInv` that each buffer is in one place, queued, in use or free (`EachBufferOnce`,
`UsingBeforeTail`); `AccountInv` that the blocks which arrived are queued, consumed or
counted as lost (`AccountKept`, `LossesQueued`). `Wraps` does the arithmetic of the ring.
The first invariant was not inductive: it needed that libairspy's `streaming` is set while
it creates its threads, as otherwise a callback could end between the two.

### RadioProofs

For hackrf, that a transfer which is not in flight has been reported, by `streaming` or
`do_exit`, is inductive only together with what start and stop still have ahead of them:
a transfer that stays in flight is not about to come back `CANCELLED`, and nothing is
prepared before the first transfer is. For rtl-sdr, `async_status` is `INACTIVE` only
outside `rtlsdr_read_async`, whoever cancels.

### UsbTimeoutsProofs

`Sorted`, `NoneTwice` and `TimerEarly`. The code looks at the head of the list only, so
`NextTimeoutKnown` needs the list sorted, with the transfers that never expire last;
`InsertFacts` and `RemoveFacts` say what the insertion and the removal do to a sorted list.
`TimerEarly` excuses the timer when the head is a transfer that was handled and is still
to complete, since its removal arms the timer anew.

### UsbHotplugProofs

- `NothingFreedInUse`: queued messages and snapshots hold references (`ReferencesHeld`),
  and what a thread remembers across a callback is in the list (`HandlerHolds`,
  `RegistrationHolds`). `next_cb` is remembered before the callback runs, and stays since
  only the dispatching thread frees.
- `EventsReported`: `MessageOrder` keeps the arrival of a device before its departure, in
  the messages that are left; `ArrivalsTold` and `DeparturesTold` say for every device
  and callback which of the message, the enumeration or the call in progress will tell
  it. No two callbacks have the same handle (`HandlesDiffer`),
  so the walk through the list neither skips one nor comes back to it.

### LimeProofs

- The ring: `Divides`, `MorePackets`, `InPackets` and `Rising` relate a position counted in
  samples to its packet and the place in it, `Wraps`, `WrapsTwice` and `SlotsDiffer` the
  packet to its slot. `PacketsInOrder` says that packets follow each other in time,
  `PoppedInOrder` that what was popped comes before what is left, `LossesCounted` that an
  overflow loses what was left of the oldest packet, at least one sample and at most a
  packet. A pop then moves the position by what it takes (`PopTakes`), an overflow to the
  start of the next packet (`PushMoves`). For a transmit stream, `FillingFollows` says that
  the packet being filled ends at the stream's clock, which makes the time stamp the
  chunk writes (`timestamp + samplesTaken - mLast`) the one it had.
- The streams: `StreamerInv` says what `UpdateThreads` has settled at each of its steps
  (`ThreadsNeeded`, `Configured`).

### PartsProofs

Every behaviour of `MCParts` is one of each of its modules (`PartsRun`), so what is proved
of the modules holds of what the run checks.

**Left to TLC.** Every liveness property (`CancelCompletes`, `ExpiryCompletes`,
`UnplugCompletes`, `SyncReturns`, `CloseReturns`, `StopReturns`, `BlocksConsumed`,
`HackrfCloseReturns`, `ReadingEnds`, `TimeoutsHandled`, `DeregisteredFreed`), since the
prover has neither ENABLED nor fairness, and that no state is a deadlock; and the three
violated properties, which have counterexamples instead. The specifications use no
recursive operator. Three definitions were given the form they have so that they can be
reasoned about: the hotplug callbacks are a set ordered by handle, `RemoveFromFlyingList`
removes at a position, and `Contents` is a function of positions.

## Not modelled, and why

- Transferred data: how `handle_bulk_completion` closes the holes of cancelled URBs,
  and isochronous packets. The models keep what decides status and lifetime.
- Allocation of bulk streams; `libusb_close` with transfers in flight (`core.c:1416`),
  except that a closed device of `RadioUsb` forgets them; `libusb_init` and
  `libusb_exit`; pollfd notifiers.
- The netlink socket and the JNI calls, which are where `ConnectDevice` and
  `DisconnectDevice` come from; running out of memory.
- The radios' control transfers for gain, frequency, sweeps and the like: sequential,
  one request each. They appear as what handles events in the program's thread.
- Of LimeSuite's streaming: sample formats, counts and rates of lost packets, channel
  alignment, and two program threads that call `UpdateThreads` at once.
- libiio's clients and buffers: not yet.
- Register arithmetic of the tuners and the chip control, which is sequential; the IQ
  converters and balancers, floating-point filters that TLC cannot evaluate; the
  parsers, libxml2, libini and the generated filter designer. These are most of the
  repository's lines, and so the modelled part is a small share of them.

## Plan

Proofs: that no state is a deadlock, stated without ENABLED as a disjunction of the
actions' guards, for `UsbEvents` without the calls of findings 1 and 2 (each thread waits
for a lock whose owner can go on, or has a waker) and for `UsbTransfer` (from
`LocksInOrder`); the steps of the liveness arguments that need no fairness, such as that
an accepted cancel leaves only URBs the kernel hands back.

Models: `do_close` with flying transfers over `UsbTransfer`'s states; the reassembly of
bulk data against concatenation; the pipes of libiio;
`libusb_exit`.
