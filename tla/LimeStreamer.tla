---------------------------- MODULE LimeStreamer ----------------------------
(***************************************************************************)
(* The streams of one LimeSuite chip (protocols/Streamer.cpp): two         *)
(* channels in two directions, one thread for each direction, and the FPGA *)
(* they stream with. SetupStream, Start, Stop and Close are calls of the   *)
(* program's thread; all but the first are UpdateThreads and a little      *)
(* more. What a thread does with the ring of a stream is LimeFifo's        *)
(* subject, here it is one step. "packed" link formats are left out.       *)
(***************************************************************************)
EXTENDS Naturals, FiniteSets

CONSTANT MaxStreamCalls   \* bound on the calls of the program

ASSUME StreamCallsAssumption == MaxStreamCalls \in Nat

Channel == 0..1
Direction == {"rx", "tx"}
Stream == Direction \X Channel

VARIABLES
  used, mActive,    \* the streams that are
  fifo,             \* the streams that have a ring
  shares,           \* shares[s]: how many channels the packets of its ring are cut for
  streamSize,
  fpga,             \* the channels the FPGA streams, 0 when it does not
  thread,           \* thread[dir]: where its thread is, "none" when not joinable
  at,               \* at[dir]: the channel it is at
  chCount,          \* chCount[dir]: the channels it takes a packet to be for
  terminate,        \* the directions whose terminate flag is set
  caller,           \* where the program's thread is
  op,               \* the stream of its call, and what follows UpdateThreads
  need,             \* UpdateThreads: the directions that need a thread
  stream_calls,
  disturbed         \* a stream was closed, or set up beside running threads, since
                    \* streamSize was last computed without threads

setupVars == <<used, mActive, fifo, shares, streamSize, disturbed>>
loopVars == <<at, chCount>>
callVars == <<op, need, stream_calls>>
streamerVars == <<setupVars, fpga, thread, loopVars, terminate, caller, callVars>>

StreamerInit ==
  /\ used = {} /\ mActive = {} /\ fifo = {}
  /\ shares = [s \in Stream |-> 1] /\ streamSize = 1 /\ disturbed = FALSE
  /\ fpga = 0
  /\ thread = [d \in Direction |-> "none"]
  /\ at = [d \in Direction |-> 0] /\ chCount = [d \in Direction |-> 1]
  /\ terminate = {}
  /\ caller = "idle" /\ op = [stream |-> <<"rx", 0>>, then |-> "idle"] /\ need = {}
  /\ stream_calls = 0

Joinable(d) == thread[d] # "none"
ChannelsOf(streams) == {s[2] : s \in streams}

\* The stream a thread works with; the model ends when its ring is deleted meanwhile.
At(d) == <<d, at[d]>>
RingGone == \E d \in Direction : thread[d] = "use" /\ At(d) \notin fifo
-----------------------------------------------------------------------------
(* ReceivePacketsLoop and TransmitPacketsLoop *)

\* The thread comes to run and reads streamSize.
ThreadBegins(d) ==
  /\ thread[d] = "begin"
  /\ chCount' = [chCount EXCEPT ![d] = streamSize]
  /\ thread' = [thread EXCEPT ![d] = "loop"]
  /\ UNCHANGED <<setupVars, fpga, at, terminate, caller, callVars>>

\* Data is there, or a second of waiting is over.
ThreadLoops(d) ==
  /\ thread[d] = "loop"
  /\ thread' = [thread EXCEPT ![d] = IF d \in terminate THEN "exited" ELSE "check"]
  /\ at' = [at EXCEPT ![d] = 0]
  /\ UNCHANGED <<setupVars, fpga, chCount, terminate, caller, callVars>>

NextChannel(d) ==
  IF at[d] = 1
  THEN thread' = [thread EXCEPT ![d] = "loop"] /\ UNCHANGED at
  ELSE thread' = [thread EXCEPT ![d] = "check"] /\ at' = [at EXCEPT ![d] = 1]

ThreadChecks(d) ==
  /\ thread[d] = "check"
  /\ IF At(d) \in used \cap mActive
     THEN thread' = [thread EXCEPT ![d] = "use"] /\ UNCHANGED at
     ELSE NextChannel(d)
  /\ UNCHANGED <<setupVars, fpga, chCount, terminate, caller, callVars>>

ThreadUses(d) ==
  /\ thread[d] = "use" /\ At(d) \in fifo
  /\ NextChannel(d)
  /\ UNCHANGED <<setupVars, fpga, chCount, terminate, caller, callVars>>
-----------------------------------------------------------------------------
(* Streamer::UpdateThreads *)

Needed(active) == {s[1] : s \in used \cap active}

UpdateThreads(directions, s, then) ==
  /\ need' = directions
  /\ op' = [stream |-> s, then |-> then]
  /\ caller' = "stop_tx"

Stopping == [tx |-> [stop |-> "stop_tx", join |-> "join_tx", next |-> "stop_rx"],
             rx |-> [stop |-> "stop_rx", join |-> "join_rx", next |-> "configure"]]

StopThread(d) ==
  LET stop == d \notin need /\ Joinable(d) IN
  /\ caller = Stopping[d].stop
  /\ terminate' = IF stop THEN terminate \cup {d} ELSE terminate
  /\ caller' = IF stop THEN Stopping[d].join ELSE Stopping[d].next
  /\ UNCHANGED <<setupVars, fpga, thread, loopVars, callVars>>

\* Mutant: the thread ends by itself in its own time.
JoinThreadDetached(d) ==
  /\ caller = Stopping[d].join
  /\ thread' = [thread EXCEPT ![d] = IF @ = "exited" THEN "none" ELSE @]
  /\ caller' = Stopping[d].next
  /\ UNCHANGED <<setupVars, fpga, loopVars, terminate, callVars>>

JoinThread(d) ==
  /\ caller = Stopping[d].join /\ thread[d] = "exited"
  /\ thread' = [thread EXCEPT ![d] = "none"]
  /\ caller' = Stopping[d].next
  /\ UNCHANGED <<setupVars, fpga, loopVars, terminate, callVars>>

\* Mutant of ResizeChannelBuffers: nothing is resized.
ResizeNothing == UNCHANGED shares

\* Streamer::ResizeChannelBuffers.
ResizeChannelBuffers ==
  shares' = [s \in Stream |-> IF s \in used \cap fifo THEN streamSize ELSE shares[s]]

\* The FPGA is configured on the first start, and stopped with the last stream.
Configure ==
  LET first == need # {} /\ \A d \in Direction : ~Joinable(d) IN
  /\ caller = "configure"
  /\ fpga' = CASE first     -> Cardinality(ChannelsOf(used))
               [] need = {} -> 0
               [] OTHER     -> fpga
  /\ IF first THEN ResizeChannelBuffers ELSE UNCHANGED shares
  /\ caller' = "start_rx"
  /\ UNCHANGED <<used, mActive, fifo, streamSize, disturbed, thread, loopVars, terminate,
                 callVars>>

StartThread(d) ==
  LET start == d \in need /\ ~Joinable(d) IN
  /\ caller = (IF d = "rx" THEN "start_rx" ELSE "start_tx")
  /\ terminate' = IF start THEN terminate \ {d} ELSE terminate
  /\ thread' = IF start THEN [thread EXCEPT ![d] = "begin"] ELSE thread
  /\ caller' = IF d = "rx" THEN "start_tx" ELSE op.then
  /\ UNCHANGED <<setupVars, fpga, loopVars, callVars>>
-----------------------------------------------------------------------------
(* The calls of the program *)

StreamCall ==
  /\ caller = "idle" /\ stream_calls < MaxStreamCalls
  /\ stream_calls' = stream_calls + 1

\* A channel that is used in neither direction is new: all threads are stopped.
SetupStream(s) ==
  LET new == s[2] \notin ChannelsOf(used) IN
  /\ StreamCall /\ s \notin used
  /\ IF new /\ \E d \in Direction : Joinable(d)
     THEN UpdateThreads({}, s, "setup")
     ELSE caller' = "setup" /\ op' = [stream |-> s, then |-> "idle"] /\ UNCHANGED need
  /\ UNCHANGED <<setupVars, fpga, thread, loopVars, terminate>>

\* StreamChannel::Setup cuts the ring for one channel, and streamSize follows.
SetUp ==
  /\ caller = "setup"
  /\ used' = used \cup {op.stream} /\ fifo' = fifo \cup {op.stream}
  /\ shares' = [shares EXCEPT ![op.stream] = 1]
  /\ streamSize' = Cardinality(ChannelsOf(used'))
  /\ disturbed' = (\E d \in Direction : Joinable(d))
  /\ caller' = "idle"
  /\ UNCHANGED <<mActive, fpga, thread, loopVars, terminate, callVars>>

\* StreamChannel::Start.
StartStream(s) ==
  /\ StreamCall /\ s \in used
  /\ mActive' = mActive \cup {s}
  /\ UpdateThreads(Needed(mActive'), s, "idle")
  /\ UNCHANGED <<used, fifo, shares, streamSize, disturbed, fpga, thread, loopVars, terminate>>

\* StreamChannel::Stop.
StopStream(s) ==
  /\ StreamCall /\ s \in used
  /\ mActive' = mActive \ {s}
  /\ UpdateThreads(Needed(mActive'), s, "idle")
  /\ UNCHANGED <<used, fifo, shares, streamSize, disturbed, fpga, thread, loopVars, terminate>>

\* StreamChannel::Close stops an active stream first.
CloseStream(s) ==
  /\ StreamCall /\ s \in used
  /\ mActive' = mActive \ {s}
  /\ IF s \in mActive
     THEN UpdateThreads(Needed(mActive'), s, "close")
     ELSE caller' = "close" /\ op' = [stream |-> s, then |-> "idle"] /\ UNCHANGED need
  /\ UNCHANGED <<used, fifo, shares, streamSize, disturbed, fpga, thread, loopVars, terminate>>

\* The ring is deleted; streamSize stays.
Closed ==
  /\ caller = "close"
  /\ fifo' = fifo \ {op.stream} /\ used' = used \ {op.stream}
  /\ disturbed' = TRUE
  /\ caller' = "idle"
  /\ UNCHANGED <<mActive, shares, streamSize, fpga, thread, loopVars, terminate, callVars>>
-----------------------------------------------------------------------------
StreamThreadStep(d) == ThreadBegins(d) \/ ThreadLoops(d) \/ ThreadChecks(d) \/ ThreadUses(d)

CallerStep ==
  \/ \E d \in Direction : StopThread(d) \/ JoinThread(d) \/ StartThread(d)
  \/ Configure \/ SetUp \/ Closed

StreamerNext ==
  /\ ~RingGone
  /\ \/ \E d \in Direction : StreamThreadStep(d)
     \/ CallerStep
     \/ \E s \in Stream : SetupStream(s) \/ StartStream(s) \/ StopStream(s) \/ CloseStream(s)

StreamerSpec == StreamerInit /\ [][StreamerNext]_streamerVars

\* The program makes no more calls.
StreamerOver ==
  \/ RingGone
  \/ caller = "idle" /\ stream_calls = MaxStreamCalls /\ \A d \in Direction : ~Joinable(d)

StreamerTypeOK ==
  /\ used \subseteq Stream /\ mActive \subseteq used /\ fifo \subseteq Stream
  /\ shares \in [Stream -> {1, 2}] /\ streamSize \in {1, 2} /\ fpga \in 0..2
  /\ thread \in [Direction -> {"none", "begin", "loop", "check", "use", "exited"}]
  /\ at \in [Direction -> Channel] /\ chCount \in [Direction -> {1, 2}]
  /\ terminate \subseteq Direction /\ need \subseteq Direction
  /\ op.stream \in Stream
-----------------------------------------------------------------------------
\* Close joins the thread of the direction before it deletes a ring, unless another
\* stream keeps the thread: only then may the thread lose a ring it is using.
RingDeletedBesideAnother ==
  \A d \in Direction : thread[d] = "use" /\ At(d) \notin fifo
    => \E s \in used \cap mActive : s[1] = d /\ s # At(d)

\* "at this point FPGA has to be already configured": a thread that has begun takes as
\* many channels to be in a packet as the FPGA puts there, and the rings it serves are
\* cut for as many.
ThreadsMatchFpga ==
  \A d \in Direction : thread[d] \in {"loop", "check", "use"} =>
    /\ chCount[d] = fpga
    /\ \A s \in used \cap mActive : s[1] = d => shares[s] = chCount[d]

\* The threads fit the streams, whatever is set up, started, stopped and closed in
\* whatever order.  (Threads are not set up anew for a stream set up beside them, and
\* streamSize outlives the streams that are closed: disturbed.)
ThreadsFitStreams ==
  /\ RingDeletedBesideAnother
  /\ ~disturbed => ThreadsMatchFpga
=============================================================================
