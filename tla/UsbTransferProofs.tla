------------------------- MODULE UsbTransferProofs -------------------------
(***************************************************************************)
(* Proofs about UsbTransfer, for any transfers of any types, any number of *)
(* URBs and of user threads.                                               *)
(*                                                                         *)
(* One inductive invariant, IInv, carries all of them.  Its parts follow a *)
(* transfer: who holds which lock, what a submission has done so far,      *)
(* where each URB is, what the handler has to finish, and what a cancel    *)
(* has left behind for the callback to be told.                            *)
(***************************************************************************)
EXTENDS UsbTransfer, FiniteSetTheorems, TLAPS

\* The labels of a submission that has put its transfer on the flying list, and of
\* one that has an array of URBs.
Added == {"alloc_urbs", "submit_urbs", "submit_ok", "submit_undo"}
Filling == {"submit_urbs", "submit_ok"}

\* The labels at which the handler finishes a transfer whose URBs are all in.
Finishing == {"completed", "cancellation", "remove_flying", "clear_in_flight"}

UserLabel == Submitting \cup {"idle", "cancel", "timeouts", "scan_timeouts",
                              "mark_timed_out"}

\* Where a call returns to: a user thread has no callback to return to, the handler
\* submits from a callback only.
CallsReturn ==
  /\ \A th \in User : pc[th] \in UserLabel /\ back[th] # "callback"
  /\ \A th \in Thread : pc[th] \in Submitting => back[th] # "scan_timeouts"
  /\ \A th \in Thread : pc[th] = "mark_timed_out" => back[th] = "scan_timeouts"
  /\ pc[Handler] \in Submitting \cup {"cancel"} => back[Handler] # "idle"

\* Who holds the locks, told from where the threads are.
HoldsFlying(th) ==
  \/ pc[th] \in {"submit_locked", "scan_timeouts", "mark_timed_out", "scan_flying"}
  \/ pc[th] = "cancel" /\ back[th] = "scan_timeouts"

HoldsTransfer(th, t) == cur[th] = t /\ pc[th] \in {"alloc_urbs", "submit_urbs", "submit_ok"}

LocksHeld ==
  \A th \in Thread :
    /\ flying_lock = th <=> HoldsFlying(th)
    /\ \A t \in Transfer : transfer_lock[t] = th <=> HoldsTransfer(th, t)

OneSubmitter ==
  \A th, other \in Thread :
    pc[th] \in Submitting /\ pc[other] \in Submitting /\ cur[th] = cur[other] => th = other

\* While it is submitted a transfer is on the list and not in flight; it has its URBs
\* only while they are being filled, and nothing is left of its last submission.
SubmissionHasTransfer ==
  \A th \in Thread :
    /\ pc[th] \in Added =>
         cur[th] \in flying /\ ~InFlight(cur[th]) /\ "TIMED_OUT" \notin timeout_flags[cur[th]]
    /\ pc[th] \in Added \ Filling => ~has_urbs[cur[th]]
    /\ pc[th] \in Filling => has_urbs[cur[th]]
    /\ pc[th] = "submit_urbs" => reap_action[cur[th]] = "NORMAL"
    /\ pc[th] = "submit_ok" => reap_action[cur[th]] # "CANCELLED"

\* An array of URBs belongs to a transfer in flight or to its submission, and a
\* transfer in flight has one until the handler finishes it.
ArrayOwned ==
  \A t \in Transfer :
    /\ has_urbs[t] => \/ InFlight(t)
                      \/ \E th \in Thread : cur[th] = t /\ pc[th] \in Filling
    /\ InFlight(t) /\ ~has_urbs[t] => cur[Handler] = t /\ pc[Handler] \in Finishing

\* What the handler is finishing is in flight, without URBs, and leaves the list on
\* the way; what it takes from a scan of the list is on it.
HandlerFinishes ==
  /\ pc[Handler] \in Finishing => InFlight(cur[Handler]) /\ ~has_urbs[cur[Handler]]
  /\ pc[Handler] \in Finishing \ {"clear_in_flight"} => cur[Handler] \in flying
  /\ pc[Handler] = "clear_in_flight" => cur[Handler] \notin flying
  /\ pc[Handler] = "clear_priv" => InFlight(cur[Handler]) /\ cur[Handler] \in flying
-----------------------------------------------------------------------------
\* The URB of t that the handler has reaped and not yet counted.
InHand(t) == pc[Handler] = "reaped" /\ cur[Handler] = t
Filled(t) == \E th \in Thread : cur[th] = t /\ pc[th] = "submit_urbs"

\* The URBs of t that are out: in the kernel or in the handler's hands.
UrbsOut(t) == Cardinality(InKernel(t)) + (IF InHand(t) THEN 1 ELSE 0)

\* While thread th submits URBs, those before the next one are out, and none is
\* retired.  (What the kernel kept of a transfer when it lost the device and hands back
\* no more does not count.)
FillingCount(th) ==
  /\ idx[th] <= UrbsOf(cur[th])
  /\ num_retired[cur[th]] = 0
  /\ InHand(cur[th]) => reaped.index < idx[th]
  /\ Reapable \/ idx[th] > 1 =>
       InKernel(cur[th]) \subseteq 1..(idx[th] - 1) /\ UrbsOut(cur[th]) = idx[th] - 1

FillingCounts == \A th \in Thread : pc[th] = "submit_urbs" => FillingCount(th)

\* The array is freed with the last URB: one that is there has URBs to wait for.
SomeUrbLeft ==
  \A t \in Transfer : has_urbs[t] /\ ~Filled(t) => num_retired[t] < UrbsOf(t)

ControlNotCounted == \A t \in Transfer : type[t] = "control" => num_retired[t] = 0

\* Only the URBs of a transfer are submitted, nothing is pending without the device,
\* and the last URB overflows only when no other is left.
UrbsInKernel ==
  \A t \in Transfer :
    /\ InKernel(t) \subseteq 1..UrbsOf(t)
    /\ ~plugged => \A i \in Urb : urb[t][i] # "pending"
    /\ \A i \in Urb : urb[t][i] = "overflow" =>
         i = UrbsOf(t) /\ \A j \in 1..(i - 1) : urb[t][j] # "pending"

UrbInHand ==
  pc[Handler] = "reaped" =>
    /\ reaped.index \in Urb /\ reaped.status \in UrbStatus
    /\ urb[cur[Handler]][reaped.index] = "absent"
    /\ reaped.status = "overflow" =>
         reaped.index = UrbsOf(cur[Handler]) /\ InKernel(cur[Handler]) = {}

\* The disconnection: the device left, the kernel has handed back what it does, and
\* once it is dealt with nothing is in flight nor will come to be.
Disconnected ==
  /\ fd_removed => ~plugged
  /\ mode # "poll" => fd_removed
  /\ mode = "drain" => caps
  /\ pc[Handler] \in {"scan_flying", "clear_priv"} => mode = "disconnect"
  /\ fd_removed /\ mode # "drain" /\ caps => \A t \in Transfer : InKernel(t) = {}
  /\ fd_removed /\ mode = "poll" =>
       /\ \A t \in Transfer : ~InFlight(t)
       /\ \A th \in Thread : /\ pc[th] # "submit_ok"
                             /\ pc[th] = "submit_urbs" => idx[th] = 1
-----------------------------------------------------------------------------
\* A timeout scan holds the flying lock, so what it looks at stays on the list.
ScanSeesFlying ==
  \A th \in Thread :
    /\ pc[th] \in {"scan_timeouts", "mark_timed_out"} => todo[th] \subseteq flying
    /\ pc[th] = "cancel" /\ back[th] = "scan_timeouts" =>
         todo[th] \subseteq flying /\ cur[th] \in flying
    /\ pc[th] = "mark_timed_out" =>
         cur[th] \in flying /\ InFlight(cur[th]) /\ canceller[cur[th]] = "timeout"

\* An accepted cancel leaves its traces in the transfer: in reap_action, in the flags,
\* and, for a timeout, in TIMED_OUT as soon as the scan has marked it.
CancelLeavesTraces ==
  \A t \in Transfer : InFlight(t) =>
    /\ canceller[t] # "none" <=> reap_action[t] = "CANCELLED"
    /\ canceller[t] # "none" => "CANCELLING" \in state_flags[t]
    /\ canceller[t] # "timeout" => "TIMED_OUT" \notin timeout_flags[t]
    /\ canceller[t] = "timeout" => \/ "TIMED_OUT" \in timeout_flags[t]
                                   \/ \E th \in Thread : cur[th] = t /\ pc[th] = "mark_timed_out"

\* A bulk transfer that failed has no pending URB at its end, so no cancel of it is
\* accepted; a control URB is discarded by a cancel alone.
FailedNotCancelled ==
  \A t \in Transfer :
    /\ reap_action[t] = "ERROR" => urb[t][UrbsOf(t)] # "pending"
    /\ reap_status[t] \notin {"CANCELLED", "TIMED_OUT"}
    /\ type[t] = "control" =>
         /\ Reapable /\ (\E i \in Urb : urb[t][i] = "discarded") => reap_action[t] = "CANCELLED"
         /\ InHand(t) /\ reaped.status = "discarded" => reap_action[t] = "CANCELLED"

\* The status the handler is about to report agrees with who cancelled.
FinalAgrees ==
  /\ pc[Handler] = "cancellation" => reap_action[cur[Handler]] = "CANCELLED"
  /\ pc[Handler] \in {"remove_flying", "clear_in_flight"} =>
       final \in Contract!Agrees(canceller[cur[Handler]])

FlyingFinite == IsFiniteSet({t \in Transfer : InFlight(t)})

LockInv == CallsReturn /\ LocksHeld /\ OneSubmitter
FlyingInv == FlyingMatchesFlags /\ SubmissionHasTransfer /\ ArrayOwned /\ HandlerFinishes
UrbInv ==
  /\ UrbsOutliveKernel /\ EveryUrbCounted /\ FillingCounts /\ SomeUrbLeft
  /\ ControlNotCounted /\ UrbsInKernel /\ UrbInHand /\ Disconnected
CancelInv == ScanSeesFlying /\ CancelLeavesTraces /\ FailedNotCancelled /\ FinalAgrees
RefsInv == FlyingFinite /\ DeviceReferenced

CountInv == EveryUrbCounted /\ FillingCounts
KernelInv ==
  /\ UrbsOutliveKernel /\ SomeUrbLeft /\ ControlNotCounted
  /\ UrbsInKernel /\ UrbInHand /\ Disconnected

IInv == TypeOK /\ LockInv /\ FlyingInv /\ UrbInv /\ CancelInv /\ RefsInv

\* Counted(t) is what EveryUrbCounted says of t.
Counted(t) == has_urbs[t] /\ ~Filled(t) => num_retired[t] + UrbsOut(t) = UrbsOf(t)

\* What a step leaves alone of the transfers of S.
Untouched(S) ==
  /\ type' = type /\ (Reapable' => Reapable)
  /\ \A u \in S : /\ InKernel(u)' = InKernel(u) /\ num_retired'[u] = num_retired[u]
                  /\ has_urbs'[u] => has_urbs[u] /\ (Filled(u) => Filled(u)')
                  /\ InHand(u)' <=> InHand(u)
                  /\ InHand(u) => reaped' = reaped
  /\ \A th \in Thread : pc'[th] = "submit_urbs" /\ cur'[th] \in S =>
       pc[th] = "submit_urbs" /\ cur'[th] = cur[th] /\ idx'[th] = idx[th]
-----------------------------------------------------------------------------
(* Counting URBs, and the steps that complete one *)

\* InKernel is a finite set, counted up and down with the URBs.
LEMMA KernelCount ==
  ASSUME TypeOK, NEW t \in Transfer
  PROVE  /\ IsFiniteSet(InKernel(t)) /\ Cardinality(InKernel(t)) \in Nat
         /\ Cardinality(InKernel(t)) = 0 <=> InKernel(t) = {}
<1>1. IsFiniteSet(Urb)
  BY UrbAssumption, FS_Interval DEF Urb
<1>2. InKernel(t) \in SUBSET Urb
  BY DEF InKernel
<1> QED
  BY <1>1, <1>2, FS_Subset, FS_CardinalityType, FS_EmptySet

\* discard_urbs changes nothing but the outcome of pending URBs.
LEMMA DiscardedKeeps ==
  ASSUME NEW u \in [Urb -> UrbState], NEW S
  PROVE  /\ Discarded(u, S) \in [Urb -> UrbState]
         /\ \A i \in Urb : /\ Discarded(u, S)[i] \in {u[i], "discarded"}
                           /\ Discarded(u, S)[i] # u[i] => u[i] = "pending"
                           /\ plugged /\ i \in S => Discarded(u, S)[i] # "pending"
BY DEF Discarded, UrbState, UrbStatus

\* A reaped URB whose transfer is not locked belongs to a transfer in flight, and its
\* retirement is counted within the number of URBs.
LEMMA ReapedInFlight ==
  ASSUME IInv, pc[Handler] = "reaped", transfer_lock[cur[Handler]] = NoOne
  PROVE  LET t == cur[Handler] IN
         /\ t \in Transfer /\ has_urbs[t] /\ InFlight(t) /\ t \in flying
         /\ \A th \in Thread : cur[th] = t => pc[th] \notin Filling
         /\ num_retired[t] + Cardinality(InKernel(t)) + 1 = UrbsOf(t)
<1> DEFINE t == cur[Handler]
<1>1. t \in Transfer /\ Handler \in Thread
  BY DEF IInv, TypeOK, Thread
<1>2. has_urbs[t]
  BY <1>1 DEF IInv, UrbInv, UrbsOutliveKernel
<1>3. \A th \in Thread : cur[th] = t => pc[th] \notin Filling
  BY <1>1, NoOneAssumption DEF IInv, LockInv, LocksHeld, HoldsTransfer, Filling
<1>4. InFlight(t)
  BY <1>1, <1>2, <1>3 DEF IInv, FlyingInv, ArrayOwned
<1>5. t \in flying
  BY <1>1, <1>4 DEF IInv, FlyingInv, FlyingMatchesFlags, Retiring
<1>6. num_retired[t] + Cardinality(InKernel(t)) + 1 = UrbsOf(t)
  BY <1>1, <1>2, <1>3 DEF IInv, UrbInv, EveryUrbCounted, Filling
<1> QED
  BY <1>1, <1>2, <1>3, <1>4, <1>5, <1>6

\* The last URB comes in with none left in the kernel.
LEMMA LastUrbIn ==
  ASSUME IInv, pc[Handler] = "reaped", transfer_lock[cur[Handler]] = NoOne
  PROVE  LET t == cur[Handler] IN
         /\ num_retired[t] + 1 <= UrbsOf(t)
         /\ num_retired[t] + 1 = UrbsOf(t) \/ type[t] = "control" => InKernel(t) = {}
<1> DEFINE t == cur[Handler]
<1>1. /\ t \in Transfer /\ num_retired[t] + Cardinality(InKernel(t)) + 1 = UrbsOf(t)
  BY ReapedInFlight
<1>2. /\ Cardinality(InKernel(t)) \in Nat
      /\ Cardinality(InKernel(t)) = 0 <=> InKernel(t) = {}
  BY <1>1, KernelCount DEF IInv
<1>3. num_retired[t] \in Nat /\ UrbsOf(t) \in Nat /\ (type[t] = "control" => UrbsOf(t) = 1)
  BY <1>1, UrbAssumption DEF IInv, TypeOK, UrbsOf
<1> QED
  BY <1>1, <1>2, <1>3

\* Where URBs only complete, and none overflows, the kernel keeps those it has.
LEMMA UrbsSettle ==
  ASSUME IInv, type' = type, plugged' => plugged,
         \A u \in Transfer, i \in Urb :
           \/ urb'[u][i] = urb[u][i]
           \/ urb[u][i] = "pending" /\ urb'[u][i] \notin {"absent", "pending", "overflow"},
         plugged /\ ~plugged' => \A u \in Transfer, i \in Urb : urb'[u][i] # "pending"
  PROVE  UrbsInKernel' /\ \A u \in Transfer : InKernel(u)' = InKernel(u)
<1>1. \A u \in Transfer : InKernel(u)' = InKernel(u)
  BY DEF InKernel
<1>2. \A u \in Transfer : UrbsOf(u)' = UrbsOf(u)
  BY DEF UrbsOf
<1>3. \A u \in Transfer : 1..(UrbsOf(u) - 1) \subseteq Urb
  BY UrbAssumption DEF UrbsOf, Urb
<1>4. plugged \in BOOLEAN /\ UrbsInKernel
  BY DEF IInv, TypeOK, UrbInv
<1>5. \A u \in Transfer, i \in Urb : urb'[u][i] = "pending" => urb[u][i] = "pending"
  OBVIOUS
<1>6. ~plugged' => \A u \in Transfer, i \in Urb : urb'[u][i] # "pending"
  BY <1>4, <1>5 DEF UrbsInKernel
<1>7. ASSUME NEW u \in Transfer, NEW i \in Urb, urb'[u][i] = "overflow"
      PROVE  i = UrbsOf(u)' /\ \A j \in 1..(i - 1) : urb'[u][j] # "pending"
  <2>1. urb[u][i] = "overflow"
    BY <1>7
  <2>2. i = UrbsOf(u) /\ \A j \in 1..(i - 1) : urb[u][j] # "pending"
    BY <1>4, <2>1 DEF UrbsInKernel
  <2> QED
    BY <1>2, <1>3, <1>5, <2>2
<1> QED
  BY <1>1, <1>2, <1>4, <1>6, <1>7 DEF UrbsInKernel

\* A completion takes the handler from its URB towards the callback, or back to the
\* loop, and moves nobody else.
LEMMA CompletionMoves ==
  ASSUME HandleBulkCompletion \/ ReadReapAction \/ HandleIsoCompletion
           \/ HandleControlCompletion
  PROVE  /\ pc[Handler] \in {"reaped", "completed"}
         /\ \E l \in {"idle", "completed", "cancellation", "remove_flying"} :
              pc' = [pc EXCEPT ![Handler] = l]
         /\ UNCHANGED <<listVars, callVars, flagVars, type, plugged, caps, expired, refs,
                        historyVars, mode, fd_removed>>
<1>1. CASE HandleBulkCompletion
  BY <1>1 DEF HandleBulkCompletion, AbnormalReap, NormalReap, CancelRemaining, Finish, Continue,
    Goto
<1>2. CASE ReadReapAction
  BY <1>2 DEF ReadReapAction, Goto, worldVars, kernelVars
<1>3. CASE HandleIsoCompletion
  BY <1>3 DEF HandleIsoCompletion, Conclude, Goto, worldVars, kernelVars
<1>4. CASE HandleControlCompletion
  BY <1>4 DEF HandleControlCompletion, Conclude, Goto, worldVars, kernelVars
<1> QED
  BY <1>1, <1>2, <1>3, <1>4
-----------------------------------------------------------------------------
(* The types *)

\* Every step keeps the types.
LEMMA TypeStep ==
  ASSUME IInv, [Next]_vars
  PROVE  TypeOK'
<1> USE TransferAssumption, KindsAssumption, UrbAssumption, BoundAssumption,
  ThreadAssumption, NoOneAssumption DEF flagVars, privVars, lockVars, listVars,
  callVars, threadVars, handlerVars, kernelVars, historyVars, worldVars, Goto, IInv,
  TypeOK, Thread, Label, Urb, UrbState, UrbStatus, StateFlag, TimeoutFlag,
  ReapAction, TransferStatus, NoUrb
<1>1. ASSUME NEW th \in Thread, ThreadStep(th) PROVE TypeOK'
  <2>1. CASE SubmitLockFlying(th)
    BY <2>1 DEF SubmitLockFlying
  <2>2. CASE SubmitBusy(th)
    BY <2>2 DEF SubmitBusy
  <2>3. CASE SubmitAddFlying(th)
    BY <2>3 DEF SubmitAddFlying
  <2>4. CASE AllocUrbs(th)
    BY <2>4 DEF AllocUrbs
  <2>5. CASE AllocUrbsFails(th)
    BY <2>5 DEF AllocUrbsFails
  <2>6. CASE SubmitUrb(th)
    BY <1>1, <2>6 DEF SubmitUrb, IsLastUrb, UrbInv, FillingCounts, FillingCount, UrbsOf
  <2>7. CASE SubmitFirstUrbFails(th)
    BY <2>7 DEF SubmitFirstUrbFails
  <2>8. CASE SubmitLaterUrbFails(th)
    <3>1. RefusedFrom(cur[th], idx[th]) \in 0..NumUrbs /\ num_retired[cur[th]] = 0
      BY <1>1, <2>8 DEF SubmitLaterUrbFails, RefusedFrom, UrbInv, FillingCounts, FillingCount,
           UrbsOf
    <3>2. urb' \in [Transfer -> [Urb -> UrbState]]
      <4>0. urb[cur[th]] \in [Urb -> UrbState]
        BY <1>1
      <4>1. \A S : Discarded(urb[cur[th]], S) \in [Urb -> UrbState]
        <5> HIDE DEF IInv, UrbState
        <5> QED
          BY <4>0, DiscardedKeeps
      <4>2. PICK S : urb' = urb \/ urb' = [urb EXCEPT ![cur[th]] = Discarded(@, S)]
        BY <2>8 DEF SubmitLaterUrbFails
      <4>3. urb \in [Transfer -> [Urb -> UrbState]] /\ cur[th] \in Transfer
        BY <1>1
      <4> HIDE DEF IInv, UrbState
      <4> QED
        BY <4>1, <4>2, <4>3
    <3>3. num_retired' \in [Transfer -> 0..NumUrbs]
      BY <1>1, <2>8, <3>1 DEF SubmitLaterUrbFails
    <3>4. reap_action' \in [Transfer -> ReapAction] /\ pc' \in [Thread -> Label]
      <4>1. \E a \in ReapAction : reap_action' = [reap_action EXCEPT ![cur[th]] = a]
        BY <1>1, <2>8 DEF SubmitLaterUrbFails
      <4>2. pc' = [pc EXCEPT ![th] = "submit_ok"]
        BY <2>8 DEF SubmitLaterUrbFails
      <4> QED
        BY <1>1, <4>1, <4>2
    <3> QED
      BY <2>8, <3>2, <3>3, <3>4 DEF SubmitLaterUrbFails
  <2>9. CASE SubmitSucceeds(th)
    BY <2>9 DEF SubmitSucceeds
  <2>10. CASE SubmitUndo(th)
    BY <2>10 DEF SubmitUndo
  <2>11. CASE CancelNotFound(th)
    BY <2>11 DEF CancelNotFound, AfterCancel
  <2>12. CASE CancelInFlight(th)
    BY <2>12 DEF CancelInFlight, AfterCancel, DiscardResult, Discarded
  <2>13. CASE TimeoutsLock(th)
    BY <2>13 DEF TimeoutsLock
  <2>14. CASE MarkTimedOut(th)
    BY <2>14 DEF MarkTimedOut
  <2>15. CASE TimeoutsUnlock(th)
    BY <2>15 DEF TimeoutsUnlock
  <2>16. ASSUME NEW t \in Transfer, HandleTimeout(th, t) PROVE TypeOK'
    BY <2>16 DEF HandleTimeout
  <2> QED
    BY <1>1, <2>1, <2>2, <2>3, <2>4, <2>5, <2>6, <2>7, <2>8, <2>9, <2>10, <2>11,
      <2>12, <2>13, <2>14, <2>15, <2>16 DEF ThreadStep
<1>2. CASE HandlerStep
  <2>1. ASSUME NEW t \in Transfer, NEW i \in Urb, Reap(t, i) PROVE TypeOK'
    BY <2>1 DEF Reap
  <2>2. CASE HandleBulkCompletion
    <3>1. num_retired[cur[Handler]] + 1 \in 0..NumUrbs
      <4>1. pc[Handler] = "reaped" /\ transfer_lock[cur[Handler]] = NoOne
        BY <2>2 DEF HandleBulkCompletion
      <4>2. Cardinality(InKernel(cur[Handler])) \in Nat
        BY <4>1, KernelCount, ReapedInFlight
      <4> QED
        BY <4>1, <4>2, ReapedInFlight DEF UrbsOf

    <3>2. urb' \in [Transfer -> [Urb -> UrbState]]
      <4>0. urb[cur[Handler]] \in [Urb -> UrbState]
        OBVIOUS
      <4>1. \A S : Discarded(urb[cur[Handler]], S) \in [Urb -> UrbState]
        <5> HIDE DEF IInv, UrbState
        <5> QED
          BY <4>0, DiscardedKeeps
      <4> QED
        BY <2>2, <4>1 DEF HandleBulkCompletion, AbnormalReap, NormalReap, CancelRemaining,
             Finish, Continue
    <3>3. num_retired' \in [Transfer -> 0..NumUrbs]
      BY <2>2, <3>1 DEF HandleBulkCompletion
    <3>4. has_urbs' \in [Transfer -> BOOLEAN] /\ pc' \in [Thread -> Label]
      <4>1. \/ has_urbs' = has_urbs /\ pc' = [pc EXCEPT ![Handler] = "idle"]
            \/ /\ has_urbs' = [has_urbs EXCEPT ![cur[Handler]] = FALSE]
               /\ pc' = [pc EXCEPT ![Handler] = "completed"]
        <5> HIDE DEF IInv
        <5> QED
          BY <2>2 DEF HandleBulkCompletion, AbnormalReap, NormalReap, CancelRemaining, Finish,
               Continue
      <4>2. has_urbs' \in [Transfer -> BOOLEAN]
        BY <4>1
      <4>3. pc' \in [Thread -> Label]
        BY <4>1
      <4> QED
        BY <4>2, <4>3
    <3>5. reap_action' \in [Transfer -> ReapAction]
      <4>1. \/ reap_action' = reap_action
            \/ \E a \in ReapAction : reap_action' = [reap_action EXCEPT ![cur[Handler]] = a]
        <5> HIDE DEF IInv
        <5> QED
          BY <2>2 DEF HandleBulkCompletion, AbnormalReap, NormalReap
      <4> QED
        BY <4>1
    <3>6. reap_status' \in [Transfer -> TransferStatus]
      <4>1. \E a \in TransferStatus : reap_status' = [reap_status EXCEPT ![cur[Handler]] = a]
        BY <2>2 DEF HandleBulkCompletion, AbnormalReap, NormalReap, CancelRemaining, Finish,
             Continue, IfStillCompleted
      <4> QED
        BY <4>1
    <3> QED
      BY <2>2, <3>2, <3>3, <3>4, <3>5, <3>6 DEF HandleBulkCompletion
  <2>3. CASE ReadReapAction
    BY <2>3 DEF ReadReapAction
  <2>4. CASE HandleIsoCompletion
    <3>1. num_retired[cur[Handler]] + 1 \in 0..NumUrbs
      <4>1. pc[Handler] = "reaped" /\ transfer_lock[cur[Handler]] = NoOne
        BY <2>4 DEF HandleIsoCompletion
      <4>2. Cardinality(InKernel(cur[Handler])) \in Nat
        BY <4>1, KernelCount, ReapedInFlight
      <4> QED
        BY <4>1, <4>2, ReapedInFlight DEF UrbsOf

    <3>3. num_retired' \in [Transfer -> 0..NumUrbs]
      BY <2>4, <3>1 DEF HandleIsoCompletion
    <3>4. has_urbs' \in [Transfer -> BOOLEAN] /\ pc' \in [Thread -> Label]
      <4>1. /\ has_urbs' = has_urbs \/ has_urbs' = [has_urbs EXCEPT ![cur[Handler]] = FALSE]
            /\ \E a \in Label : pc' = [pc EXCEPT ![Handler] = a]
        <5> HIDE DEF IInv
        <5> QED
          BY <2>4 DEF HandleIsoCompletion, Conclude
      <4>2. has_urbs' \in [Transfer -> BOOLEAN]
        BY <4>1
      <4>3. pc' \in [Thread -> Label]
        BY <4>1
      <4> QED
        BY <4>2, <4>3
    <3>5. final' \in TransferStatus
      BY <2>4 DEF HandleIsoCompletion, Conclude, IsoStatus
    <3> QED
      BY <2>4, <3>3, <3>4, <3>5 DEF HandleIsoCompletion
  <2>5. CASE HandleControlCompletion
    BY <2>5 DEF HandleControlCompletion, Conclude, ControlStatus
  <2>6. CASE HandleCancellation
    BY <2>6 DEF HandleCancellation
  <2>7. CASE RemoveFlying
    BY <2>7 DEF RemoveFlying
  <2>8. CASE ClearInFlight
    BY <2>8 DEF ClearInFlight
  <2>9. CASE InvokeCallback
    BY <2>9 DEF InvokeCallback
  <2>10. CASE CallbackReturns
    <3>1. refs \in Nat \ {0}
      BY <2>10, FS_CardinalityType DEF CallbackReturns, RefsInv, DeviceReferenced, InCallback,
           FlyingFinite
    <3> QED
      BY <2>10, <3>1 DEF CallbackReturns
  <2>11. CASE PollError
    BY <2>11 DEF PollError
  <2>12. CASE DrainDone
    BY <2>12 DEF DrainDone
  <2>13. CASE DisconnectLock
    BY <2>13 DEF DisconnectLock
  <2>14. ASSUME NEW t \in Transfer, DisconnectFound(t) PROVE TypeOK'
    BY <2>14 DEF DisconnectFound
  <2>15. CASE DisconnectDone
    BY <2>15 DEF DisconnectDone
  <2>16. CASE ClearTransferPriv
    BY <2>16 DEF ClearTransferPriv
  <2> QED
    BY <1>2, <2>1, <2>2, <2>3, <2>4, <2>5, <2>6, <2>7, <2>8, <2>9, <2>10, <2>11,
      <2>12, <2>13, <2>14, <2>15, <2>16 DEF HandlerStep
<1>3. ASSUME NEW th \in Thread, NEW t \in Transfer, SubmitTransfer(th, t) PROVE
  TypeOK'
  BY <1>3 DEF SubmitTransfer, Call
<1>4. ASSUME NEW th \in Thread, NEW t \in Transfer, CancelTransfer(th, t) PROVE
  TypeOK'
  BY <1>4 DEF CancelTransfer, Call
<1>5. ASSUME NEW th \in Thread, HandleTimeouts(th) PROVE TypeOK'
  BY <1>5 DEF HandleTimeouts
<1>6. ASSUME NEW t \in Transfer, NEW i \in Urb, NEW status \in UrbStatus,
  KernelCompletes(t, i, status) PROVE TypeOK'
  BY <1>6 DEF KernelCompletes, Discarded
<1>7. CASE Unplug
  <2>1. urb' \in [Transfer -> [Urb -> UrbState]]
    <3> DEFINE f(t) == [i \in Urb |-> IF urb[t][i] = "pending" THEN "nodev" ELSE urb[t][i]]
    <3>1. \A t \in Transfer : f(t) \in [Urb -> UrbState]
      OBVIOUS
    <3>2. urb' = [t \in Transfer |-> f(t)]
      BY <1>7 DEF Unplug
    <3> HIDE DEF f
    <3> QED
      BY <3>1, <3>2
  <2>2. /\ plugged' = FALSE
        /\ UNCHANGED <<flagVars, privVars, listVars, type, caps, expired, refs, threadVars,
                       handlerVars, historyVars>>
    BY <1>7 DEF Unplug
  <2> HIDE DEF UrbState
  <2> QED
    BY <2>1, <2>2
<1>8. ASSUME NEW t \in Transfer, Expire(t) PROVE TypeOK'
  BY <1>8 DEF Expire
<1>9. CASE UNCHANGED vars
  BY <1>9 DEF vars
<1> HIDE DEF TypeOK, IInv, Thread, Urb, UrbStatus
<1> QED
  BY <1>1, <1>2, <1>3, <1>4, <1>5, <1>6, <1>7, <1>8, <1>9 DEF Next, ProgramCall,
    Environment
-----------------------------------------------------------------------------
(* The locks *)

\* No step breaks the discipline of the locks.
LEMMA LockStep ==
  ASSUME IInv, [Next]_vars
  PROVE  LockInv'
<1> USE ThreadAssumption, NoOneAssumption DEF flagVars, privVars, lockVars,
  listVars, callVars, threadVars, handlerVars, kernelVars, historyVars, worldVars,
  Goto, LockInv, CallsReturn, LocksHeld, OneSubmitter, HoldsFlying, HoldsTransfer,
  UserLabel, Submitting
<1>a. LockInv /\ Handler \in Thread
  BY DEF IInv, Thread
<1>b. /\ pc \in [Thread -> Label] /\ cur \in [Thread -> Transfer]
      /\ back \in [Thread -> {"idle", "callback", "scan_timeouts"}]
      /\ flying_lock \in Thread \cup {NoOne}
      /\ transfer_lock \in [Transfer -> Thread \cup {NoOne}]
  BY DEF IInv, TypeOK
<1>1. ASSUME NEW th \in Thread, ThreadStep(th) PROVE LockInv'
  <2>1. CASE SubmitLockFlying(th)
    BY <2>1, <1>a, <1>b DEF SubmitLockFlying
  <2>2. CASE SubmitBusy(th)
    BY <2>2, <1>a, <1>b DEF SubmitBusy
  <2>3. CASE SubmitAddFlying(th)
    BY <2>3, <1>a, <1>b DEF SubmitAddFlying
  <2>4. CASE AllocUrbs(th)
    BY <2>4, <1>a, <1>b DEF AllocUrbs
  <2>5. CASE AllocUrbsFails(th)
    BY <2>5, <1>a, <1>b DEF AllocUrbsFails
  <2>6. CASE SubmitUrb(th)
    BY <2>6, <1>a, <1>b DEF SubmitUrb, IsLastUrb
  <2>7. CASE SubmitFirstUrbFails(th)
    BY <2>7, <1>a, <1>b DEF SubmitFirstUrbFails
  <2>8. CASE SubmitLaterUrbFails(th)
    BY <2>8, <1>a, <1>b DEF SubmitLaterUrbFails, RefusedFrom, Discarded
  <2>9. CASE SubmitSucceeds(th)
    BY <2>9, <1>a, <1>b DEF SubmitSucceeds
  <2>10. CASE SubmitUndo(th)
    BY <2>10, <1>a, <1>b DEF SubmitUndo
  <2>11. CASE CancelNotFound(th)
    BY <2>11, <1>a, <1>b DEF CancelNotFound, AfterCancel
  <2>12. CASE CancelInFlight(th)
    BY <2>12, <1>a, <1>b DEF CancelInFlight, AfterCancel, DiscardResult, Discarded
  <2>13. CASE TimeoutsLock(th)
    BY <2>13, <1>a, <1>b DEF TimeoutsLock
  <2>14. CASE MarkTimedOut(th)
    BY <2>14, <1>a, <1>b DEF MarkTimedOut
  <2>15. CASE TimeoutsUnlock(th)
    BY <2>15, <1>a, <1>b DEF TimeoutsUnlock
  <2>16. ASSUME NEW t \in Transfer, HandleTimeout(th, t) PROVE LockInv'
    BY <2>16, <1>a, <1>b DEF HandleTimeout
  <2> QED
    BY <1>1, <2>1, <2>2, <2>3, <2>4, <2>5, <2>6, <2>7, <2>8, <2>9, <2>10, <2>11,
      <2>12, <2>13, <2>14, <2>15, <2>16 DEF ThreadStep
<1>2. CASE HandlerStep
  <2>1. ASSUME NEW t \in Transfer, NEW i \in Urb, Reap(t, i) PROVE LockInv'
    BY <2>1, <1>a, <1>b DEF Reap
  <2>2. CASE HandleBulkCompletion
    <3>1. /\ pc[Handler] \in {"reaped", "completed"}
          /\ UNCHANGED <<listVars, callVars>>
      BY <2>2, CompletionMoves
    <3>2. PICK l \in {"idle", "completed", "cancellation", "remove_flying"} :
            pc' = [pc EXCEPT ![Handler] = l]
      BY <2>2, CompletionMoves
    <3> QED
      BY <3>1, <3>2, <1>a, <1>b
  <2>3. CASE ReadReapAction
    <3>1. /\ pc[Handler] \in {"reaped", "completed"}
          /\ UNCHANGED <<listVars, callVars>>
      BY <2>3, CompletionMoves
    <3>2. PICK l \in {"idle", "completed", "cancellation", "remove_flying"} :
            pc' = [pc EXCEPT ![Handler] = l]
      BY <2>3, CompletionMoves
    <3> QED
      BY <3>1, <3>2, <1>a, <1>b
  <2>4. CASE HandleIsoCompletion
    <3>1. /\ pc[Handler] \in {"reaped", "completed"}
          /\ UNCHANGED <<listVars, callVars>>
      BY <2>4, CompletionMoves
    <3>2. PICK l \in {"idle", "completed", "cancellation", "remove_flying"} :
            pc' = [pc EXCEPT ![Handler] = l]
      BY <2>4, CompletionMoves
    <3> QED
      BY <3>1, <3>2, <1>a, <1>b
  <2>5. CASE HandleControlCompletion
    <3>1. /\ pc[Handler] \in {"reaped", "completed"}
          /\ UNCHANGED <<listVars, callVars>>
      BY <2>5, CompletionMoves
    <3>2. PICK l \in {"idle", "completed", "cancellation", "remove_flying"} :
            pc' = [pc EXCEPT ![Handler] = l]
      BY <2>5, CompletionMoves
    <3> QED
      BY <3>1, <3>2, <1>a, <1>b
  <2>6. CASE HandleCancellation
    BY <2>6, <1>a, <1>b DEF HandleCancellation
  <2>7. CASE RemoveFlying
    BY <2>7, <1>a, <1>b DEF RemoveFlying
  <2>8. CASE ClearInFlight
    BY <2>8, <1>a, <1>b DEF ClearInFlight
  <2>9. CASE InvokeCallback
    BY <2>9, <1>a, <1>b DEF InvokeCallback
  <2>10. CASE CallbackReturns
    BY <2>10, <1>a, <1>b DEF CallbackReturns
  <2>11. CASE PollError
    BY <2>11, <1>a, <1>b DEF PollError
  <2>12. CASE DrainDone
    BY <2>12, <1>a, <1>b DEF DrainDone
  <2>13. CASE DisconnectLock
    BY <2>13, <1>a, <1>b DEF DisconnectLock
  <2>14. ASSUME NEW t \in Transfer, DisconnectFound(t) PROVE LockInv'
    BY <2>14, <1>a, <1>b DEF DisconnectFound
  <2>15. CASE DisconnectDone
    BY <2>15, <1>a, <1>b DEF DisconnectDone
  <2>16. CASE ClearTransferPriv
    BY <2>16, <1>a, <1>b DEF ClearTransferPriv
  <2> QED
    BY <1>2, <2>1, <2>2, <2>3, <2>4, <2>5, <2>6, <2>7, <2>8, <2>9, <2>10, <2>11,
      <2>12, <2>13, <2>14, <2>15, <2>16 DEF HandlerStep
<1>3. ASSUME NEW th \in Thread, NEW t \in Transfer, SubmitTransfer(th, t) PROVE
  LockInv'
  BY <1>3, <1>a, <1>b DEF SubmitTransfer, Call
<1>4. ASSUME NEW th \in Thread, NEW t \in Transfer, CancelTransfer(th, t) PROVE
  LockInv'
  BY <1>4, <1>a, <1>b DEF CancelTransfer, Call
<1>5. ASSUME NEW th \in Thread, HandleTimeouts(th) PROVE LockInv'
  BY <1>5, <1>a, <1>b DEF HandleTimeouts
<1>6. ASSUME NEW t \in Transfer, NEW i \in Urb, NEW status \in UrbStatus,
  KernelCompletes(t, i, status) PROVE LockInv'
  BY <1>6, <1>a, <1>b DEF KernelCompletes, Discarded
<1>7. CASE Unplug
  BY <1>7, <1>a, <1>b DEF Unplug
<1>8. ASSUME NEW t \in Transfer, Expire(t) PROVE LockInv'
  BY <1>8, <1>a, <1>b DEF Expire
<1>9. CASE UNCHANGED vars
  BY <1>a, <1>9 DEF vars
<1> HIDE DEF LockInv, CallsReturn, LocksHeld, OneSubmitter, HoldsFlying, HoldsTransfer,
     UserLabel, Submitting
<1> QED
  BY <1>1, <1>2, <1>3, <1>4, <1>5, <1>6, <1>7, <1>8, <1>9 DEF Next, ProgramCall,
    Environment
-----------------------------------------------------------------------------
(* The flying list *)

\* No step parts the list from the flags.
LEMMA FlyingStep ==
  ASSUME IInv, [Next]_vars
  PROVE  FlyingInv'
<1> USE ThreadAssumption, NoOneAssumption DEF flagVars, privVars, lockVars,
  listVars, callVars, threadVars, handlerVars, kernelVars, historyVars, worldVars,
  Goto, LockInv, CallsReturn, LocksHeld, OneSubmitter, HoldsFlying, HoldsTransfer,
  UserLabel, Submitting, FlyingInv, FlyingMatchesFlags, SubmissionHasTransfer,
  ArrayOwned, HandlerFinishes, InFlight, Retiring, BeingSubmitted, Added, Filling,
  Finishing
<1>a. LockInv /\ FlyingInv /\ CancelInv /\ ScanSeesFlying /\ Handler \in Thread
  BY DEF IInv, CancelInv, Thread
<1>b. /\ pc \in [Thread -> Label] /\ cur \in [Thread -> Transfer]
      /\ has_urbs \in [Transfer -> BOOLEAN] /\ reap_action \in [Transfer -> ReapAction]
      /\ state_flags \in [Transfer -> SUBSET StateFlag]
      /\ timeout_flags \in [Transfer -> SUBSET TimeoutFlag]
      /\ transfer_lock \in [Transfer -> Thread \cup {NoOne}]
      /\ flying \subseteq Transfer
      /\ back \in [Thread -> {"idle", "callback", "scan_timeouts"}]
  BY DEF IInv, TypeOK
<1>1. ASSUME NEW th \in Thread, ThreadStep(th) PROVE FlyingInv'
  <2>1. CASE SubmitLockFlying(th) \/ SubmitAddFlying(th)
    BY <2>1, <1>a, <1>b DEF SubmitLockFlying, SubmitAddFlying
  <2>2. CASE SubmitBusy(th)
    <3>1. FlyingMatchesFlags'
      BY <2>2, <1>a, <1>b DEF SubmitBusy
    <3>2. SubmissionHasTransfer'
      BY <2>2, <1>a, <1>b DEF SubmitBusy
    <3>3. ArrayOwned'
      BY <2>2, <1>a, <1>b DEF SubmitBusy
    <3>4. HandlerFinishes'
      BY <2>2, <1>a, <1>b DEF SubmitBusy
    <3> QED
      BY <3>1, <3>2, <3>3, <3>4
  <2>3. CASE AllocUrbs(th)
    BY <2>3, <1>a, <1>b DEF AllocUrbs
  <2>4. CASE AllocUrbsFails(th) \/ SubmitSucceeds(th) \/ SubmitUndo(th)
    BY <2>4, <1>a, <1>b DEF AllocUrbsFails, SubmitSucceeds, SubmitUndo
  <2>5. CASE SubmitUrb(th)
    BY <2>5, <1>a, <1>b DEF SubmitUrb, IsLastUrb
  <2>6. CASE SubmitFirstUrbFails(th)
    BY <2>6, <1>a, <1>b DEF SubmitFirstUrbFails
  <2>7. CASE SubmitLaterUrbFails(th)
    BY <2>7, <1>a, <1>b DEF SubmitLaterUrbFails, RefusedFrom, Discarded
  <2>8. CASE CancelNotFound(th) \/ TimeoutsLock(th) \/ TimeoutsUnlock(th)
    BY <2>8, <1>a, <1>b DEF CancelNotFound, TimeoutsLock, TimeoutsUnlock,
      AfterCancel
  <2>9. CASE CancelInFlight(th)
    <3>1. FlyingMatchesFlags'
      BY <2>9, <1>a, <1>b DEF CancelInFlight, AfterCancel, DiscardResult, Discarded
    <3>2. SubmissionHasTransfer'
      BY <2>9, <1>a, <1>b DEF CancelInFlight, AfterCancel, DiscardResult, Discarded
    <3>3. ArrayOwned'
      BY <2>9, <1>a, <1>b DEF CancelInFlight, AfterCancel, DiscardResult, Discarded
    <3>4. HandlerFinishes'
      BY <2>9, <1>a, <1>b DEF CancelInFlight, AfterCancel, DiscardResult, Discarded
    <3> QED
      BY <3>1, <3>2, <3>3, <3>4
  <2>10. CASE MarkTimedOut(th)
    BY <2>10, <1>a, <1>b DEF MarkTimedOut, ScanSeesFlying
  <2>11. ASSUME NEW t \in Transfer, HandleTimeout(th, t) PROVE FlyingInv'
    BY <2>11, <1>a, <1>b DEF HandleTimeout
  <2> QED
    BY <1>1, <2>1, <2>2, <2>3, <2>4, <2>5, <2>6, <2>7, <2>8, <2>9, <2>10, <2>11 DEF
      ThreadStep
<1>2. CASE HandlerStep
  <2>1. ASSUME NEW t \in Transfer, NEW i \in Urb, Reap(t, i) PROVE FlyingInv'
    BY <2>1, <1>a, <1>b DEF Reap
  <2>2. CASE HandleBulkCompletion
    <3>1. /\ pc[Handler] = "reaped" /\ transfer_lock[cur[Handler]] = NoOne
          /\ UNCHANGED <<listVars, callVars, flagVars>>
      BY <2>2, CompletionMoves DEF HandleBulkCompletion
    <3>2. /\ has_urbs[cur[Handler]] /\ InFlight(cur[Handler]) /\ cur[Handler] \in flying
          /\ \A th \in Thread : cur[th] = cur[Handler] => pc[th] \notin Filling
      <4> HIDE DEF Filling, InFlight
      <4> QED
        BY <3>1, ReapedInFlight
    <3>3. \A t \in Transfer \ {cur[Handler]} : has_urbs'[t] = has_urbs[t] /\ reap_action'[t] = reap_action[t]
      <4> HIDE DEF FlyingInv, FlyingMatchesFlags, SubmissionHasTransfer, ArrayOwned,
           HandlerFinishes, InFlight, Retiring, BeingSubmitted, Added, Filling, Finishing,
           LockInv, CallsReturn, LocksHeld, OneSubmitter, HoldsFlying, HoldsTransfer,
           UserLabel, Submitting
      <4> QED
        BY <2>2, <1>b DEF HandleBulkCompletion, AbnormalReap, NormalReap, CancelRemaining,
             Finish, Continue
    <3>4. \/ pc' = [pc EXCEPT ![Handler] = "idle"] /\ has_urbs' = has_urbs
          \/ /\ \E l \in {"completed", "cancellation", "remove_flying"} : pc' = [pc EXCEPT ![Handler] = l]
             /\ has_urbs'[cur[Handler]] = FALSE
      <4> HIDE DEF FlyingInv, FlyingMatchesFlags, SubmissionHasTransfer, ArrayOwned,
           HandlerFinishes, InFlight, Retiring, BeingSubmitted, Added, Filling, Finishing,
           LockInv, CallsReturn, LocksHeld, OneSubmitter, HoldsFlying, HoldsTransfer,
           UserLabel, Submitting
      <4> QED
        BY <2>2, <1>b DEF HandleBulkCompletion, AbnormalReap, NormalReap, CancelRemaining,
             Finish, Continue
    <3> QED
      BY <3>1, <3>2, <3>3, <3>4, <1>a, <1>b
  <2>3. CASE ReadReapAction
    BY <2>3, <1>a, <1>b DEF ReadReapAction
  <2>4. CASE HandleIsoCompletion
    <3>1. /\ pc[Handler] = "reaped" /\ transfer_lock[cur[Handler]] = NoOne
          /\ UNCHANGED <<listVars, callVars, flagVars>>
      BY <2>4, CompletionMoves DEF HandleIsoCompletion
    <3>2. /\ has_urbs[cur[Handler]] /\ InFlight(cur[Handler]) /\ cur[Handler] \in flying
          /\ \A th \in Thread : cur[th] = cur[Handler] => pc[th] \notin Filling
      <4> HIDE DEF Filling, InFlight
      <4> QED
        BY <3>1, ReapedInFlight
    <3>3. \A t \in Transfer \ {cur[Handler]} : has_urbs'[t] = has_urbs[t] /\ reap_action'[t] = reap_action[t]
      <4> HIDE DEF FlyingInv, FlyingMatchesFlags, SubmissionHasTransfer, ArrayOwned,
           HandlerFinishes, InFlight, Retiring, BeingSubmitted, Added, Filling, Finishing,
           LockInv, CallsReturn, LocksHeld, OneSubmitter, HoldsFlying, HoldsTransfer,
           UserLabel, Submitting
      <4> QED
        BY <2>4, <1>b DEF HandleIsoCompletion, Conclude
    <3>4. \/ pc' = [pc EXCEPT ![Handler] = "idle"] /\ has_urbs' = has_urbs
          \/ /\ \E l \in {"completed", "cancellation", "remove_flying"} : pc' = [pc EXCEPT ![Handler] = l]
             /\ has_urbs'[cur[Handler]] = FALSE
      <4> HIDE DEF FlyingInv, FlyingMatchesFlags, SubmissionHasTransfer, ArrayOwned,
           HandlerFinishes, InFlight, Retiring, BeingSubmitted, Added, Filling, Finishing,
           LockInv, CallsReturn, LocksHeld, OneSubmitter, HoldsFlying, HoldsTransfer,
           UserLabel, Submitting
      <4> QED
        BY <2>4, <1>b DEF HandleIsoCompletion, Conclude
    <3> QED
      BY <3>1, <3>2, <3>3, <3>4, <1>a, <1>b
  <2>5. CASE HandleControlCompletion
    <3>1. /\ pc[Handler] = "reaped" /\ transfer_lock[cur[Handler]] = NoOne
          /\ UNCHANGED <<listVars, callVars, flagVars>>
      BY <2>5, CompletionMoves DEF HandleControlCompletion
    <3>2. /\ has_urbs[cur[Handler]] /\ InFlight(cur[Handler]) /\ cur[Handler] \in flying
          /\ \A th \in Thread : cur[th] = cur[Handler] => pc[th] \notin Filling
      <4> HIDE DEF Filling, InFlight
      <4> QED
        BY <3>1, ReapedInFlight
    <3>3. \A t \in Transfer \ {cur[Handler]} : has_urbs'[t] = has_urbs[t] /\ reap_action'[t] = reap_action[t]
      <4> HIDE DEF FlyingInv, FlyingMatchesFlags, SubmissionHasTransfer, ArrayOwned,
           HandlerFinishes, InFlight, Retiring, BeingSubmitted, Added, Filling, Finishing,
           LockInv, CallsReturn, LocksHeld, OneSubmitter, HoldsFlying, HoldsTransfer,
           UserLabel, Submitting
      <4> QED
        BY <2>5, <1>b DEF HandleControlCompletion, Conclude
    <3>4. \/ pc' = [pc EXCEPT ![Handler] = "idle"] /\ has_urbs' = has_urbs
          \/ /\ \E l \in {"completed", "cancellation", "remove_flying"} : pc' = [pc EXCEPT ![Handler] = l]
             /\ has_urbs'[cur[Handler]] = FALSE
      <4> HIDE DEF FlyingInv, FlyingMatchesFlags, SubmissionHasTransfer, ArrayOwned,
           HandlerFinishes, InFlight, Retiring, BeingSubmitted, Added, Filling, Finishing,
           LockInv, CallsReturn, LocksHeld, OneSubmitter, HoldsFlying, HoldsTransfer,
           UserLabel, Submitting
      <4> QED
        BY <2>5, <1>b DEF HandleControlCompletion, Conclude
    <3> QED
      BY <3>1, <3>2, <3>3, <3>4, <1>a, <1>b
  <2>6. CASE HandleCancellation \/ RemoveFlying \/ ClearInFlight \/ InvokeCallback
    \/ CallbackReturns
    BY <2>6, <1>a, <1>b DEF HandleCancellation, RemoveFlying, ClearInFlight,
      InvokeCallback, CallbackReturns
  <2>7. CASE PollError \/ DrainDone \/ DisconnectLock \/ DisconnectDone
    BY <2>7, <1>a, <1>b DEF PollError, DrainDone, DisconnectLock, DisconnectDone
  <2>8. ASSUME NEW t \in Transfer, DisconnectFound(t) PROVE FlyingInv'
    BY <2>8, <1>a, <1>b DEF DisconnectFound
  <2>9. CASE ClearTransferPriv
    BY <2>9, <1>a, <1>b DEF ClearTransferPriv
  <2> QED
    BY <1>2, <2>1, <2>2, <2>3, <2>4, <2>5, <2>6, <2>7, <2>8, <2>9 DEF HandlerStep
<1>3. ASSUME NEW th \in Thread, NEW t \in Transfer, SubmitTransfer(th, t) PROVE
  FlyingInv'
  BY <1>3, <1>a, <1>b DEF SubmitTransfer, Call
<1>4. ASSUME NEW th \in Thread, NEW t \in Transfer, CancelTransfer(th, t) PROVE
  FlyingInv'
  BY <1>4, <1>a, <1>b DEF CancelTransfer, Call
<1>5. ASSUME NEW th \in Thread, HandleTimeouts(th) PROVE FlyingInv'
  BY <1>5, <1>a, <1>b DEF HandleTimeouts
<1>6. ASSUME NEW t \in Transfer, NEW i \in Urb, NEW status \in UrbStatus,
  KernelCompletes(t, i, status) PROVE FlyingInv'
  BY <1>6, <1>a, <1>b DEF KernelCompletes, Discarded
<1>7. CASE Unplug
  BY <1>7, <1>a, <1>b DEF Unplug
<1>8. ASSUME NEW t \in Transfer, Expire(t) PROVE FlyingInv'
  BY <1>8, <1>a, <1>b DEF Expire
<1>9. CASE UNCHANGED vars
  BY <1>a, <1>9 DEF vars
<1> HIDE DEF LockInv, CallsReturn, LocksHeld, OneSubmitter, HoldsFlying, HoldsTransfer,
     UserLabel, Submitting, FlyingInv, FlyingMatchesFlags, SubmissionHasTransfer, ArrayOwned,
     HandlerFinishes, InFlight, Retiring, BeingSubmitted, Added, Filling, Finishing
<1> QED
  BY <1>1, <1>2, <1>3, <1>4, <1>5, <1>6, <1>7, <1>8, <1>9 DEF Next, ProgramCall,
    Environment
-----------------------------------------------------------------------------
(* The URBs *)
\* The counts, transfer by transfer and thread by thread.
LEMMA Counting ==
  ASSUME TypeOK
  PROVE  /\ \A u \in Transfer : UrbsOut(u) \in Nat
         /\ EveryUrbCounted <=> \A u \in Transfer : Counted(u)
<1>1. \A t \in Transfer : /\ Cardinality(InKernel(t)) \in Nat /\ num_retired[t] \in Nat
                          /\ UrbsOf(t) \in Nat
  BY KernelCount, UrbAssumption DEF TypeOK, UrbsOf
<1> QED
  BY <1>1 DEF EveryUrbCounted, Counted, UrbsOut, Filled, InHand

\* The counts of transfers a step leaves alone stay right.
LEMMA CountFrame ==
  ASSUME IInv, NEW S \in SUBSET Transfer, Untouched(S), cur' \in [Thread -> Transfer]
  PROVE  /\ \A u \in S : Counted(u)'
         /\ \A th \in Thread : pc'[th] = "submit_urbs" /\ cur'[th] \in S => FillingCount(th)'
<1>1. \A u \in S : UrbsOut(u)' = UrbsOut(u) /\ UrbsOf(u)' = UrbsOf(u)
  BY DEF Untouched, UrbsOut, UrbsOf
<1>2. \A u \in S : Counted(u)'
  BY <1>1, Counting DEF Untouched, Counted, IInv, UrbInv
<1>3. ASSUME NEW th \in Thread, pc'[th] = "submit_urbs", cur'[th] \in S
      PROVE  FillingCount(th)'
  <2>1. FillingCount(th) /\ pc[th] = "submit_urbs" /\ cur'[th] = cur[th] /\ idx'[th] = idx[th]
    BY <1>3 DEF Untouched, IInv, UrbInv, FillingCounts
  <2> QED
    BY <1>1, <1>3, <2>1 DEF Untouched, FillingCount
<1> QED
  BY <1>2, <1>3

\* No step loses count of the URBs.
LEMMA CountStep ==
  ASSUME IInv, [Next]_vars
  PROVE  CountInv'
<1> USE UrbAssumption, ThreadAssumption, NoOneAssumption DEF flagVars, privVars,
  lockVars, listVars, callVars, threadVars, handlerVars, kernelVars, historyVars,
  worldVars, Goto, LockInv, CallsReturn, LocksHeld, OneSubmitter, HoldsFlying,
  HoldsTransfer, Submitting, Untouched, InKernel, InHand, Filled, Reapable
<1>a. /\ LockInv /\ FlyingInv /\ UrbInv /\ Handler \in Thread /\ TypeOK'
  BY TypeStep DEF IInv, Thread
<1>b. /\ pc \in [Thread -> Label] /\ cur \in [Thread -> Transfer]
      /\ back \in [Thread -> {"idle", "callback", "scan_timeouts"}]
      /\ idx \in [Thread -> 1..(NumUrbs + 1)]
  BY DEF IInv, TypeOK
<1>c. /\ urb \in [Transfer -> [Urb -> UrbState]] /\ has_urbs \in [Transfer -> BOOLEAN]
      /\ num_retired \in [Transfer -> 0..NumUrbs]
  BY DEF IInv, TypeOK
<1>p. (/\ \A u \in Transfer : UrbsOut(u) \in Nat
       /\ EveryUrbCounted <=> \A u \in Transfer : Counted(u))'
  BY <1>a, Counting, PTL
<1>e. ASSUME NEW t \in Transfer, Untouched(Transfer \ {t}), Counted(t)',
             \A th \in Thread : pc'[th] = "submit_urbs" /\ cur'[th] = t => FillingCount(th)'
      PROVE  CountInv'
  <2>1. cur' \in [Thread -> Transfer]
    BY <1>a DEF TypeOK
  <2>2. /\ \A u \in Transfer \ {t} : Counted(u)'
        /\ \A th \in Thread : pc'[th] = "submit_urbs" /\ cur'[th] \in Transfer \ {t} =>
             FillingCount(th)'
    BY <1>e, <2>1, CountFrame
  <2> QED
    BY <1>e, <1>p, <2>1, <2>2 DEF CountInv, FillingCounts
<1>d. ASSUME Untouched(Transfer) PROVE CountInv'
  <2>1. /\ \A t \in Transfer : Counted(t)'
        /\ \A th \in Thread : pc'[th] = "submit_urbs" => FillingCount(th)'
    <3>1. cur' \in [Thread -> Transfer]
      BY <1>a DEF TypeOK
    <3> QED
      BY <1>d, <3>1, CountFrame
  <2> QED
    BY <1>p, <2>1 DEF CountInv, FillingCounts
<1>1. ASSUME NEW th \in Thread, ThreadStep(th) PROVE CountInv'
  <2>1. CASE SubmitLockFlying(th) \/ SubmitBusy(th) \/ SubmitAddFlying(th)
    <3>1. Untouched(Transfer)
      BY <2>1, <1>a, <1>b, <1>c DEF SubmitLockFlying, SubmitBusy, SubmitAddFlying
    <3> QED
      BY <3>1, <1>d
  <2>2. CASE AllocUrbs(th)
    <3>0. PICK t \in Transfer : t = cur[th]
      BY <1>a, <1>b
    <3>1. t \in Transfer /\ pc[th] = "alloc_urbs" /\ ~has_urbs[t]
      <4>1. pc[th] = "alloc_urbs"
        BY <2>2 DEF AllocUrbs
      <4> QED
        BY <3>0, <4>1, <1>a DEF FlyingInv, SubmissionHasTransfer, Added, Filling
    <3>2. num_retired'[t] = 0 /\ idx'[th] = 1
      BY <3>0, <2>2, <3>1, <1>a, <1>b, <1>c DEF AllocUrbs, UrbInv, ControlNotCounted
    <3>3. UNCHANGED <<type, urb, plugged, caps, cur, reaped>> /\ pc' = [pc EXCEPT ![th] = "submit_urbs"]
      BY <3>0, <2>2 DEF AllocUrbs
    <3>4. ~InHand(t) /\ (Reapable => InKernel(t) = {})
      BY <3>0, <3>1, <1>a DEF UrbInv, UrbsOutliveKernel
    <3>5. Untouched(Transfer \ {t})
      BY <3>0, <2>2, <1>a, <1>b, <1>c DEF AllocUrbs
    <3>6. Filled(t)'
      BY <3>0, <3>1, <3>3, <1>b
    <3>7. \A other \in Thread : pc'[other] = "submit_urbs" /\ cur'[other] = t => other = th
      BY <3>0, <3>1, <3>3, <1>a, <1>b
    <3>8. FillingCount(th)'
      <4>1. /\ InKernel(t)' = InKernel(t) /\ ~InHand(t)' /\ cur'[th] = t
            /\ UrbsOf(t)' = UrbsOf(t) /\ Reapable' = Reapable
        BY <3>0, <3>1, <3>3, <3>4, <1>a, <1>b DEF UrbsOf
      <4>2. Cardinality({}) = 0 /\ UrbsOf(t) >= 1
        BY FS_EmptySet, UrbAssumption DEF UrbsOf
      <4> HIDE DEF InKernel, InHand, Reapable
      <4> QED
        BY <3>0, <3>2, <3>4, <4>1, <4>2 DEF FillingCount, UrbsOut
    <3> QED
      BY <3>0, <3>1, <3>5, <3>6, <3>7, <3>8, <1>e DEF Counted
  <2>3. CASE AllocUrbsFails(th) \/ SubmitSucceeds(th) \/ SubmitUndo(th)
    <3>1. Untouched(Transfer)
      BY <2>3, <1>a, <1>b, <1>c DEF AllocUrbsFails, SubmitSucceeds, SubmitUndo
    <3> QED
      BY <3>1, <1>d
  <2>4. CASE SubmitUrb(th)
    <3>0. PICK t \in Transfer, i \in Nat : t = cur[th] /\ i = idx[th]
      BY <1>a, <1>b
    <3>1. /\ t \in Transfer /\ pc[th] = "submit_urbs" /\ plugged /\ i \in Urb /\ i \in 1..UrbsOf(t)
          /\ UrbsOut(t) = i - 1 /\ InKernel(t) \subseteq 1..(i - 1) /\ num_retired[t] = 0
          /\ InHand(t) => reaped.index < i
      BY <3>0, <2>4, <1>a, <1>b DEF SubmitUrb, UrbInv, FillingCounts, FillingCount, UrbsOf, Urb
    <3>2. /\ urb' = [urb EXCEPT ![t][i] = "pending"] /\ idx' = [idx EXCEPT ![th] = i + 1]
          /\ pc' = [pc EXCEPT ![th] = IF i = UrbsOf(t) THEN "submit_ok" ELSE "submit_urbs"]
          /\ UNCHANGED <<type, plugged, caps, cur, reaped, num_retired, has_urbs>>
      BY <3>0, <2>4 DEF SubmitUrb, IsLastUrb
    <3>3. InKernel(t)' = InKernel(t) \cup {i} /\ i \notin InKernel(t)
      BY <3>0, <3>1, <3>2, <1>c
    <3>4. UrbsOut(t)' = i /\ UrbsOf(t)' = UrbsOf(t)
      <4>1. InHand(t)' <=> InHand(t)
        BY <3>0, <3>1, <3>2, <1>a, <1>b
      <4>2. /\ IsFiniteSet(InKernel(t)) /\ Cardinality(InKernel(t)) \in Nat
        BY <3>0, <3>1, KernelCount DEF IInv
      <4>3. Cardinality(InKernel(t)') = Cardinality(InKernel(t)) + 1
        <5> HIDE DEF InKernel
        <5> QED
          BY <3>0, <3>3, <4>2, FS_AddElement
      <4> HIDE DEF InKernel
      <4> QED
        BY <3>0, <3>1, <3>2, <4>1, <4>2, <4>3 DEF UrbsOut, UrbsOf
    <3>5. Untouched(Transfer \ {t})
      BY <3>0, <2>4, <1>a, <1>b, <1>c DEF SubmitUrb, IsLastUrb
    <3>6. \A other \in Thread : pc'[other] = "submit_urbs" /\ cur'[other] = t => other = th
      BY <3>0, <3>1, <3>2, <1>a, <1>b
    <3>7. ~Filled(t)' => i = UrbsOf(t)
      BY <3>0, <3>1, <3>2, <1>b
    <3>8. Counted(t)'
      <4> HIDE DEF Filled
      <4> QED
        BY <3>0, <3>1, <3>2, <3>4, <3>7 DEF Counted, Urb
    <3>9. pc'[th] = "submit_urbs" => FillingCount(th)'
      <4>1. InHand(t)' <=> InHand(t)
        BY <3>0, <3>1, <3>2, <1>a, <1>b
      <4>2. i + 1 <= UrbsOf(t) \/ pc'[th] # "submit_urbs"
        BY <3>0, <3>1, <3>2, <1>b DEF UrbsOf, Urb
      <4>3. InKernel(t)' \subseteq 1..i
        BY <3>0, <3>1, <3>3 DEF Urb
      <4>4. cur'[th] = t /\ idx'[th] = i + 1 /\ num_retired'[t] = 0
        BY <3>0, <3>1, <3>2, <1>b
      <4>5. reaped' = reaped /\ reaped.index \in Nat
        BY <3>2 DEF IInv, TypeOK
      <4> HIDE DEF InKernel, InHand
      <4> QED
        BY <3>0, <3>1, <3>2, <3>4, <4>1, <4>2, <4>3, <4>4, <4>5 DEF FillingCount
    <3> QED
      BY <3>0, <3>1, <3>5, <3>6, <3>8, <3>9, <1>e
  <2>5. CASE SubmitFirstUrbFails(th)
    <3>1. Untouched(Transfer)
      BY <2>5, <1>a, <1>b, <1>c DEF SubmitFirstUrbFails
    <3> QED
      BY <3>1, <1>d
  <2>6. CASE SubmitLaterUrbFails(th)
    <3>0. PICK t \in Transfer, i \in Nat : t = cur[th] /\ i = idx[th]
      BY <1>a, <1>b
    <3>1. /\ t \in Transfer /\ pc[th] = "submit_urbs" /\ i \in 2..UrbsOf(t)
          /\ UrbsOut(t) = i - 1 /\ num_retired[t] = 0
      BY <3>0, <2>6, <1>a, <1>b DEF SubmitLaterUrbFails, UrbInv, FillingCounts, FillingCount,
           UrbsOf
    <3>2. /\ num_retired' = [num_retired EXCEPT ![t] = @ + RefusedFrom(t, i)]
          /\ pc' = [pc EXCEPT ![th] = "submit_ok"]
          /\ UNCHANGED <<type, plugged, caps, cur, idx, reaped, has_urbs>>
          /\ \E U : urb' = urb \/ urb' = [urb EXCEPT ![t] = Discarded(@, U)]
      BY <3>0, <2>6 DEF SubmitLaterUrbFails
    <3>3. \A u \in Transfer : InKernel(u)' = InKernel(u)
      BY <3>0, <3>1, <3>2, <1>c DEF Discarded
    <3>4. \A u \in Transfer : InHand(u)' <=> InHand(u)
      BY <3>0, <3>1, <3>2, <1>a, <1>b
    <3>5. UrbsOut(t)' = UrbsOut(t) /\ UrbsOf(t)' = UrbsOf(t)
      <4> HIDE DEF InKernel, InHand
      <4> QED
        BY <3>0, <3>1, <3>2, <3>3, <3>4 DEF UrbsOut, UrbsOf
    <3>6. num_retired'[t] = UrbsOf(t) - i + 1
      BY <3>0, <3>1, <3>2, <1>c, UrbAssumption DEF RefusedFrom, UrbsOf
    <3>7. Counted(t)'
      BY <3>0, <3>1, <3>5, <3>6 DEF Counted, UrbsOf
    <3>8. \A other \in Thread : ~(pc'[other] = "submit_urbs" /\ cur'[other] = t)
      BY <3>0, <3>1, <3>2, <1>a, <1>b
    <3>9. Untouched(Transfer \ {t})
      BY <3>0, <2>6, <3>3, <3>4, <1>a, <1>b, <1>c DEF SubmitLaterUrbFails
    <3> QED
      BY <3>0, <3>1, <3>7, <3>8, <3>9, <1>e
  <2>7. CASE CancelNotFound(th) \/ TimeoutsLock(th) \/ MarkTimedOut(th) \/
    TimeoutsUnlock(th)
    <3>1. Untouched(Transfer)
      BY <2>7, <1>a, <1>b, <1>c DEF CancelNotFound, TimeoutsLock, MarkTimedOut,
        TimeoutsUnlock, AfterCancel
    <3> QED
      BY <3>1, <1>d
  <2>8. CASE CancelInFlight(th)
    <3>1. \A u \in Transfer : InKernel(u)' = InKernel(u)
      <4>1. urb' = [urb EXCEPT ![cur[th]] = IF has_urbs[cur[th]] THEN Discarded(@, Urb) ELSE @]
        BY <2>8 DEF CancelInFlight
      <4> QED
        BY <4>1, <1>b, <1>c DEF Discarded
    <3>2. /\ pc[th] = "cancel" /\ \E l \in {"mark_timed_out", back[th]} : pc' = [pc EXCEPT ![th] = l]
          /\ UNCHANGED <<num_retired, has_urbs, type, plugged, caps, callVars, handlerVars>>
      BY <2>8 DEF CancelInFlight, AfterCancel
    <3>3. Untouched(Transfer)
      <4> HIDE DEF InKernel
      <4> QED
        BY <3>1, <3>2, <1>a, <1>b
    <3> QED
      BY <3>3, <1>d
  <2>9. ASSUME NEW t \in Transfer, HandleTimeout(th, t) PROVE CountInv'
    <3>1. Untouched(Transfer)
      BY <2>9, <1>a, <1>b, <1>c DEF HandleTimeout
    <3> QED
      BY <3>1, <1>d
  <2> QED
    BY <1>1, <2>1, <2>2, <2>3, <2>4, <2>5, <2>6, <2>7, <2>8, <2>9 DEF ThreadStep
<1>2. CASE HandlerStep
  <2>1. ASSUME NEW t \in Transfer, NEW i \in Urb, Reap(t, i) PROVE CountInv'
    <3>1. /\ pc[Handler] = "idle" /\ Reapable /\ urb[t][i] \in UrbStatus
          /\ reaped' = [index |-> i, status |-> urb[t][i]]
          /\ urb' = [urb EXCEPT ![t][i] = "absent"]
          /\ cur' = [cur EXCEPT ![Handler] = t] /\ pc' = [pc EXCEPT ![Handler] = "reaped"]
          /\ UNCHANGED <<num_retired, has_urbs, type, plugged, caps, idx>>
      BY <2>1 DEF Reap
    <3>2. i \in InKernel(t) /\ InKernel(t)' = InKernel(t) \ {i}
      BY <3>1, <1>c DEF UrbStatus
    <3>3. ~InHand(t) /\ InHand(t)'
      BY <3>1, <1>a, <1>b
    <3>4. UrbsOut(t)' = UrbsOut(t) /\ UrbsOf(t)' = UrbsOf(t)
      <4>1. IsFiniteSet(InKernel(t)) /\ Cardinality(InKernel(t)) \in Nat
        BY KernelCount DEF IInv
      <4>2. Cardinality(InKernel(t)') = Cardinality(InKernel(t)) - 1
        <5> HIDE DEF InKernel
        <5> QED
          BY <3>2, <4>1, FS_RemoveElement
      <4> HIDE DEF InKernel, InHand
      <4> QED
        BY <3>1, <3>3, <4>1, <4>2 DEF UrbsOut, UrbsOf
    <3>5. Untouched(Transfer \ {t})
      BY <3>1, <1>a, <1>b, <1>c
    <3>6. Counted(t)'
      <4>1. Counted(t)
        BY <1>a, Counting DEF IInv, UrbInv
      <4>2. Filled(t)' <=> Filled(t)
        BY <3>1, <1>a, <1>b
      <4> QED
        BY <3>1, <3>4, <4>1, <4>2 DEF Counted
    <3>7. ASSUME NEW th \in Thread, pc'[th] = "submit_urbs", cur'[th] = t
          PROVE  FillingCount(th)'
      <4>1. /\ pc[th] = "submit_urbs" /\ cur[th] = t /\ th # Handler /\ FillingCount(th)
            /\ idx[th] \in Nat /\ InKernel(t) \subseteq 1..(idx[th] - 1)
        BY <3>1, <3>7, <1>a, <1>b DEF UrbInv, FillingCounts, FillingCount
      <4>2. reaped'.index = i /\ i < idx[th]
        BY <3>1, <3>2, <4>1
      <4>3. InKernel(t)' \subseteq InKernel(t)
        BY <3>2
      <4> HIDE DEF InKernel
      <4> QED
        BY <3>1, <3>4, <3>7, <4>1, <4>2, <4>3 DEF FillingCount
    <3> QED
      BY <3>5, <3>6, <3>7, <1>e
  <2>2. CASE HandleBulkCompletion
    <3>0. PICK t \in Transfer : t = cur[Handler]
      BY <1>a, <1>b
    <3>1. /\ pc[Handler] = "reaped" /\ transfer_lock[t] = NoOne
          /\ num_retired' = [num_retired EXCEPT ![t] = @ + 1]
          /\ UNCHANGED <<type, plugged, caps, callVars>>
      BY <3>0, <2>2 DEF HandleBulkCompletion
    <3>2. /\ t \in Transfer /\ has_urbs[t] /\ num_retired[t] + Cardinality(InKernel(t)) + 1 = UrbsOf(t)
          /\ \A th \in Thread : cur[th] = t => pc[th] # "submit_urbs"
      <4> HIDE DEF InKernel
      <4> QED
        BY <3>0, <3>1, ReapedInFlight DEF Filling
    <3>3. \/ pc' = [pc EXCEPT ![Handler] = "idle"] /\ has_urbs' = has_urbs
          \/ pc' = [pc EXCEPT ![Handler] = "completed"] /\ has_urbs' = [has_urbs EXCEPT ![t] = FALSE]
      BY <3>0, <2>2 DEF HandleBulkCompletion, AbnormalReap, NormalReap, CancelRemaining,
           Finish, Continue
    <3>4. urb' = urb \/ \E U : urb' = [urb EXCEPT ![t] = Discarded(@, U)]
      BY <3>0, <2>2 DEF HandleBulkCompletion, AbnormalReap, NormalReap, CancelRemaining,
           Finish, Continue
    <3>5. \A u \in Transfer : InKernel(u)' = InKernel(u)
      <4>1. CASE urb' = urb
        BY <4>1
      <4>2. ASSUME NEW U, urb' = [urb EXCEPT ![t] = Discarded(@, U)]
            PROVE  \A u \in Transfer : InKernel(u)' = InKernel(u)
        BY <4>2, <1>c DEF Discarded
      <4> QED
        BY <3>4, <4>1, <4>2
    <3>6. \A u \in Transfer : ~InHand(u)'
      BY <3>0, <3>3, <1>a, <1>b
    <3>7. \A th \in Thread : pc'[th] = "submit_urbs" => pc[th] = "submit_urbs"
      BY <3>0, <3>3, <1>a, <1>b
    <3>8. Untouched(Transfer \ {t})
      <4> HIDE DEF InKernel
      <4> QED
        BY <3>0, <3>1, <3>2, <3>3, <3>5, <3>7, <1>a, <1>b, <1>c
    <3>9. Counted(t)'
      <4>1. UrbsOut(t)' = Cardinality(InKernel(t)) /\ UrbsOf(t)' = UrbsOf(t)
        <5>1. Cardinality(InKernel(t)) \in Nat
          BY <3>0, <3>2, KernelCount DEF IInv
        <5>2. ~InHand(t)' /\ InKernel(t)' = InKernel(t)
          BY <3>0, <3>1, <3>2, <3>5, <3>6
        <5> HIDE DEF InKernel, InHand
        <5> QED
          BY <3>0, <3>1, <5>1, <5>2 DEF UrbsOut, UrbsOf
      <4>2. num_retired'[t] = num_retired[t] + 1 /\ num_retired[t] \in Nat
        BY <3>0, <3>1, <1>c
      <4> HIDE DEF InKernel
      <4>3. Cardinality(InKernel(t)) \in Nat
        BY KernelCount DEF IInv
      <4> QED
        BY <3>2, <4>1, <4>2, <4>3 DEF Counted, UrbsOf
    <3> QED
      BY <3>0, <3>1, <3>2, <3>7, <3>8, <3>9, <1>e
  <2>3. CASE ReadReapAction
    <3>1. Untouched(Transfer)
      BY <2>3, <1>a, <1>b, <1>c DEF ReadReapAction
    <3> QED
      BY <3>1, <1>d
  <2>4. CASE HandleIsoCompletion
    <3>0. PICK t \in Transfer : t = cur[Handler]
      BY <1>a, <1>b
    <3>1. /\ pc[Handler] = "reaped" /\ transfer_lock[t] = NoOne
          /\ num_retired' = [num_retired EXCEPT ![t] = @ + 1]
          /\ UNCHANGED <<type, plugged, caps, callVars>>
      BY <3>0, <2>4 DEF HandleIsoCompletion
    <3>2. /\ t \in Transfer /\ has_urbs[t] /\ num_retired[t] + Cardinality(InKernel(t)) + 1 = UrbsOf(t)
          /\ \A th \in Thread : cur[th] = t => pc[th] # "submit_urbs"
      <4> HIDE DEF InKernel
      <4> QED
        BY <3>0, <3>1, ReapedInFlight DEF Filling
    <3>3. \/ pc' = [pc EXCEPT ![Handler] = "idle"] /\ has_urbs' = has_urbs
          \/ /\ \E l \in {"cancellation", "remove_flying"} : pc' = [pc EXCEPT ![Handler] = l]
             /\ has_urbs' = [has_urbs EXCEPT ![t] = FALSE]
      BY <3>0, <2>4 DEF HandleIsoCompletion, Conclude
    <3>5. \A u \in Transfer : InKernel(u)' = InKernel(u)
      BY <2>4 DEF HandleIsoCompletion
    <3>6. \A u \in Transfer : ~InHand(u)'
      BY <3>0, <3>3, <1>a, <1>b
    <3>7. \A th \in Thread : pc'[th] = "submit_urbs" => pc[th] = "submit_urbs"
      BY <3>0, <3>3, <1>a, <1>b
    <3>8. Untouched(Transfer \ {t})
      <4> HIDE DEF InKernel
      <4> QED
        BY <3>0, <3>1, <3>2, <3>3, <3>5, <3>7, <1>a, <1>b, <1>c
    <3>9. Counted(t)'
      <4>1. UrbsOut(t)' = Cardinality(InKernel(t)) /\ UrbsOf(t)' = UrbsOf(t)
        <5>1. Cardinality(InKernel(t)) \in Nat
          BY <3>0, <3>2, KernelCount DEF IInv
        <5>2. ~InHand(t)' /\ InKernel(t)' = InKernel(t)
          BY <3>0, <3>1, <3>2, <3>5, <3>6
        <5> HIDE DEF InKernel, InHand
        <5> QED
          BY <3>0, <3>1, <5>1, <5>2 DEF UrbsOut, UrbsOf
      <4>2. num_retired'[t] = num_retired[t] + 1 /\ num_retired[t] \in Nat
        BY <3>0, <3>1, <1>c
      <4> HIDE DEF InKernel
      <4>3. Cardinality(InKernel(t)) \in Nat
        BY KernelCount DEF IInv
      <4> QED
        BY <3>2, <4>1, <4>2, <4>3 DEF Counted, UrbsOf
    <3> QED
      BY <3>0, <3>1, <3>2, <3>7, <3>8, <3>9, <1>e
  <2>5. CASE HandleControlCompletion
    <3>1. /\ UNCHANGED <<type, urb, plugged, caps, callVars, num_retired>> /\ pc[Handler] = "reaped"
          /\ \E l \in {"cancellation", "remove_flying"} : pc' = [pc EXCEPT ![Handler] = l]
          /\ has_urbs' = [has_urbs EXCEPT ![cur[Handler]] = FALSE]
      BY <2>5 DEF HandleControlCompletion, Conclude
    <3>2. PICK t \in Transfer : t = cur[Handler]
      BY <1>a, <1>b
    <3>3. Untouched(Transfer \ {t})
      BY <3>1, <3>2, <1>a, <1>b, <1>c
    <3>4. transfer_lock[t] = NoOne
      BY <2>5, <3>2 DEF HandleControlCompletion
    <3>5. \A th \in Thread : ~(pc'[th] = "submit_urbs" /\ cur'[th] = t)
      BY <3>1, <3>2, <3>4, <1>a, <1>b
    <3>6. ~has_urbs'[t]
      BY <3>1, <3>2, <1>c
    <3> QED
      BY <3>3, <3>5, <3>6, <1>e DEF Counted
  <2>6. CASE HandleCancellation \/ RemoveFlying \/ ClearInFlight \/ InvokeCallback
    \/ CallbackReturns
    <3>1. Untouched(Transfer)
      BY <2>6, <1>a, <1>b, <1>c DEF HandleCancellation, RemoveFlying, ClearInFlight,
        InvokeCallback, CallbackReturns
    <3> QED
      BY <3>1, <1>d
  <2>7. CASE PollError \/ DrainDone \/ DisconnectLock \/ DisconnectDone
    <3>1. Untouched(Transfer)
      BY <2>7, <1>a, <1>b, <1>c DEF PollError, DrainDone, DisconnectLock, DisconnectDone
    <3> QED
      BY <3>1, <1>d
  <2>8. ASSUME NEW t \in Transfer, DisconnectFound(t) PROVE CountInv'
    <3>1. Untouched(Transfer)
      BY <2>8, <1>a, <1>b, <1>c DEF DisconnectFound
    <3> QED
      BY <3>1, <1>d
  <2>9. CASE ClearTransferPriv
    <3>1. Untouched(Transfer)
      BY <2>9, <1>a, <1>b, <1>c DEF ClearTransferPriv
    <3> QED
      BY <3>1, <1>d
  <2> QED
    BY <1>2, <2>1, <2>2, <2>3, <2>4, <2>5, <2>6, <2>7, <2>8, <2>9 DEF HandlerStep
<1>3. ASSUME NEW th \in Thread, NEW t \in Transfer, SubmitTransfer(th, t) PROVE
  CountInv'
  <3>1. Untouched(Transfer)
    BY <1>3, <1>a, <1>b, <1>c DEF SubmitTransfer, Call
  <3> QED
    BY <3>1, <1>d
<1>4. ASSUME NEW th \in Thread, NEW t \in Transfer, CancelTransfer(th, t) PROVE
  CountInv'
  <3>1. Untouched(Transfer)
    BY <1>4, <1>a, <1>b, <1>c DEF CancelTransfer, Call
  <3> QED
    BY <3>1, <1>d
<1>5. ASSUME NEW th \in Thread, HandleTimeouts(th) PROVE CountInv'
  <3>1. Untouched(Transfer)
    BY <1>5, <1>a, <1>b, <1>c DEF HandleTimeouts
  <3> QED
    BY <3>1, <1>d
<1>6. ASSUME NEW t \in Transfer, NEW i \in Urb, NEW status \in UrbStatus,
  KernelCompletes(t, i, status) PROVE CountInv'
  <3>1. /\ urb[t][i] = "pending"
        /\ \E U : urb' = [urb EXCEPT ![t] = Discarded([@ EXCEPT ![i] = status], U)]
        /\ UNCHANGED <<privVars, type, plugged, caps, threadVars, handlerVars>>
    BY <1>6 DEF KernelCompletes
  <3>2. \A u \in Transfer : InKernel(u)' = InKernel(u)
    BY <3>1, <1>c DEF Discarded, UrbStatus
  <3>3. Untouched(Transfer)
    <4> HIDE DEF InKernel
    <4> QED
      BY <3>1, <3>2
  <3> QED
    BY <3>3, <1>d
<1>7. CASE Unplug
  <3>1. Untouched(Transfer)
    BY <1>7, <1>a, <1>b, <1>c DEF Unplug
  <3> QED
    BY <3>1, <1>d
<1>8. ASSUME NEW t \in Transfer, Expire(t) PROVE CountInv'
  <3>1. Untouched(Transfer)
    BY <1>8, <1>a, <1>b, <1>c DEF Expire
  <3> QED
    BY <3>1, <1>d
<1>9. CASE UNCHANGED vars
  <2>1. Untouched(Transfer)
    BY <1>9, <1>a, <1>b, <1>c DEF vars
  <2> QED
    BY <2>1, <1>d
<1> HIDE DEF LockInv, CallsReturn, LocksHeld, OneSubmitter, HoldsFlying, HoldsTransfer,
     Submitting, Untouched, InKernel, InHand, Filled, Reapable
<1> QED
  BY <1>1, <1>2, <1>3, <1>4, <1>5, <1>6, <1>7, <1>8, <1>9 DEF Next, ProgramCall,
    Environment

\* No step loses a URB.
LEMMA KernelStep ==
  ASSUME IInv, [Next]_vars
  PROVE  KernelInv'
<1> USE UrbAssumption, ThreadAssumption, NoOneAssumption DEF flagVars, privVars,
  lockVars, listVars, callVars, threadVars, handlerVars, kernelVars, historyVars,
  worldVars, Goto, LockInv, CallsReturn, LocksHeld, OneSubmitter, HoldsFlying,
  HoldsTransfer, Submitting, FlyingInv, FlyingMatchesFlags, SubmissionHasTransfer,
  ArrayOwned, HandlerFinishes, InFlight, Retiring, BeingSubmitted, Added, Filling,
  Finishing, UrbInv, KernelInv, UrbsOutliveKernel, SomeUrbLeft, ControlNotCounted,
  UrbsInKernel, UrbInHand, Disconnected, InHand, Filled, Reapable, UrbsOf, InKernel
<1>a. /\ LockInv /\ FlyingInv /\ UrbInv /\ Handler \in Thread
  BY DEF IInv, Thread
<1>b. /\ pc \in [Thread -> Label] /\ cur \in [Thread -> Transfer]
      /\ back \in [Thread -> {"idle", "callback", "scan_timeouts"}]
      /\ state_flags \in [Transfer -> SUBSET StateFlag]
      /\ flying \subseteq Transfer
      /\ idx \in [Thread -> 1..(NumUrbs + 1)]
  BY DEF IInv, TypeOK
<1>c. /\ urb \in [Transfer -> [Urb -> UrbState]] /\ has_urbs \in [Transfer -> BOOLEAN]
      /\ num_retired \in [Transfer -> 0..NumUrbs]
  BY DEF IInv, TypeOK
<1>1. ASSUME NEW th \in Thread, ThreadStep(th) PROVE KernelInv'
  <2>1. CASE SubmitLockFlying(th)
    <3>1. UrbsOutliveKernel'
      BY <2>1, <1>a, <1>b, <1>c DEF SubmitLockFlying
    <3>2. SomeUrbLeft'
      BY <2>1, <1>a, <1>b, <1>c DEF SubmitLockFlying
    <3>3. ControlNotCounted'
      BY <2>1, <1>a, <1>b, <1>c DEF SubmitLockFlying
    <3>4. UrbsInKernel'
      BY <2>1, <1>a, <1>b, <1>c DEF SubmitLockFlying
    <3>5. UrbInHand'
      BY <2>1, <1>a, <1>b, <1>c DEF SubmitLockFlying
    <3>6. Disconnected'
      BY <2>1, <1>a, <1>b, <1>c DEF SubmitLockFlying
    <3> QED
      BY <3>1, <3>2, <3>3, <3>4, <3>5, <3>6
  <2>2. CASE SubmitBusy(th)
    BY <2>2, <1>a, <1>b, <1>c DEF SubmitBusy
  <2>3. CASE SubmitAddFlying(th)
    BY <2>3, <1>a, <1>b, <1>c DEF SubmitAddFlying
  <2>4. CASE AllocUrbs(th)
    <3>1. UrbsOutliveKernel'
      BY <2>4, <1>a, <1>b, <1>c DEF AllocUrbs
    <3>2. SomeUrbLeft'
      BY <2>4, <1>a, <1>b, <1>c DEF AllocUrbs
    <3>3. ControlNotCounted'
      BY <2>4, <1>a, <1>b, <1>c DEF AllocUrbs
    <3>4. UrbsInKernel'
      BY <2>4, <1>a, <1>b, <1>c DEF AllocUrbs
    <3>5. UrbInHand'
      BY <2>4, <1>a, <1>b, <1>c DEF AllocUrbs
    <3>6. Disconnected'
      BY <2>4, <1>a, <1>b, <1>c DEF AllocUrbs
    <3> QED
      BY <3>1, <3>2, <3>3, <3>4, <3>5, <3>6
  <2>5. CASE AllocUrbsFails(th)
    <3>1. UrbsOutliveKernel'
      BY <2>5, <1>a, <1>b, <1>c DEF AllocUrbsFails
    <3>2. SomeUrbLeft'
      BY <2>5, <1>a, <1>b, <1>c DEF AllocUrbsFails
    <3>3. ControlNotCounted'
      BY <2>5, <1>a, <1>b, <1>c DEF AllocUrbsFails
    <3>4. UrbsInKernel'
      BY <2>5, <1>a, <1>b, <1>c DEF AllocUrbsFails
    <3>5. UrbInHand'
      BY <2>5, <1>a, <1>b, <1>c DEF AllocUrbsFails
    <3>6. Disconnected'
      BY <2>5, <1>a, <1>b, <1>c DEF AllocUrbsFails
    <3> QED
      BY <3>1, <3>2, <3>3, <3>4, <3>5, <3>6
  <2>6. CASE SubmitUrb(th)
    <3>0. PICK t \in Transfer, i \in Nat : t = cur[th] /\ i = idx[th]
      BY <1>a, <1>b
    <3>a. /\ pc[th] = "submit_urbs" /\ i \in 1..UrbsOf(t) /\ num_retired[t] = 0
          /\ Reapable \/ i > 1 => InKernel(t) \subseteq 1..(i - 1)
          /\ InHand(t) => reaped.index < i
      BY <2>6, <3>0, <1>a, <1>b DEF SubmitUrb, UrbInv, FillingCounts, FillingCount
    <3>1. UrbsOutliveKernel'
      BY <2>6, <1>a, <1>b, <1>c DEF SubmitUrb, IsLastUrb
    <3>2. SomeUrbLeft'
      <4>1. num_retired' = num_retired /\ has_urbs' = has_urbs /\ type' = type
            /\ pc' = [pc EXCEPT ![th] = IF i = UrbsOf(t) THEN "submit_ok" ELSE "submit_urbs"]
            /\ cur' = cur
        BY <2>6, <3>0 DEF SubmitUrb, IsLastUrb
      <4>2. ASSUME NEW u \in Transfer, u # t PROVE Filled(u) => Filled(u)'
        BY <3>0, <4>1, <4>2, <1>b
      <4>3. \A u \in Transfer : UrbsOf(u)' = UrbsOf(u) /\ UrbsOf(u) >= 1
        BY <4>1, UrbAssumption
      <4> HIDE DEF Filled
      <4> QED
        BY <3>0, <3>a, <4>1, <4>2, <4>3, <1>a DEF SomeUrbLeft
    <3>3. ControlNotCounted'
      BY <2>6, <1>a, <1>b, <1>c DEF SubmitUrb, IsLastUrb
    <3>4. UrbsInKernel'
      <4>1. /\ urb' = [urb EXCEPT ![t][i] = "pending"] /\ plugged /\ i \in Urb
            /\ UNCHANGED <<plugged, caps, type, reaped, cur>>
            /\ pc' = [pc EXCEPT ![th] = IF i = UrbsOf(t) THEN "submit_ok" ELSE "submit_urbs"]
        BY <2>6, <3>0, <3>a DEF SubmitUrb, IsLastUrb, Urb
      <4>2. InKernel(t) \subseteq 1..(i - 1)
        BY <3>a, <4>1
  
      <4>3. InKernel(t)' \subseteq 1..i /\ \A u \in Transfer \ {t} : InKernel(u)' = InKernel(u)
        BY <4>1, <4>2, <3>a, <1>c DEF Urb
      <4>4. \A j \in Urb : urb'[t][j] # "overflow"
        BY <4>1, <4>2, <3>a, <1>a, <1>c DEF Urb
      <4> HIDE DEF InKernel
      <4>5. \A u \in Transfer : InKernel(u)' \subseteq 1..(UrbsOf(u)')
        BY <4>1, <4>3, <3>a, <1>a
      <4>6. \A u \in Transfer \ {t} : urb'[u] = urb[u]
        BY <4>1, <1>c
      <4> QED
        BY <4>1, <4>4, <4>5, <4>6, <1>a
    <3>5. UrbInHand'
      <4>1. /\ urb' = [urb EXCEPT ![t][i] = "pending"] /\ plugged /\ i \in Urb
            /\ UNCHANGED <<plugged, caps, type, reaped, cur>>
            /\ pc' = [pc EXCEPT ![th] = IF i = UrbsOf(t) THEN "submit_ok" ELSE "submit_urbs"]
        BY <2>6, <3>0, <3>a DEF SubmitUrb, IsLastUrb, Urb
      <4>2. InKernel(t) \subseteq 1..(i - 1)
        BY <3>a, <4>1
  
      <4>3. ASSUME pc'[Handler] = "reaped"
            PROVE  /\ pc[Handler] = "reaped" /\ cur'[Handler] = cur[Handler]
                   /\ reaped.index \in Urb /\ reaped.status \in UrbStatus
                   /\ urb[cur[Handler]][reaped.index] = "absent"
        BY <4>1, <4>3, <3>0, <3>a, <1>a, <1>b
      <4>4. CASE cur[Handler] = t
        <5>1. pc'[Handler] = "reaped" => reaped.index < i /\ i <= UrbsOf(t)
          BY <4>3, <4>4, <3>a
        <5>2. pc'[Handler] = "reaped" => reaped.status # "overflow"
          BY <5>1, <4>3, <4>4, <1>a, <3>a DEF Urb
        <5>3. pc'[Handler] = "reaped" => urb'[t][reaped.index] = "absent"
          BY <5>1, <4>1, <4>3, <4>4, <1>c DEF Urb
        <5> QED
          BY <4>1, <4>3, <4>4, <5>2, <5>3
      <4>5. CASE cur[Handler] # t
        <5>1. urb'[cur[Handler]] = urb[cur[Handler]] /\ cur[Handler] \in Transfer
          BY <4>1, <4>5, <1>a, <1>b, <1>c
        <5>2. InKernel(cur[Handler])' = InKernel(cur[Handler]) /\ UrbsOf(cur[Handler])' = UrbsOf(cur[Handler])
          BY <4>1, <5>1
        <5> HIDE DEF InKernel, UrbsOf
        <5> QED
          BY <4>1, <4>3, <5>1, <5>2, <1>a
      <4> QED
        BY <4>4, <4>5
    <3>6. Disconnected'
      BY <2>6, <1>a, <1>b, <1>c DEF SubmitUrb, IsLastUrb
    <3> QED
      BY <3>1, <3>2, <3>3, <3>4, <3>5, <3>6
  <2>7. CASE SubmitFirstUrbFails(th)
    <3>0. PICK t \in Transfer, i \in Nat : t = cur[th] /\ i = idx[th]
      BY <1>a, <1>b
    <3>a. /\ pc[th] = "submit_urbs" /\ i \in 1..UrbsOf(t) /\ num_retired[t] = 0
          /\ Reapable \/ i > 1 => InKernel(t) \subseteq 1..(i - 1)
          /\ InHand(t) => reaped.index < i
      BY <2>7, <3>0, <1>a, <1>b DEF SubmitFirstUrbFails, UrbInv, FillingCounts, FillingCount
    <3>1. UrbsOutliveKernel'
      <4>1. /\ i = 1 /\ has_urbs' = [has_urbs EXCEPT ![t] = FALSE]
            /\ UNCHANGED <<urb, plugged, caps, type, reaped, cur>> /\ pc' = [pc EXCEPT ![th] = "submit_undo"]
        BY <2>7, <3>0 DEF SubmitFirstUrbFails
      <4>2. Reapable => InKernel(t) = {}
        BY <4>1, <3>a
      <4>3. ~InHand(t)
        BY <4>1, <3>a, <1>a DEF Urb
      <4>4. \A u \in Transfer : InKernel(u)' = InKernel(u) /\ (InHand(u)' => InHand(u))
        BY <4>1, <3>a, <3>0, <1>a, <1>b
      <4>5. UrbsOutliveKernel /\ Reapable' = Reapable
        BY <4>1, <1>a
      <4> HIDE DEF InKernel, Reapable
      <4> QED
        BY <4>1, <4>2, <4>3, <4>4, <4>5, <1>c
    <3>2. SomeUrbLeft'
      BY <2>7, <1>a, <1>b, <1>c DEF SubmitFirstUrbFails
    <3>3. ControlNotCounted'
      BY <2>7, <1>a, <1>b, <1>c DEF SubmitFirstUrbFails
    <3>4. UrbsInKernel'
      BY <2>7, <1>a, <1>b, <1>c DEF SubmitFirstUrbFails
    <3>5. UrbInHand'
      BY <2>7, <1>a, <1>b, <1>c DEF SubmitFirstUrbFails
    <3>6. Disconnected'
      BY <2>7, <1>a, <1>b, <1>c DEF SubmitFirstUrbFails
    <3> QED
      BY <3>1, <3>2, <3>3, <3>4, <3>5, <3>6
  <2>8. CASE SubmitLaterUrbFails(th)
    <3>0. PICK t \in Transfer, i \in Nat : t = cur[th] /\ i = idx[th]
      BY <1>a, <1>b
    <3>a. /\ pc[th] = "submit_urbs" /\ i \in 1..UrbsOf(t) /\ num_retired[t] = 0
          /\ Reapable \/ i > 1 => InKernel(t) \subseteq 1..(i - 1)
          /\ InHand(t) => reaped.index < i
      BY <2>8, <3>0, <1>a, <1>b DEF SubmitLaterUrbFails, UrbInv, FillingCounts, FillingCount
    <3>1. UrbsOutliveKernel'
      <4>1. /\ num_retired' = [num_retired EXCEPT ![t] = @ + RefusedFrom(t, i)] /\ i > 1
            /\ pc' = [pc EXCEPT ![th] = "submit_ok"]
            /\ UNCHANGED <<type, plugged, caps, cur, idx, reaped, has_urbs>>
            /\ \E U : urb' = urb \/ urb' = [urb EXCEPT ![t] = Discarded(@, U)]
        BY <2>8, <3>0 DEF SubmitLaterUrbFails
  
      <4>2. \A u \in Transfer, j \in Urb :
              \/ urb'[u][j] = urb[u][j]
              \/ urb[u][j] = "pending" /\ urb'[u][j] \notin {"absent", "pending", "overflow"}
        BY <4>1, <1>c DEF Discarded
      <4>3. UrbsInKernel' /\ \A u \in Transfer : InKernel(u)' = InKernel(u)
        <5> HIDE DEF InKernel, UrbsInKernel
        <5> QED
          BY <4>1, <4>2, UrbsSettle
  
      <4>4. \A u \in Transfer : InHand(u)' => InHand(u)
        BY <4>1, <3>a, <3>0, <1>a, <1>b
      <4>5. UrbsOutliveKernel /\ Reapable' = Reapable
        BY <4>1, <1>a
      <4> HIDE DEF InKernel, Reapable
      <4> QED
        BY <4>1, <4>3, <4>4, <4>5
    <3>2. SomeUrbLeft'
      <4>1. /\ num_retired' = [num_retired EXCEPT ![t] = @ + RefusedFrom(t, i)] /\ i > 1
            /\ pc' = [pc EXCEPT ![th] = "submit_ok"]
            /\ UNCHANGED <<type, plugged, caps, cur, idx, reaped, has_urbs>>
            /\ \E U : urb' = urb \/ urb' = [urb EXCEPT ![t] = Discarded(@, U)]
        BY <2>8, <3>0 DEF SubmitLaterUrbFails
  
      <4>2. num_retired'[t] < UrbsOf(t) /\ UrbsOf(t)' = UrbsOf(t)
        BY <4>1, <3>a, <1>c, UrbAssumption DEF RefusedFrom
      <4>3. ASSUME NEW u \in Transfer, u # t
            PROVE  /\ num_retired'[u] = num_retired[u] /\ UrbsOf(u)' = UrbsOf(u)
                   /\ Filled(u) => Filled(u)'
        BY <4>1, <4>3, <3>0, <3>a, <1>b, <1>c
      <4> HIDE DEF Filled, UrbsOf
      <4> QED
        BY <4>1, <4>2, <4>3, <1>a
    <3>3. ControlNotCounted'
      <4>1. /\ num_retired' = [num_retired EXCEPT ![t] = @ + RefusedFrom(t, i)] /\ i > 1
            /\ pc' = [pc EXCEPT ![th] = "submit_ok"]
            /\ UNCHANGED <<type, plugged, caps, cur, idx, reaped, has_urbs>>
            /\ \E U : urb' = urb \/ urb' = [urb EXCEPT ![t] = Discarded(@, U)]
        BY <2>8, <3>0 DEF SubmitLaterUrbFails
  
      <4>2. type[t] # "control"
        BY <4>1, <3>a
      <4> QED
        BY <4>1, <4>2, <1>a, <1>c
    <3>4. UrbsInKernel'
      <4>1. /\ num_retired' = [num_retired EXCEPT ![t] = @ + RefusedFrom(t, i)] /\ i > 1
            /\ pc' = [pc EXCEPT ![th] = "submit_ok"]
            /\ UNCHANGED <<type, plugged, caps, cur, idx, reaped, has_urbs>>
            /\ \E U : urb' = urb \/ urb' = [urb EXCEPT ![t] = Discarded(@, U)]
        BY <2>8, <3>0 DEF SubmitLaterUrbFails
  
      <4>2. \A u \in Transfer, j \in Urb :
              \/ urb'[u][j] = urb[u][j]
              \/ urb[u][j] = "pending" /\ urb'[u][j] \notin {"absent", "pending", "overflow"}
        BY <4>1, <1>c DEF Discarded
      <4>3. UrbsInKernel' /\ \A u \in Transfer : InKernel(u)' = InKernel(u)
        <5> HIDE DEF InKernel, UrbsInKernel
        <5> QED
          BY <4>1, <4>2, UrbsSettle
      <4> QED
        BY <4>3
    <3>5. UrbInHand'
      BY <2>8, <1>a, <1>b, <1>c DEF SubmitLaterUrbFails, RefusedFrom, Discarded
    <3>6. Disconnected'
      BY <2>8, <1>a, <1>b, <1>c DEF SubmitLaterUrbFails, RefusedFrom, Discarded
    <3> QED
      BY <3>1, <3>2, <3>3, <3>4, <3>5, <3>6
  <2>9. CASE SubmitSucceeds(th)
    BY <2>9, <1>a, <1>b, <1>c DEF SubmitSucceeds
  <2>10. CASE SubmitUndo(th)
    BY <2>10, <1>a, <1>b, <1>c DEF SubmitUndo
  <2>11. CASE CancelNotFound(th)
    <3>1. UrbsOutliveKernel'
      BY <2>11, <1>a, <1>b, <1>c DEF CancelNotFound, AfterCancel
    <3>2. SomeUrbLeft'
      BY <2>11, <1>a, <1>b, <1>c DEF CancelNotFound, AfterCancel
    <3>3. ControlNotCounted'
      BY <2>11, <1>a, <1>b, <1>c DEF CancelNotFound, AfterCancel
    <3>4. UrbsInKernel'
      BY <2>11, <1>a, <1>b, <1>c DEF CancelNotFound, AfterCancel
    <3>5. UrbInHand'
      BY <2>11, <1>a, <1>b, <1>c DEF CancelNotFound, AfterCancel
    <3>6. Disconnected'
      <4>1. /\ pc' = [pc EXCEPT ![th] = back[th]]
            /\ UNCHANGED <<state_flags, urb, plugged, caps, mode, fd_removed, idx>>
        BY <2>11 DEF CancelNotFound, AfterCancel
      <4> QED
        BY <4>1, <1>a, <1>b
    <3> QED
      BY <3>1, <3>2, <3>3, <3>4, <3>5, <3>6
  <2>12. CASE CancelInFlight(th)
    <3>1. UrbsOutliveKernel'
      BY <2>12, <1>a, <1>b, <1>c DEF CancelInFlight, AfterCancel, DiscardResult, Discarded
    <3>2. SomeUrbLeft'
      BY <2>12, <1>a, <1>b, <1>c DEF CancelInFlight, AfterCancel, DiscardResult, Discarded
    <3>3. ControlNotCounted'
      BY <2>12, <1>a, <1>b, <1>c DEF CancelInFlight, AfterCancel, DiscardResult, Discarded
    <3>4. UrbsInKernel'
      <4>1. /\ urb' = [urb EXCEPT ![cur[th]] = IF has_urbs[cur[th]] THEN Discarded(@, Urb) ELSE @]
            /\ UNCHANGED <<type, plugged>>
        BY <2>12 DEF CancelInFlight
  
      <4>2. \A u \in Transfer, j \in Urb :
              \/ urb'[u][j] = urb[u][j]
              \/ urb[u][j] = "pending" /\ urb'[u][j] \notin {"absent", "pending", "overflow"}
        BY <4>1, <1>b, <1>c DEF Discarded
      <4>3. UrbsInKernel' /\ \A u \in Transfer : InKernel(u)' = InKernel(u)
        <5> HIDE DEF InKernel, UrbsInKernel
        <5> QED
          BY <4>1, <4>2, UrbsSettle
      <4> QED
        BY <4>3
    <3>5. UrbInHand'
      BY <2>12, <1>a, <1>b, <1>c DEF CancelInFlight, AfterCancel, DiscardResult, Discarded
    <3>6. Disconnected'
      BY <2>12, <1>a, <1>b, <1>c DEF CancelInFlight, AfterCancel, DiscardResult, Discarded
    <3> QED
      BY <3>1, <3>2, <3>3, <3>4, <3>5, <3>6
  <2>13. CASE TimeoutsLock(th)
    BY <2>13, <1>a, <1>b, <1>c DEF TimeoutsLock
  <2>14. CASE MarkTimedOut(th)
    BY <2>14, <1>a, <1>b, <1>c DEF MarkTimedOut
  <2>15. CASE TimeoutsUnlock(th)
    BY <2>15, <1>a, <1>b, <1>c DEF TimeoutsUnlock
  <2>16. ASSUME NEW t \in Transfer, HandleTimeout(th, t) PROVE KernelInv'
    BY <2>16, <1>a, <1>b, <1>c DEF HandleTimeout
  <2> QED
    BY <1>1, <2>1, <2>2, <2>3, <2>4, <2>5, <2>6, <2>7, <2>8, <2>9, <2>10, <2>11,
      <2>12, <2>13, <2>14, <2>15, <2>16 DEF ThreadStep
<1>2. CASE HandlerStep
  <2>1. ASSUME NEW t \in Transfer, NEW i \in Urb, Reap(t, i) PROVE KernelInv'
    <3>1. UrbsOutliveKernel'
      <4>1. /\ Reapable /\ urb[t][i] \in UrbStatus
            /\ urb[t][i] # "discarded" => \A j \in 1..(i - 1) : urb[t][j] \notin UrbStatus
            /\ reaped' = [index |-> i, status |-> urb[t][i]]
            /\ urb' = [urb EXCEPT ![t][i] = "absent"]
            /\ cur' = [cur EXCEPT ![Handler] = t] /\ pc' = [pc EXCEPT ![Handler] = "reaped"]
            /\ UNCHANGED <<has_urbs, type, plugged, caps>>
        BY <2>1 DEF Reap
      <4>2. i \in InKernel(t)
        BY <4>1 DEF UrbStatus
  
      <4>3. has_urbs[t]
        BY <4>1, <4>2, <1>a
      <4>4. \A u \in Transfer : InKernel(u)' \subseteq InKernel(u)
        BY <4>1, <1>c
      <4>5. cur'[Handler] = t
        BY <4>1, <1>a, <1>b
      <4> HIDE DEF InKernel
      <4> QED
        BY <4>1, <4>3, <4>4, <4>5, <1>a
    <3>2. SomeUrbLeft'
      BY <2>1, <1>a, <1>b, <1>c DEF Reap
    <3>3. ControlNotCounted'
      BY <2>1, <1>a, <1>b, <1>c DEF Reap
    <3>4. UrbsInKernel'
      BY <2>1, <1>a, <1>b, <1>c DEF Reap
    <3>5. UrbInHand'
      <4>1. /\ Reapable /\ urb[t][i] \in UrbStatus
            /\ urb[t][i] # "discarded" => \A j \in 1..(i - 1) : urb[t][j] \notin UrbStatus
            /\ reaped' = [index |-> i, status |-> urb[t][i]]
            /\ urb' = [urb EXCEPT ![t][i] = "absent"]
            /\ cur' = [cur EXCEPT ![Handler] = t] /\ pc' = [pc EXCEPT ![Handler] = "reaped"]
            /\ UNCHANGED <<has_urbs, type, plugged, caps>>
        BY <2>1 DEF Reap
      <4>2. i \in InKernel(t)
        BY <4>1 DEF UrbStatus
  
      <4>3. cur'[Handler] = t /\ urb'[t][i] = "absent" /\ UrbsOf(t)' = UrbsOf(t)
        BY <4>1, <1>a, <1>b, <1>c
      <4>4. ASSUME urb[t][i] = "overflow" PROVE i = UrbsOf(t) /\ InKernel(t)' = {}
        <5>1. i = UrbsOf(t) /\ \A j \in 1..(i - 1) : urb[t][j] # "pending"
          BY <4>4, <1>a
        <5>2. \A j \in 1..(i - 1) : urb[t][j] \notin UrbStatus
          BY <4>1, <4>4
        <5>3. \A j \in 1..(i - 1) : j \in Urb /\ urb[t][j] \in UrbState
          BY <1>c DEF Urb
        <5>4. \A j \in 1..(i - 1) : urb[t][j] = "absent"
          BY <5>1, <5>2, <5>3 DEF UrbState
        <5>5. InKernel(t) \subseteq 1..i
          BY <5>1, <1>a
        <5>6. \A j \in InKernel(t)' : j \in InKernel(t) /\ j # i
          BY <4>1, <1>c
        <5> QED
          BY <5>1, <5>4, <5>5, <5>6 DEF Urb
      <4> HIDE DEF InKernel
      <4>5. InKernel(cur[Handler])' = InKernel(t)'
        BY <4>3 DEF InKernel
      <4>6. UrbsOf(cur[Handler])' = UrbsOf(t)
        BY <4>3
      <4> HIDE DEF UrbsOf
      <4> QED
        BY <4>1, <4>3, <4>4, <4>5, <4>6
    <3>6. Disconnected'
      BY <2>1, <1>a, <1>b, <1>c DEF Reap
    <3> QED
      BY <3>1, <3>2, <3>3, <3>4, <3>5, <3>6
  <2>2. CASE HandleBulkCompletion
    <3>0. PICK t \in Transfer : t = cur[Handler]
      BY <1>a, <1>b
    <3>a. /\ pc[Handler] = "reaped" /\ transfer_lock[t] = NoOne
      BY <2>2, <3>0 DEF HandleBulkCompletion
    <3>b. /\ num_retired[t] + 1 <= UrbsOf(t) /\ has_urbs[t]
          /\ num_retired[t] + 1 = UrbsOf(t) \/ type[t] = "control" => InKernel(t) = {}
          /\ \A th \in Thread : cur[th] = t => pc[th] # "submit_urbs"
      <4> HIDE DEF InKernel, UrbsOf
      <4> QED
        BY <3>0, <3>a, LastUrbIn, ReapedInFlight DEF Filling
    <3>c. /\ num_retired' = [num_retired EXCEPT ![t] = @ + 1]
          /\ UNCHANGED <<type, plugged, caps, callVars>>
          /\ \/ pc' = [pc EXCEPT ![Handler] = "idle"] /\ has_urbs' = has_urbs
             \/ pc' = [pc EXCEPT ![Handler] = "completed"] /\ has_urbs' = [has_urbs EXCEPT ![t] = FALSE]
      BY <2>2, <3>0 DEF HandleBulkCompletion, AbnormalReap, NormalReap, CancelRemaining,
           Finish, Continue
    <3>d. \A u \in Transfer : ~InHand(u)' /\ (Filled(u) => Filled(u)')
      BY <3>0, <3>a, <3>c, <1>a, <1>b
    <3>e. \/ urb' = urb \/ \E U : urb' = [urb EXCEPT ![t] = Discarded(@, U)]
      BY <2>2, <3>0 DEF HandleBulkCompletion, AbnormalReap, NormalReap, CancelRemaining,
           Finish, Continue
    <3>f. /\ UrbsInKernel'
          /\ \A u \in Transfer : InKernel(u)' = InKernel(u)
      <4>1. \A u \in Transfer, j \in Urb :
              \/ urb'[u][j] = urb[u][j]
              \/ urb[u][j] = "pending" /\ urb'[u][j] \notin {"absent", "pending", "overflow"}
        <5>1. CASE urb' = urb
          BY <5>1
        <5>2. ASSUME NEW U, urb' = [urb EXCEPT ![t] = Discarded(@, U)]
              PROVE  \A u \in Transfer, j \in Urb :
                       \/ urb'[u][j] = urb[u][j]
                       \/ urb[u][j] = "pending" /\ urb'[u][j] \notin {"absent", "pending", "overflow"}
          BY <5>2, <1>c DEF Discarded
        <5> QED
          BY <3>e, <5>1, <5>2
      <4> HIDE DEF InKernel, UrbsInKernel
      <4> QED
        BY <3>c, <4>1, UrbsSettle
    <3>g. has_urbs'[t] => num_retired[t] + 1 # UrbsOf(t)
      BY <2>2, <3>0, <1>c DEF HandleBulkCompletion, AbnormalReap, NormalReap, CancelRemaining,
           Finish, Continue
    <3>h. ~has_urbs'[t] => InKernel(t) = {}
      <4>1. reaped.status = "overflow" => InKernel(t) = {}
        BY <3>0, <3>a, <1>a
      <4> HIDE DEF InKernel
      <4> QED
        BY <2>2, <3>0, <3>b, <4>1, <1>c DEF HandleBulkCompletion, AbnormalReap, NormalReap,
             CancelRemaining, Finish, Continue
    <3>1. UrbsOutliveKernel'
      <4>1. UrbsOutliveKernel /\ Reapable' = Reapable
        BY <3>c, <1>a
      <4>2. \A u \in Transfer \ {t} : has_urbs'[u] = has_urbs[u]
        BY <3>c, <1>c
      <4> HIDE DEF InKernel, Reapable
      <4> QED
        BY <3>d, <3>f, <3>h, <4>1, <4>2
    <3>2. SomeUrbLeft'
      <4>1. num_retired'[t] = num_retired[t] + 1 /\ num_retired[t] \in Nat /\ UrbsOf(t) \in Nat
        BY <3>c, <1>c, UrbAssumption
      <4>2. \A u \in Transfer : UrbsOf(u)' = UrbsOf(u)
        BY <3>c
      <4>3. \A u \in Transfer \ {t} : has_urbs'[u] = has_urbs[u] /\ num_retired'[u] = num_retired[u]
        BY <3>c, <1>c
      <4> HIDE DEF Filled, UrbsOf
      <4> QED
        BY <3>b, <3>d, <3>g, <4>1, <4>2, <4>3, <1>a
    <3>3. ControlNotCounted'
      <4>1. type[t] # "control"
        BY <2>2, <3>0 DEF HandleBulkCompletion, Bulk
      <4> QED
        BY <3>c, <4>1, <1>a, <1>c
    <3>4. UrbsInKernel'
      BY <3>f
    <3>5. UrbInHand'
      BY <2>2, <1>a, <1>b, <1>c DEF HandleBulkCompletion, AbnormalReap, NormalReap,
        Finish, Continue, CancelRemaining, IfStillCompleted, Discarded
    <3>6. Disconnected'
      BY <2>2, <1>a, <1>b, <1>c DEF HandleBulkCompletion, AbnormalReap, NormalReap,
        Finish, Continue, CancelRemaining, IfStillCompleted, Discarded
    <3> QED
      BY <3>1, <3>2, <3>3, <3>4, <3>5, <3>6
  <2>3. CASE ReadReapAction
    BY <2>3, <1>a, <1>b, <1>c DEF ReadReapAction
  <2>4. CASE HandleIsoCompletion
    <3>0. PICK t \in Transfer : t = cur[Handler]
      BY <1>a, <1>b
    <3>a. /\ pc[Handler] = "reaped" /\ transfer_lock[t] = NoOne
      BY <2>4, <3>0 DEF HandleIsoCompletion
    <3>b. /\ num_retired[t] + 1 <= UrbsOf(t) /\ has_urbs[t]
          /\ num_retired[t] + 1 = UrbsOf(t) \/ type[t] = "control" => InKernel(t) = {}
          /\ \A th \in Thread : cur[th] = t => pc[th] # "submit_urbs"
      <4> HIDE DEF InKernel, UrbsOf
      <4> QED
        BY <3>0, <3>a, LastUrbIn, ReapedInFlight DEF Filling
    <3>1. UrbsOutliveKernel'
      <4>1. /\ UNCHANGED <<urb, type, plugged, caps, callVars>>
            /\ \E l \in {"idle", "cancellation", "remove_flying"} : pc' = [pc EXCEPT ![Handler] = l]
            /\ \/ has_urbs' = has_urbs
               \/ has_urbs' = [has_urbs EXCEPT ![t] = FALSE] /\ num_retired[t] + 1 = UrbsOf(t)
        BY <2>4, <3>0 DEF HandleIsoCompletion, Conclude
      <4>2. \A u \in Transfer : ~InHand(u)' /\ InKernel(u)' = InKernel(u)
        BY <4>1, <1>a, <1>b
      <4>3. UrbsOutliveKernel /\ Reapable' = Reapable
        BY <4>1, <1>a
      <4> HIDE DEF InKernel, Reapable
      <4> QED
        BY <3>b, <4>1, <4>2, <4>3, <1>c
    <3>2. SomeUrbLeft'
      <4>1. /\ UNCHANGED <<type, callVars>> /\ num_retired' = [num_retired EXCEPT ![t] = @ + 1]
            /\ \E l \in {"idle", "cancellation", "remove_flying"} : pc' = [pc EXCEPT ![Handler] = l]
            /\ \/ has_urbs' = has_urbs /\ num_retired[t] + 1 # UrbsOf(t)
               \/ has_urbs' = [has_urbs EXCEPT ![t] = FALSE]
        BY <2>4, <3>0 DEF HandleIsoCompletion, Conclude
      <4>2. \A u \in Transfer : (Filled(u) => Filled(u)') /\ UrbsOf(u)' = UrbsOf(u)
        BY <3>0, <3>a, <4>1, <1>a, <1>b
      <4>3. num_retired'[t] = num_retired[t] + 1 /\ num_retired[t] \in Nat /\ UrbsOf(t) \in Nat
        BY <4>1, <1>c, UrbAssumption
      <4>4. \A u \in Transfer \ {t} : has_urbs'[u] = has_urbs[u] /\ num_retired'[u] = num_retired[u]
        BY <4>1, <1>c
      <4>5. has_urbs'[t] => num_retired[t] + 1 # UrbsOf(t)
        BY <4>1, <1>c
      <4> HIDE DEF Filled, UrbsOf
      <4> QED
        BY <3>b, <4>2, <4>3, <4>4, <4>5, <1>a
    <3>3. ControlNotCounted'
      BY <2>4, <1>a, <1>b, <1>c DEF HandleIsoCompletion, Conclude, IsoStatus
    <3>4. UrbsInKernel'
      BY <2>4, <1>a, <1>b, <1>c DEF HandleIsoCompletion, Conclude, IsoStatus
    <3>5. UrbInHand'
      BY <2>4, <1>a, <1>b, <1>c DEF HandleIsoCompletion, Conclude, IsoStatus
    <3>6. Disconnected'
      BY <2>4, <1>a, <1>b, <1>c DEF HandleIsoCompletion, Conclude, IsoStatus
    <3> QED
      BY <3>1, <3>2, <3>3, <3>4, <3>5, <3>6
  <2>5. CASE HandleControlCompletion
    <3>0. PICK t \in Transfer : t = cur[Handler]
      BY <1>a, <1>b
    <3>a. /\ pc[Handler] = "reaped" /\ transfer_lock[t] = NoOne
      BY <2>5, <3>0 DEF HandleControlCompletion
    <3>b. /\ num_retired[t] + 1 <= UrbsOf(t) /\ has_urbs[t]
          /\ num_retired[t] + 1 = UrbsOf(t) \/ type[t] = "control" => InKernel(t) = {}
          /\ \A th \in Thread : cur[th] = t => pc[th] # "submit_urbs"
      <4> HIDE DEF InKernel, UrbsOf
      <4> QED
        BY <3>0, <3>a, LastUrbIn, ReapedInFlight DEF Filling
    <3>1. UrbsOutliveKernel'
      <4>1. /\ UNCHANGED <<urb, type, plugged, caps, callVars>> /\ type[t] = "control"
            /\ \E l \in {"cancellation", "remove_flying"} : pc' = [pc EXCEPT ![Handler] = l]
            /\ has_urbs' = [has_urbs EXCEPT ![t] = FALSE]
        BY <2>5, <3>0 DEF HandleControlCompletion, Conclude
      <4>2. \A u \in Transfer : ~InHand(u)' /\ InKernel(u)' = InKernel(u)
        BY <4>1, <1>a, <1>b
      <4>3. UrbsOutliveKernel /\ Reapable' = Reapable
        BY <4>1, <1>a
      <4> HIDE DEF InKernel, Reapable
      <4> QED
        BY <3>b, <4>1, <4>2, <4>3, <1>c
    <3>2. SomeUrbLeft'
      BY <2>5, <1>a, <1>b, <1>c DEF HandleControlCompletion, Conclude, ControlStatus
    <3>3. ControlNotCounted'
      BY <2>5, <1>a, <1>b, <1>c DEF HandleControlCompletion, Conclude, ControlStatus
    <3>4. UrbsInKernel'
      BY <2>5, <1>a, <1>b, <1>c DEF HandleControlCompletion, Conclude, ControlStatus
    <3>5. UrbInHand'
      BY <2>5, <1>a, <1>b, <1>c DEF HandleControlCompletion, Conclude, ControlStatus
    <3>6. Disconnected'
      BY <2>5, <1>a, <1>b, <1>c DEF HandleControlCompletion, Conclude, ControlStatus
    <3> QED
      BY <3>1, <3>2, <3>3, <3>4, <3>5, <3>6
  <2>6. CASE HandleCancellation
    BY <2>6, <1>a, <1>b, <1>c DEF HandleCancellation
  <2>7. CASE RemoveFlying
    BY <2>7, <1>a, <1>b, <1>c DEF RemoveFlying
  <2>8. CASE ClearInFlight
    BY <2>8, <1>a, <1>b, <1>c DEF ClearInFlight
  <2>9. CASE InvokeCallback
    BY <2>9, <1>a, <1>b, <1>c DEF InvokeCallback
  <2>10. CASE CallbackReturns
    BY <2>10, <1>a, <1>b, <1>c DEF CallbackReturns
  <2>11. CASE PollError
    BY <2>11, <1>a, <1>b, <1>c DEF PollError
  <2>12. CASE DrainDone
    BY <2>12, <1>a, <1>b, <1>c DEF DrainDone
  <2>13. CASE DisconnectLock
    BY <2>13, <1>a, <1>b, <1>c DEF DisconnectLock
  <2>14. ASSUME NEW t \in Transfer, DisconnectFound(t) PROVE KernelInv'
    BY <2>14, <1>a, <1>b, <1>c DEF DisconnectFound
  <2>15. CASE DisconnectDone
    BY <2>15, <1>a, <1>b, <1>c DEF DisconnectDone
  <2>16. CASE ClearTransferPriv
    BY <2>16, <1>a, <1>b, <1>c DEF ClearTransferPriv
  <2> QED
    BY <1>2, <2>1, <2>2, <2>3, <2>4, <2>5, <2>6, <2>7, <2>8, <2>9, <2>10, <2>11,
      <2>12, <2>13, <2>14, <2>15, <2>16 DEF HandlerStep
<1>3. ASSUME NEW th \in Thread, NEW t \in Transfer, SubmitTransfer(th, t) PROVE
  KernelInv'
  BY <1>3, <1>a, <1>b, <1>c DEF SubmitTransfer, Call
<1>4. ASSUME NEW th \in Thread, NEW t \in Transfer, CancelTransfer(th, t) PROVE
  KernelInv'
  BY <1>4, <1>a, <1>b, <1>c DEF CancelTransfer, Call
<1>5. ASSUME NEW th \in Thread, HandleTimeouts(th) PROVE KernelInv'
  BY <1>5, <1>a, <1>b, <1>c DEF HandleTimeouts
<1>6. ASSUME NEW t \in Transfer, NEW i \in Urb, NEW status \in UrbStatus,
  KernelCompletes(t, i, status) PROVE KernelInv'
  <3>a. /\ plugged /\ urb[t][i] = "pending" /\ \A j \in 1..(i - 1) : urb[t][j] # "pending"
        /\ status = "overflow" => i = UrbsOf(t)
        /\ \E U : urb' = [urb EXCEPT ![t] = Discarded([@ EXCEPT ![i] = status], U)]
        /\ UNCHANGED <<has_urbs, type, plugged, caps, reaped, cur, pc>>
    BY <1>6 DEF KernelCompletes
  <3>b. \A u \in Transfer, j \in Urb :
          \/ urb'[u][j] = urb[u][j]
          \/ urb[u][j] = "pending" /\ urb'[u][j] \in {"discarded", status}
    BY <3>a, <1>c DEF Discarded
  <3>c. \A u \in Transfer : InKernel(u)' = InKernel(u) /\ UrbsOf(u)' = UrbsOf(u)
    BY <3>a, <3>b DEF UrbStatus
  <3>d. \A j \in Urb : urb'[t][j] = "overflow" => urb[t][j] = "overflow" \/ (j = i /\ i = UrbsOf(t))
    BY <3>a, <1>c DEF Discarded
  <3>e. \A u \in Transfer, j \in Urb : urb'[u][j] = "pending" => urb[u][j] = "pending"
    BY <3>b
  <3>1. UrbsOutliveKernel'
    <4>1. UrbsOutliveKernel /\ Reapable' = Reapable
      BY <3>a, <1>a
    <4> HIDE DEF InKernel, Reapable
    <4> QED
      BY <3>a, <3>c, <4>1
  <3>2. SomeUrbLeft'
    BY <1>6, <1>a, <1>b, <1>c DEF KernelCompletes, Discarded
  <3>3. ControlNotCounted'
    BY <1>6, <1>a, <1>b, <1>c DEF KernelCompletes, Discarded
  <3>4. UrbsInKernel'
    <4>1. \A u \in Transfer \ {t} : urb'[u] = urb[u]
      BY <3>a, <1>c
    <4>2. \A j \in Urb : j - 1 <= NumUrbs /\ 1..(j - 1) \subseteq Urb
      BY UrbAssumption DEF Urb
    <4>3. ASSUME NEW u \in Transfer, NEW j \in Urb, urb'[u][j] = "overflow"
          PROVE  j = UrbsOf(u) /\ \A k \in 1..(j - 1) : urb'[u][k] # "pending"
      <5>1. CASE u # t
        BY <4>1, <4>3, <5>1, <1>a
      <5>2. CASE u = t /\ urb[t][j] = "overflow"
        BY <3>e, <4>2, <5>2, <1>a
      <5>3. CASE u = t /\ j = i /\ i = UrbsOf(t)
        BY <3>a, <3>e, <4>2, <5>3
      <5> QED
        BY <3>d, <4>3, <5>1, <5>2, <5>3
    <4> HIDE DEF InKernel, UrbsOf
    <4> QED
      BY <3>a, <3>c, <4>3, <1>a
  <3>5. UrbInHand'
    BY <1>6, <1>a, <1>b, <1>c DEF KernelCompletes, Discarded
  <3>6. Disconnected'
    BY <1>6, <1>a, <1>b, <1>c DEF KernelCompletes, Discarded
  <3> QED
    BY <3>1, <3>2, <3>3, <3>4, <3>5, <3>6
<1>7. CASE Unplug
  <3>1. UrbsOutliveKernel'
    BY <1>7, <1>a, <1>b, <1>c DEF Unplug
  <3>2. SomeUrbLeft'
    BY <1>7, <1>a, <1>b, <1>c DEF Unplug
  <3>3. ControlNotCounted'
    BY <1>7, <1>a, <1>b, <1>c DEF Unplug
  <3>4. UrbsInKernel'
    <4>1. type' = type /\ plugged' = FALSE
      BY <1>7 DEF Unplug
    <4>2. \A u \in Transfer, j \in Urb :
            \/ urb'[u][j] = urb[u][j] /\ urb'[u][j] # "pending"
            \/ urb[u][j] = "pending" /\ urb'[u][j] = "nodev"
      BY <1>7 DEF Unplug
    <4> HIDE DEF InKernel, UrbsInKernel
    <4> QED
      BY <4>1, <4>2, UrbsSettle
  <3>5. UrbInHand'
    BY <1>7, <1>a, <1>b, <1>c DEF Unplug
  <3>6. Disconnected'
    BY <1>7, <1>a, <1>b, <1>c DEF Unplug
  <3> QED
    BY <3>1, <3>2, <3>3, <3>4, <3>5, <3>6
<1>8. ASSUME NEW t \in Transfer, Expire(t) PROVE KernelInv'
  BY <1>8, <1>a, <1>b, <1>c DEF Expire
<1>9. CASE UNCHANGED vars
  BY <1>a, <1>9 DEF vars
<1> HIDE DEF LockInv, CallsReturn, LocksHeld, OneSubmitter, HoldsFlying, HoldsTransfer,
     Submitting, FlyingInv, FlyingMatchesFlags, SubmissionHasTransfer, ArrayOwned,
     HandlerFinishes, InFlight, Retiring, BeingSubmitted, Added, Filling, Finishing, UrbInv,
     KernelInv, UrbsOutliveKernel, SomeUrbLeft, ControlNotCounted, UrbsInKernel, UrbInHand,
     Disconnected, InHand, Filled, Reapable, UrbsOf, InKernel
<1> QED
  BY <1>1, <1>2, <1>3, <1>4, <1>5, <1>6, <1>7, <1>8, <1>9 DEF Next, ProgramCall,
    Environment
-----------------------------------------------------------------------------
(* Cancels and the status *)

\* No step hides who cancelled a transfer.
LEMMA CancelStep ==
  ASSUME IInv, [Next]_vars
  PROVE  CancelInv'
<1> USE ThreadAssumption, NoOneAssumption DEF flagVars, privVars, lockVars,
  listVars, callVars, threadVars, handlerVars, kernelVars, historyVars, worldVars,
  Goto, LockInv, CallsReturn, LocksHeld, OneSubmitter, HoldsFlying, HoldsTransfer,
  UserLabel, Submitting, FlyingInv, FlyingMatchesFlags, SubmissionHasTransfer,
  ArrayOwned, HandlerFinishes, InFlight, Retiring, BeingSubmitted, Added, Filling,
  Finishing, CancelInv, ScanSeesFlying, CancelLeavesTraces, FailedNotCancelled,
  FinalAgrees, InHand, Reapable, UrbsOf
<1>a. /\ LockInv /\ FlyingInv /\ UrbInv /\ CancelInv /\ Handler \in Thread
  BY DEF IInv, Thread
<1>b. /\ pc \in [Thread -> Label] /\ cur \in [Thread -> Transfer]
      /\ back \in [Thread -> {"idle", "callback", "scan_timeouts"}]
      /\ state_flags \in [Transfer -> SUBSET StateFlag]
      /\ timeout_flags \in [Transfer -> SUBSET TimeoutFlag]
      /\ canceller \in [Transfer -> {"none", "user", "timeout"}]
      /\ todo \in [Thread -> SUBSET Transfer]
      /\ reap_action \in [Transfer -> ReapAction] /\ reap_status \in [Transfer -> TransferStatus]
  BY DEF IInv, TypeOK
<1>c. /\ urb \in [Transfer -> [Urb -> UrbState]] /\ has_urbs \in [Transfer -> BOOLEAN]
  BY DEF IInv, TypeOK
<1>1. ASSUME NEW th \in Thread, ThreadStep(th) PROVE CancelInv'
  <2>1. CASE SubmitLockFlying(th)
    BY <2>1, <1>a, <1>b, <1>c DEF SubmitLockFlying
  <2>2. CASE SubmitBusy(th)
    <3>1. ScanSeesFlying'
      BY <2>2, <1>a, <1>b, <1>c DEF SubmitBusy
    <3>2. CancelLeavesTraces'
      BY <2>2, <1>a, <1>b, <1>c DEF SubmitBusy
    <3>3. FailedNotCancelled'
      BY <2>2, <1>a, <1>b, <1>c DEF SubmitBusy
    <3>4. FinalAgrees'
      BY <2>2, <1>a, <1>b, <1>c DEF SubmitBusy
    <3> QED
      BY <3>1, <3>2, <3>3, <3>4
  <2>3. CASE SubmitAddFlying(th)
    BY <2>3, <1>a, <1>b, <1>c DEF SubmitAddFlying
  <2>4. CASE AllocUrbs(th)
    <3>1. ScanSeesFlying'
      BY <2>4, <1>a, <1>b, <1>c DEF AllocUrbs
    <3>2. CancelLeavesTraces'
      BY <2>4, <1>a, <1>b, <1>c DEF AllocUrbs
    <3>3. FailedNotCancelled'
      <4>1. /\ cur[th] \in Transfer /\ ~has_urbs[cur[th]] /\ pc[th] = "alloc_urbs"
            /\ reap_action' = [reap_action EXCEPT ![cur[th]] = "NORMAL"]
            /\ reap_status' = [reap_status EXCEPT ![cur[th]] =
                                  IF Bulk(cur[th]) THEN "COMPLETED" ELSE @]
            /\ UNCHANGED <<urb, type, plugged, caps, reaped, cur>>
            /\ pc' = [pc EXCEPT ![th] = "submit_urbs"]
        BY <2>4, <1>a, <1>b DEF AllocUrbs
      <4>2. ~InHand(cur[th]) /\ ~(Reapable /\ InKernel(cur[th]) # {})
        BY <4>1, <1>a, <1>c DEF UrbInv, UrbsOutliveKernel
      <4>3. Reapable => \A i \in Urb : urb[cur[th]][i] # "discarded"
        BY <4>2 DEF InKernel
      <4> QED
        BY <4>1, <4>2, <4>3, <1>a, <1>b
    <3>4. FinalAgrees'
      BY <2>4, <1>a, <1>b, <1>c DEF AllocUrbs
    <3> QED
      BY <3>1, <3>2, <3>3, <3>4
  <2>5. CASE AllocUrbsFails(th)
    BY <2>5, <1>a, <1>b, <1>c DEF AllocUrbsFails
  <2>6. CASE SubmitUrb(th)
    <3>1. ScanSeesFlying'
      BY <2>6, <1>a, <1>b, <1>c DEF SubmitUrb, IsLastUrb
    <3>2. CancelLeavesTraces'
      BY <2>6, <1>a, <1>b, <1>c DEF SubmitUrb, IsLastUrb
    <3>3. FailedNotCancelled'
      BY <2>6, <1>a, <1>b, <1>c DEF SubmitUrb, IsLastUrb
    <3>4. FinalAgrees'
      BY <2>6, <1>a, <1>b, <1>c DEF SubmitUrb, IsLastUrb
    <3> QED
      BY <3>1, <3>2, <3>3, <3>4
  <2>7. CASE SubmitFirstUrbFails(th)
    BY <2>7, <1>a, <1>b, <1>c DEF SubmitFirstUrbFails
  <2>8. CASE SubmitLaterUrbFails(th)
    <3>1. ScanSeesFlying'
      BY <2>8, <1>a, <1>b, <1>c DEF SubmitLaterUrbFails, RefusedFrom, Discarded
    <3>2. CancelLeavesTraces'
      BY <2>8, <1>a, <1>b, <1>c DEF SubmitLaterUrbFails, RefusedFrom, Discarded
    <3>3. FailedNotCancelled'
      <4>1. /\ cur[th] \in Transfer /\ pc[th] = "submit_urbs" /\ idx[th] \in Nat /\ 1 < idx[th]
            /\ \/ type[cur[th]] = "bulk" /\ urb' = urb
                  /\ reap_action' = [reap_action EXCEPT ![cur[th]] = "COMPLETED_EARLY"]
               \/ /\ reap_action' = [reap_action EXCEPT ![cur[th]] = "SUBMIT_FAILED"]
                  /\ urb' = [urb EXCEPT ![cur[th]] = Discarded(@, 1..(idx[th] - 1))]
            /\ UNCHANGED <<reap_status, type, plugged, caps, reaped, cur>>
            /\ pc' = [pc EXCEPT ![th] = "submit_ok"]
        BY <2>8, <1>a, <1>b DEF SubmitLaterUrbFails, IInv, TypeOK
      <4>2. type[cur[th]] # "control"
        BY <4>1, <1>a DEF UrbInv, FillingCounts, FillingCount
      <4> QED
        BY <4>1, <4>2, <1>a, <1>b, <1>c
    <3>4. FinalAgrees'
      BY <2>8, <1>a, <1>b, <1>c DEF SubmitLaterUrbFails, RefusedFrom, Discarded
    <3> QED
      BY <3>1, <3>2, <3>3, <3>4
  <2>9. CASE SubmitSucceeds(th)
    BY <2>9, <1>a, <1>b, <1>c DEF SubmitSucceeds
  <2>10. CASE SubmitUndo(th)
    <3>1. ScanSeesFlying'
      <4>1. \A x \in Thread : ~HoldsFlying(x) /\ back[th] # "scan_timeouts"
        BY <2>10, <1>a, <1>b DEF SubmitUndo
      <4>2. UNCHANGED <<cur, back, todo, canceller, state_flags>> /\ pc' = [pc EXCEPT ![th] = back[th]]
        BY <2>10 DEF SubmitUndo
      <4> QED
        BY <4>1, <4>2, <1>a, <1>b
    <3>2. CancelLeavesTraces'
      BY <2>10, <1>a, <1>b, <1>c DEF SubmitUndo
    <3>3. FailedNotCancelled'
      BY <2>10, <1>a, <1>b, <1>c DEF SubmitUndo
    <3>4. FinalAgrees'
      BY <2>10, <1>a, <1>b, <1>c DEF SubmitUndo
    <3> QED
      BY <3>1, <3>2, <3>3, <3>4
  <2>11. CASE CancelNotFound(th)
    BY <2>11, <1>a, <1>b, <1>c DEF CancelNotFound, AfterCancel
  <2>12. CASE CancelInFlight(th)
    <3> DEFINE t == cur[th]
               r == DiscardResult(t)
    <3>1. /\ t \in Transfer
          /\ r = "SUCCESS" <=> has_urbs[t] /\ plugged /\ urb[t][UrbsOf(t)] = "pending"
      BY <1>b DEF DiscardResult
    <3>2. /\ pc[th] = "cancel" /\ "IN_FLIGHT" \in state_flags[t] /\ "CANCELLING" \notin state_flags[t]
          /\ urb' = [urb EXCEPT ![t] = IF has_urbs[t] THEN Discarded(@, Urb) ELSE @]
          /\ reap_action' = [reap_action EXCEPT ![t] =
               IF r = "SUCCESS" /\ ~(type[t] = "bulk" /\ @ = "ERROR") THEN "CANCELLED" ELSE @]
          /\ canceller' = [canceller EXCEPT ![t] =
               IF r # "SUCCESS" THEN @ ELSE IF back[th] = "scan_timeouts" THEN "timeout" ELSE "user"]
          /\ pc' = [pc EXCEPT ![th] =
               IF back[th] = "scan_timeouts" /\ r = "SUCCESS" THEN "mark_timed_out" ELSE back[th]]
          /\ UNCHANGED <<timeout_flags, has_urbs, reap_status, listVars, type, plugged, caps, callVars,
                         handlerVars>>
      BY <2>12 DEF CancelInFlight, AfterCancel
    <3>3. /\ \A u \in Transfer : /\ InFlight(u)' = InFlight(u)
                                 /\ "CANCELLING" \in state_flags[u] => "CANCELLING" \in state_flags'[u]
          /\ "CANCELLING" \in state_flags'[t]
      BY <2>12, <3>1, <1>b DEF CancelInFlight
    <3>4. canceller[t] = "none" /\ (r = "SUCCESS" => reap_action[t] # "ERROR")
      BY <3>1, <3>2, <1>a, <1>b
    <3>5. ScanSeesFlying'
      <4> HIDE DEF t, r, InFlight
      <4>1. InFlight(t)
        BY <3>2 DEF InFlight
      <4> QED
        BY <3>1, <3>2, <3>3, <3>4, <4>1, <1>a, <1>b DEF t
    <3>6. CancelLeavesTraces'
      <4> HIDE DEF t, r, InFlight
      <4> QED
        BY <3>1, <3>2, <3>3, <3>4, <1>a, <1>b DEF t
    <3>7. FailedNotCancelled'
      <4>1. /\ \A i \in Urb : \/ urb'[t][i] = urb[t][i]
                              \/ /\ urb'[t][i] = "discarded" /\ urb[t][i] = "pending"
                                 /\ plugged /\ has_urbs[t]
            /\ \A u \in Transfer \ {t} : urb'[u] = urb[u]
        BY <3>1, <3>2, <1>c DEF Discarded
      <4>2. type[t] = "control" => \A i \in Urb : urb[t][i] = "pending" => i = UrbsOf(t)
        BY <3>1, <1>a, <1>c, UrbAssumption DEF UrbInv, UrbsInKernel, InKernel, Urb
      <4>3. \A u \in Transfer : InHand(u)' => InHand(u)
        BY <3>1, <3>2, <1>a, <1>b
      <4>4. \A u \in Transfer : UrbsOf(u) \in Urb
        BY UrbAssumption DEF Urb
      <4> HIDE DEF t, r, InHand
      <4>5. \A u \in Transfer : reap_action'[u] = "ERROR" => urb'[u][UrbsOf(u)] # "pending"
        BY <3>1, <3>2, <4>1, <4>4, <1>a, <1>b, <1>c
      <4>6. \A u \in Transfer : reap_action[u] = "CANCELLED" => reap_action'[u] = "CANCELLED"
        BY <3>1, <3>2, <1>b
      <4>7. \A u \in Transfer \ {t} : type[u] = "control" =>
             /\ Reapable' /\ (\E i \in Urb : urb'[u][i] = "discarded") => reap_action'[u] = "CANCELLED"
             /\ InHand(u)' /\ reaped'.status = "discarded" => reap_action'[u] = "CANCELLED"
        BY <3>1, <3>2, <4>1, <4>3, <4>6, <1>a
      <4>8. \A u \in {t} : type[u] = "control" =>
             /\ Reapable' /\ (\E i \in Urb : urb'[u][i] = "discarded") => reap_action'[u] = "CANCELLED"
             /\ InHand(u)' /\ reaped'.status = "discarded" => reap_action'[u] = "CANCELLED"
        BY <3>1, <3>2, <4>1, <4>2, <4>3, <4>6, <1>a, <1>b
      <4> QED
        BY <3>1, <3>2, <4>5, <4>7, <4>8, <1>a
    <3>8. FinalAgrees'
      <4> HIDE DEF r
      <4> QED
        BY <3>1, <3>2, <1>a, <1>b
    <3> QED
      BY <3>5, <3>6, <3>7, <3>8
  <2>13. CASE TimeoutsLock(th)
    <3>1. ScanSeesFlying'
      BY <2>13, <1>a, <1>b, <1>c DEF TimeoutsLock
    <3>2. CancelLeavesTraces'
      BY <2>13, <1>a, <1>b, <1>c DEF TimeoutsLock
    <3>3. FailedNotCancelled'
      BY <2>13, <1>a, <1>b, <1>c DEF TimeoutsLock
    <3>4. FinalAgrees'
      BY <2>13, <1>a, <1>b, <1>c DEF TimeoutsLock
    <3> QED
      BY <3>1, <3>2, <3>3, <3>4
  <2>14. CASE MarkTimedOut(th)
    BY <2>14, <1>a, <1>b, <1>c DEF MarkTimedOut
  <2>15. CASE TimeoutsUnlock(th)
    BY <2>15, <1>a, <1>b, <1>c DEF TimeoutsUnlock
  <2>16. ASSUME NEW t \in Transfer, HandleTimeout(th, t) PROVE CancelInv'
    <3>1. ScanSeesFlying'
      BY <2>16, <1>a, <1>b, <1>c DEF HandleTimeout
    <3>2. CancelLeavesTraces'
      BY <2>16, <1>a, <1>b, <1>c DEF HandleTimeout
    <3>3. FailedNotCancelled'
      BY <2>16, <1>a, <1>b, <1>c DEF HandleTimeout
    <3>4. FinalAgrees'
      BY <2>16, <1>a, <1>b, <1>c DEF HandleTimeout
    <3> QED
      BY <3>1, <3>2, <3>3, <3>4
  <2> QED
    BY <1>1, <2>1, <2>2, <2>3, <2>4, <2>5, <2>6, <2>7, <2>8, <2>9, <2>10, <2>11,
      <2>12, <2>13, <2>14, <2>15, <2>16 DEF ThreadStep
<1>2. CASE HandlerStep
  <2>1. ASSUME NEW t \in Transfer, NEW i \in Urb, Reap(t, i) PROVE CancelInv'
    <3>1. ScanSeesFlying'
      BY <2>1, <1>a, <1>b, <1>c DEF Reap
    <3>2. CancelLeavesTraces'
      BY <2>1, <1>a, <1>b, <1>c DEF Reap
    <3>3. FailedNotCancelled'
      BY <2>1, <1>a, <1>b, <1>c DEF Reap
    <3>4. FinalAgrees'
      BY <2>1, <1>a, <1>b, <1>c DEF Reap
    <3> QED
      BY <3>1, <3>2, <3>3, <3>4
  <2>2. CASE HandleBulkCompletion
    <3>1. ScanSeesFlying'
      BY <2>2, <1>a, <1>b, <1>c DEF HandleBulkCompletion, AbnormalReap, NormalReap,
        Finish, Continue, CancelRemaining, IfStillCompleted, Discarded
    <3>2. CancelLeavesTraces'
      BY <2>2, <1>a, <1>b, <1>c DEF HandleBulkCompletion, AbnormalReap, NormalReap,
        Finish, Continue, CancelRemaining, IfStillCompleted, Discarded
    <3>3. FailedNotCancelled'
      <4> DEFINE t == cur[Handler]
      <4>1. /\ t \in Transfer /\ pc[Handler] = "reaped" /\ transfer_lock[t] = NoOne /\ type[t] # "control"
            /\ UNCHANGED <<type, plugged, caps, cur>>
        BY <2>2, <1>a, <1>b DEF HandleBulkCompletion, Bulk
      <4>2. /\ reap_status'[t] \notin {"CANCELLED", "TIMED_OUT"}
            /\ \A u \in Transfer \ {t} : reap_status'[u] = reap_status[u]
        BY <2>2, <4>1, <1>a, <1>b DEF HandleBulkCompletion, AbnormalReap, NormalReap,
             CancelRemaining, Finish,
          Continue, IfStillCompleted
      <4>3. \A u \in Transfer \ {t} : reap_action'[u] = reap_action[u] /\ urb'[u] = urb[u]
        BY <2>2, <4>1, <1>b, <1>c DEF HandleBulkCompletion, AbnormalReap, NormalReap,
             CancelRemaining, Finish, Continue
      <4>4. pc'[Handler] # "reaped"
        BY <2>2, <1>a, <1>b DEF HandleBulkCompletion, AbnormalReap, NormalReap,
             CancelRemaining, Finish, Continue
      <4>5. reap_action'[t] = "ERROR" => urb'[t][UrbsOf(t)] # "pending"
        <5>1. CASE reap_action[t] = "ERROR"
          <6>1. urb'[t] = urb[t] \/ \E S : urb'[t] = Discarded(urb[t], S)
            BY <2>2, <4>1, <1>c DEF HandleBulkCompletion, AbnormalReap, NormalReap,
                 CancelRemaining, Finish, Continue
          <6>2. UrbsOf(t) \in Urb /\ urb[t] \in [Urb -> UrbState]
            BY UrbAssumption, <4>1, <1>c DEF Urb
          <6> QED
            BY <5>1, <6>1, <6>2, <4>1, <1>a, DiscardedKeeps
        <5>2. CASE reap_action[t] # "ERROR" /\ reap_action'[t] = "ERROR"
          <6>1. reaped.status = "bus" /\ CancelRemaining(t, IfStillCompleted(t, "ERROR"))
            BY <2>2, <5>2, <4>1, <1>b DEF HandleBulkCompletion, AbnormalReap, NormalReap
          <6>2. CASE num_retired[t] + 1 = UrbsOf(t)
            <7>1. Cardinality(InKernel(t)) = 0
              <8>1. num_retired[t] + Cardinality(InKernel(t)) + 1 = UrbsOf(t)
                BY <4>1, ReapedInFlight
              <8>2. Cardinality(InKernel(t)) \in Nat /\ num_retired[t] \in Nat
                BY <4>1, KernelCount DEF IInv, TypeOK
              <8> QED
                BY <6>2, <8>1, <8>2, UrbAssumption
            <7>2. InKernel(t) = {}
              BY <7>1, <4>1, KernelCount DEF IInv
            <7>3. UrbsOf(t) \in Urb /\ urb' = urb
              BY <6>1, <6>2, UrbAssumption DEF CancelRemaining, Finish, Urb
            <7> QED
              BY <7>2, <7>3 DEF InKernel
          <6>3. CASE num_retired[t] + 1 # UrbsOf(t)
            <7>1. urb' = [urb EXCEPT ![t] = Discarded(@, (reaped.index + 1)..NumUrbs)]
              BY <6>1, <6>3 DEF CancelRemaining, Continue
            <7>2. reaped.index \in Urb /\ urb[t][reaped.index] = "absent" /\ UrbsOf(t) = NumUrbs
              BY <4>1, <1>a DEF UrbInv, UrbInHand
            <7>3. ~plugged => \A i \in Urb : urb[t][i] # "pending"
              BY <4>1, <1>a DEF UrbInv, UrbsInKernel
            <7> QED
              BY <7>1, <7>2, <7>3, <4>1, <1>c, UrbAssumption DEF Discarded, Urb
          <6> QED
            BY <6>2, <6>3
        <5> QED
          BY <5>1, <5>2
      <4> QED
        <5> HIDE DEF t
        <5> QED
          BY <4>1, <4>2, <4>3, <4>4, <4>5, <1>a
    <3>4. FinalAgrees'
      <4>1. pc'[Handler] \in {"idle", "completed"}
        BY <2>2, <1>a, <1>b DEF HandleBulkCompletion, AbnormalReap, NormalReap, CancelRemaining,
          Finish, Continue
      <4> QED
        BY <4>1
    <3> QED
      BY <3>1, <3>2, <3>3, <3>4
  <2>3. CASE ReadReapAction
    <3>1. ScanSeesFlying'
      BY <2>3, <1>a, <1>b, <1>c DEF ReadReapAction
    <3>2. CancelLeavesTraces'
      BY <2>3, <1>a, <1>b, <1>c DEF ReadReapAction
    <3>3. FailedNotCancelled'
      BY <2>3, <1>a, <1>b, <1>c DEF ReadReapAction
    <3>4. FinalAgrees'
      BY <2>3, <1>a, <1>b DEF ReadReapAction, TransferStatus, Contract!Agrees, Contract!Outcome
    <3> QED
      BY <3>1, <3>2, <3>3, <3>4
  <2>4. CASE HandleIsoCompletion
    <3>1. ScanSeesFlying'
      BY <2>4, <1>a, <1>b, <1>c DEF HandleIsoCompletion, Conclude, IsoStatus
    <3>2. CancelLeavesTraces'
      BY <2>4, <1>a, <1>b, <1>c DEF HandleIsoCompletion, Conclude, IsoStatus
    <3>3. FailedNotCancelled'
      BY <2>4, <1>a, <1>b, <1>c DEF HandleIsoCompletion, Conclude, IsoStatus
    <3>4. FinalAgrees'
      <4>1. pc[Handler] = "reaped" /\ transfer_lock[cur[Handler]] = NoOne
        BY <2>4 DEF HandleIsoCompletion
      <4>2. InFlight(cur[Handler])
        <5> HIDE DEF InFlight
        <5> QED
          BY <4>1, ReapedInFlight
      <4> QED
        BY <2>4, <4>1, <4>2, <1>a, <1>b DEF HandleIsoCompletion, Conclude, IsoStatus,
             Contract!Agrees, Contract!Outcome
    <3> QED
      BY <3>1, <3>2, <3>3, <3>4
  <2>5. CASE HandleControlCompletion
    <3>1. ScanSeesFlying'
      BY <2>5, <1>a, <1>b, <1>c DEF HandleControlCompletion, Conclude, ControlStatus
    <3>2. CancelLeavesTraces'
      BY <2>5, <1>a, <1>b, <1>c DEF HandleControlCompletion, Conclude, ControlStatus
    <3>3. FailedNotCancelled'
      BY <2>5, <1>a, <1>b, <1>c DEF HandleControlCompletion, Conclude, ControlStatus
    <3>4. FinalAgrees'
      <4>1. pc[Handler] = "reaped" /\ transfer_lock[cur[Handler]] = NoOne
        BY <2>5 DEF HandleControlCompletion
      <4>2. InFlight(cur[Handler])
        <5> HIDE DEF InFlight
        <5> QED
          BY <4>1, ReapedInFlight
      <4> QED
        BY <2>5, <4>1, <4>2, <1>a, <1>b DEF HandleControlCompletion, Conclude, ControlStatus,
             Contract!Agrees, Contract!Outcome
    <3> QED
      BY <3>1, <3>2, <3>3, <3>4
  <2>6. CASE HandleCancellation
    <3>1. ScanSeesFlying'
      BY <2>6, <1>a, <1>b, <1>c DEF HandleCancellation
    <3>2. CancelLeavesTraces'
      BY <2>6, <1>a, <1>b, <1>c DEF HandleCancellation
    <3>3. FailedNotCancelled'
      BY <2>6, <1>a, <1>b, <1>c DEF HandleCancellation
    <3>4. FinalAgrees'
      BY <2>6, <1>a, <1>b DEF HandleCancellation, Contract!Agrees, Contract!Outcome
    <3> QED
      BY <3>1, <3>2, <3>3, <3>4
  <2>7. CASE RemoveFlying
    BY <2>7, <1>a, <1>b, <1>c DEF RemoveFlying
  <2>8. CASE ClearInFlight
    BY <2>8, <1>a, <1>b, <1>c DEF ClearInFlight
  <2>9. CASE InvokeCallback
    BY <2>9, <1>a, <1>b, <1>c DEF InvokeCallback
  <2>10. CASE CallbackReturns
    BY <2>10, <1>a, <1>b, <1>c DEF CallbackReturns
  <2>11. CASE PollError
    BY <2>11, <1>a, <1>b, <1>c DEF PollError
  <2>12. CASE DrainDone
    BY <2>12, <1>a, <1>b, <1>c DEF DrainDone
  <2>13. CASE DisconnectLock
    BY <2>13, <1>a, <1>b, <1>c DEF DisconnectLock
  <2>14. ASSUME NEW t \in Transfer, DisconnectFound(t) PROVE CancelInv'
    BY <2>14, <1>a, <1>b, <1>c DEF DisconnectFound
  <2>15. CASE DisconnectDone
    BY <2>15, <1>a, <1>b, <1>c DEF DisconnectDone
  <2>16. CASE ClearTransferPriv
    <3>1. ScanSeesFlying'
      BY <2>16, <1>a, <1>b, <1>c DEF ClearTransferPriv
    <3>2. CancelLeavesTraces'
      BY <2>16, <1>a, <1>b, <1>c DEF ClearTransferPriv
    <3>3. FailedNotCancelled'
      BY <2>16, <1>a, <1>b, <1>c DEF ClearTransferPriv
    <3>4. FinalAgrees'
      BY <2>16, <1>a, <1>b DEF ClearTransferPriv, Contract!Agrees, Contract!Outcome
    <3> QED
      BY <3>1, <3>2, <3>3, <3>4
  <2> QED
    BY <1>2, <2>1, <2>2, <2>3, <2>4, <2>5, <2>6, <2>7, <2>8, <2>9, <2>10, <2>11,
      <2>12, <2>13, <2>14, <2>15, <2>16 DEF HandlerStep
<1>3. ASSUME NEW th \in Thread, NEW t \in Transfer, SubmitTransfer(th, t) PROVE
  CancelInv'
  BY <1>3, <1>a, <1>b, <1>c DEF SubmitTransfer, Call
<1>4. ASSUME NEW th \in Thread, NEW t \in Transfer, CancelTransfer(th, t) PROVE
  CancelInv'
  BY <1>4, <1>a, <1>b, <1>c DEF CancelTransfer, Call
<1>5. ASSUME NEW th \in Thread, HandleTimeouts(th) PROVE CancelInv'
  BY <1>5, <1>a, <1>b, <1>c DEF HandleTimeouts
<1>6. ASSUME NEW t \in Transfer, NEW i \in Urb, NEW status \in UrbStatus,
  KernelCompletes(t, i, status) PROVE CancelInv'
  <3>1. ScanSeesFlying'
    BY <1>6, <1>a, <1>b, <1>c DEF KernelCompletes, Discarded
  <3>2. CancelLeavesTraces'
    BY <1>6, <1>a, <1>b, <1>c DEF KernelCompletes, Discarded
  <3>3. FailedNotCancelled'
    <4>1. /\ UNCHANGED <<reap_action, reap_status, type, plugged, caps, reaped, cur, pc>>
          /\ \A u \in Transfer \ {t} : urb'[u] = urb[u]
      BY <1>6, <1>c DEF KernelCompletes
    <4>2. \A j \in Urb : urb[t][j] # "pending" => urb'[t][j] # "pending"
      BY <1>6, <1>c DEF KernelCompletes, Discarded, UrbStatus
    <4>3. type[t] = "control" => \A j \in Urb : urb'[t][j] = "discarded" => urb[t][j] = "discarded"
      BY <1>6, <1>c DEF KernelCompletes, Discarded, UrbOutcomes, Bulk
    <4>4. UrbsOf(t) \in Urb /\ \A u \in Transfer : UrbsOf(u) \in Urb
      BY UrbAssumption DEF Urb
    <4> QED
      BY <4>1, <4>2, <4>3, <4>4, <1>a
  <3>4. FinalAgrees'
    BY <1>6, <1>a, <1>b, <1>c DEF KernelCompletes, Discarded
  <3> QED
    BY <3>1, <3>2, <3>3, <3>4
<1>7. CASE Unplug
  <3>1. ScanSeesFlying'
    BY <1>7, <1>a, <1>b, <1>c DEF Unplug
  <3>2. CancelLeavesTraces'
    BY <1>7, <1>a, <1>b, <1>c DEF Unplug
  <3>3. FailedNotCancelled'
    <4>1. /\ UNCHANGED <<reap_action, reap_status, type, caps, reaped, cur, pc>>
          /\ plugged
      BY <1>7 DEF Unplug
    <4>2. \A u \in Transfer : \A j \in Urb :
            /\ urb[u][j] # "pending" => urb'[u][j] # "pending"
            /\ urb'[u][j] = "discarded" => urb[u][j] = "discarded"
      BY <1>7 DEF Unplug
    <4>4. \A u \in Transfer : UrbsOf(u) \in Urb
      BY UrbAssumption DEF Urb
    <4> QED
      BY <4>1, <4>2, <4>4, <1>a
  <3>4. FinalAgrees'
    BY <1>7, <1>a, <1>b, <1>c DEF Unplug
  <3> QED
    BY <3>1, <3>2, <3>3, <3>4
<1>8. ASSUME NEW t \in Transfer, Expire(t) PROVE CancelInv'
  BY <1>8, <1>a, <1>b, <1>c DEF Expire
<1>9. CASE UNCHANGED vars
  BY <1>a, <1>9 DEF vars
<1> HIDE DEF LockInv, CallsReturn, LocksHeld, OneSubmitter, HoldsFlying, HoldsTransfer,
     UserLabel, Submitting, FlyingInv, FlyingMatchesFlags, SubmissionHasTransfer, ArrayOwned,
     HandlerFinishes, InFlight, Retiring, BeingSubmitted, Added, Filling, Finishing,
     CancelInv, ScanSeesFlying, CancelLeavesTraces, FailedNotCancelled, FinalAgrees, InHand,
     Reapable, UrbsOf
<1> QED
  BY <1>1, <1>2, <1>3, <1>4, <1>5, <1>6, <1>7, <1>8, <1>9 DEF Next, ProgramCall,
    Environment
-----------------------------------------------------------------------------
(* The references *)

\* No step loses or leaks a reference to the device.
LEMMA RefsStep ==
  ASSUME IInv, [Next]_vars
  PROVE  RefsInv'
<1> USE ThreadAssumption DEF flagVars, privVars, lockVars, listVars, callVars,
  threadVars, handlerVars, kernelVars, historyVars, worldVars, Goto, RefsInv,
  FlyingFinite, DeviceReferenced, InCallback, InFlight, LockInv, CallsReturn,
  UserLabel, Submitting
<1>a. LockInv /\ RefsInv /\ refs \in Nat /\ Handler \in Thread /\ HandlerFinishes
      /\ SubmissionHasTransfer
  BY DEF IInv, TypeOK, Thread, FlyingInv
<1>b. /\ pc \in [Thread -> Label] /\ cur \in [Thread -> Transfer]
      /\ state_flags \in [Transfer -> SUBSET StateFlag]
      /\ back \in [Thread -> {"idle", "callback", "scan_timeouts"}]
  BY DEF IInv, TypeOK
<1>c. Cardinality({t \in Transfer : InFlight(t)}) \in Nat
  BY <1>a, FS_CardinalityType DEF RefsInv, FlyingFinite
<1>1. ASSUME NEW th \in Thread, ThreadStep(th) PROVE RefsInv'
  <2>1. CASE SubmitLockFlying(th) \/ SubmitBusy(th)
    BY <2>1, <1>a, <1>b, <1>c DEF SubmitLockFlying, SubmitBusy
  <2>2. CASE SubmitAddFlying(th)
    <3>1. {t \in Transfer : InFlight(t)}' = {t \in Transfer : InFlight(t)}
      BY <2>2, <1>a, <1>b DEF SubmitAddFlying
    <3> QED
      BY <2>2, <3>1, <1>a, <1>b, <1>c DEF SubmitAddFlying
  <2>3. CASE AllocUrbs(th)
    BY <2>3, <1>a, <1>b, <1>c DEF AllocUrbs
  <2>4. CASE AllocUrbsFails(th) \/ SubmitUndo(th)
    BY <2>4, <1>a, <1>b, <1>c DEF AllocUrbsFails, SubmitUndo
  <2>5. CASE SubmitUrb(th)
    BY <2>5, <1>a, <1>b, <1>c DEF SubmitUrb, IsLastUrb
  <2>6. CASE SubmitFirstUrbFails(th)
    BY <2>6, <1>a, <1>b, <1>c DEF SubmitFirstUrbFails
  <2>7. CASE SubmitLaterUrbFails(th)
    BY <2>7, <1>a, <1>b, <1>c DEF SubmitLaterUrbFails, RefusedFrom, Discarded
  <2>8. CASE SubmitSucceeds(th)
    <3> DEFINE F == {t \in Transfer : InFlight(t)}
    <3>0. IsFiniteSet(F)
      BY <1>a
    <3>1. cur[th] \notin F /\ F' = F \cup {cur[th]}
      BY <2>8, <1>a, <1>b DEF SubmitSucceeds, SubmissionHasTransfer, Added
    <3>2. IsFiniteSet(F') /\ Cardinality(F') = Cardinality(F) + 1
      <4> HIDE DEF F
      <4> QED
        BY <3>0, <3>1, FS_AddElement
    <3>3. (pc[Handler] = "report" \/ InCallback)' <=> pc[Handler] = "report" \/ InCallback
      BY <2>8, <1>a, <1>b DEF SubmitSucceeds
    <3>4. refs' = refs + 1
      BY <2>8 DEF SubmitSucceeds
    <3> QED
      BY <3>2, <3>3, <3>4, <1>a, <1>c
  <2>9. CASE CancelNotFound(th) \/ TimeoutsLock(th) \/ MarkTimedOut(th) \/
    TimeoutsUnlock(th)
    BY <2>9, <1>a, <1>b, <1>c DEF CancelNotFound, TimeoutsLock, MarkTimedOut,
      TimeoutsUnlock, AfterCancel
  <2>10. CASE CancelInFlight(th)
    <3>1. {t \in Transfer : InFlight(t)}' = {t \in Transfer : InFlight(t)}
      BY <2>10, <1>a, <1>b DEF CancelInFlight, AfterCancel
    <3> QED
      BY <2>10, <3>1, <1>a, <1>b, <1>c DEF CancelInFlight, AfterCancel
  <2>11. ASSUME NEW t \in Transfer, HandleTimeout(th, t) PROVE RefsInv'
    BY <2>11, <1>a, <1>b, <1>c DEF HandleTimeout
  <2> QED
    BY <1>1, <2>1, <2>2, <2>3, <2>4, <2>5, <2>6, <2>7, <2>8, <2>9, <2>10, <2>11 DEF
      ThreadStep
<1>2. CASE HandlerStep
  <2>1. ASSUME NEW t \in Transfer, NEW i \in Urb, Reap(t, i) PROVE RefsInv'
    BY <2>1, <1>a, <1>b, <1>c DEF Reap
  <2>2. CASE HandleBulkCompletion
    <3>1. /\ pc[Handler] \in {"reaped", "completed"}
          /\ UNCHANGED <<callVars, flagVars, refs>>
      BY <2>2, CompletionMoves
    <3>2. PICK l \in {"idle", "completed", "cancellation", "remove_flying"} :
            pc' = [pc EXCEPT ![Handler] = l]
      BY <2>2, CompletionMoves
    <3> QED
      BY <3>1, <3>2, <1>a, <1>b, <1>c
  <2>3. CASE ReadReapAction
    <3>1. /\ pc[Handler] \in {"reaped", "completed"}
          /\ UNCHANGED <<callVars, flagVars, refs>>
      BY <2>3, CompletionMoves
    <3>2. PICK l \in {"idle", "completed", "cancellation", "remove_flying"} :
            pc' = [pc EXCEPT ![Handler] = l]
      BY <2>3, CompletionMoves
    <3> QED
      BY <3>1, <3>2, <1>a, <1>b, <1>c
  <2>4. CASE HandleIsoCompletion
    <3>1. /\ pc[Handler] \in {"reaped", "completed"}
          /\ UNCHANGED <<callVars, flagVars, refs>>
      BY <2>4, CompletionMoves
    <3>2. PICK l \in {"idle", "completed", "cancellation", "remove_flying"} :
            pc' = [pc EXCEPT ![Handler] = l]
      BY <2>4, CompletionMoves
    <3> QED
      BY <3>1, <3>2, <1>a, <1>b, <1>c
  <2>5. CASE HandleControlCompletion
    <3>1. /\ pc[Handler] \in {"reaped", "completed"}
          /\ UNCHANGED <<callVars, flagVars, refs>>
      BY <2>5, CompletionMoves
    <3>2. PICK l \in {"idle", "completed", "cancellation", "remove_flying"} :
            pc' = [pc EXCEPT ![Handler] = l]
      BY <2>5, CompletionMoves
    <3> QED
      BY <3>1, <3>2, <1>a, <1>b, <1>c
  <2>6. CASE HandleCancellation
    BY <2>6, <1>a, <1>b, <1>c DEF HandleCancellation
  <2>7. CASE RemoveFlying
    BY <2>7, <1>a, <1>b, <1>c DEF RemoveFlying
  <2>8. CASE ClearInFlight
    <3> DEFINE F == {t \in Transfer : InFlight(t)}
    <3>0. IsFiniteSet(F)
      BY <1>a
    <3>1. cur[Handler] \in F /\ F' = F \ {cur[Handler]}
      BY <2>8, <1>a, <1>b DEF ClearInFlight, HandlerFinishes, Finishing
    <3>2. IsFiniteSet(F') /\ Cardinality(F') = Cardinality(F) - 1
      <4> HIDE DEF F
      <4> QED
        BY <3>0, <3>1, FS_RemoveElement
    <3>3. (pc[Handler] = "report" \/ InCallback)' /\ ~(pc[Handler] = "report" \/ InCallback)
      BY <2>8, <1>a, <1>b DEF ClearInFlight
    <3>4. refs' = refs
      BY <2>8 DEF ClearInFlight
    <3> QED
      BY <3>2, <3>3, <3>4, <1>a, <1>c
  <2>9. CASE InvokeCallback
    BY <2>9, <1>a, <1>b, <1>c DEF InvokeCallback
  <2>10. CASE CallbackReturns
    BY <2>10, <1>a, <1>b, <1>c DEF CallbackReturns
  <2>11. CASE PollError
    BY <2>11, <1>a, <1>b, <1>c DEF PollError
  <2>12. CASE DrainDone
    BY <2>12, <1>a, <1>b, <1>c DEF DrainDone
  <2>13. CASE DisconnectLock
    BY <2>13, <1>a, <1>b, <1>c DEF DisconnectLock
  <2>14. ASSUME NEW t \in Transfer, DisconnectFound(t) PROVE RefsInv'
    BY <2>14, <1>a, <1>b, <1>c DEF DisconnectFound
  <2>15. CASE DisconnectDone
    BY <2>15, <1>a, <1>b, <1>c DEF DisconnectDone
  <2>16. CASE ClearTransferPriv
    BY <2>16, <1>a, <1>b, <1>c DEF ClearTransferPriv
  <2> QED
    BY <1>2, <2>1, <2>2, <2>3, <2>4, <2>5, <2>6, <2>7, <2>8, <2>9, <2>10, <2>11,
      <2>12, <2>13, <2>14, <2>15, <2>16 DEF HandlerStep
<1>3. ASSUME NEW th \in Thread, NEW t \in Transfer, SubmitTransfer(th, t) PROVE
  RefsInv'
  BY <1>3, <1>a, <1>b, <1>c DEF SubmitTransfer, Call
<1>4. ASSUME NEW th \in Thread, NEW t \in Transfer, CancelTransfer(th, t) PROVE
  RefsInv'
  BY <1>4, <1>a, <1>b, <1>c DEF CancelTransfer, Call
<1>5. ASSUME NEW th \in Thread, HandleTimeouts(th) PROVE RefsInv'
  BY <1>5, <1>a, <1>b, <1>c DEF HandleTimeouts
<1>6. ASSUME NEW t \in Transfer, NEW i \in Urb, NEW status \in UrbStatus,
  KernelCompletes(t, i, status) PROVE RefsInv'
  BY <1>6, <1>a, <1>b, <1>c DEF KernelCompletes, Discarded
<1>7. CASE Unplug
  BY <1>7, <1>a, <1>b, <1>c DEF Unplug
<1>8. ASSUME NEW t \in Transfer, Expire(t) PROVE RefsInv'
  BY <1>8, <1>a, <1>b, <1>c DEF Expire
<1>9. CASE UNCHANGED vars
  BY <1>a, <1>9 DEF vars
<1> HIDE DEF RefsInv, FlyingFinite, DeviceReferenced, InCallback, InFlight, LockInv,
     CallsReturn, UserLabel, Submitting
<1> QED
  BY <1>1, <1>2, <1>3, <1>4, <1>5, <1>6, <1>7, <1>8, <1>9 DEF Next, ProgramCall,
    Environment
-----------------------------------------------------------------------------
(* The invariant and what follows from it *)

\* The initial states satisfy the invariant.
LEMMA InitInv == ASSUME Init PROVE IInv
<1> USE DEF Init
<1>1. cur \in [Thread -> Transfer] /\ \A th \in Thread : pc[th] = "idle" /\ back[th] = "idle"
  BY TransferAssumption
<1>2. TypeOK
  <2>1. type \in [Transfer -> TransferType] /\ \A t \in Transfer : type[t] \in Kinds[t]
    OBVIOUS
  <2>2. /\ state_flags \in [Transfer -> SUBSET StateFlag]
        /\ timeout_flags \in [Transfer -> SUBSET TimeoutFlag]
        /\ todo \in [Thread -> SUBSET Transfer]
    OBVIOUS
  <2>3. /\ has_urbs \in [Transfer -> BOOLEAN] /\ num_retired \in [Transfer -> 0..NumUrbs]
        /\ reap_action \in [Transfer -> ReapAction]
        /\ reap_status \in [Transfer -> TransferStatus]
        /\ canceller \in [Transfer -> {"none", "user", "timeout"}]
    BY UrbAssumption DEF ReapAction, TransferStatus
  <2>4. /\ transfer_lock \in [Transfer -> Thread \cup {NoOne}]
        /\ urb \in [Transfer -> [Urb -> UrbState]]
    BY DEF UrbState
  <2>5. /\ pc \in [Thread -> Label] /\ idx \in [Thread -> 1..(NumUrbs + 1)]
        /\ back \in [Thread -> {"idle", "callback", "scan_timeouts"}]
    BY UrbAssumption DEF Label
  <2>6. /\ reaped \in [index : 0..NumUrbs, status : UrbState] /\ final \in TransferStatus
        /\ calls \in 0..MaxCalls /\ refs \in Nat
    BY UrbAssumption, BoundAssumption DEF NoUrb, UrbState, TransferStatus
  <2> QED
    BY <1>1, <2>1, <2>2, <2>3, <2>4, <2>5, <2>6 DEF TypeOK
<1>3. LockInv
  BY <1>1, NoOneAssumption DEF LockInv, CallsReturn, LocksHeld, OneSubmitter, HoldsFlying,
    HoldsTransfer, UserLabel, Submitting, Thread
<1>4. Handler \in Thread /\ \A t \in Transfer : InKernel(t) = {} /\ UrbsOf(t) \in Nat \ {0}
  BY UrbAssumption DEF Thread, InKernel, UrbsOf
<1>5. FlyingInv
  BY <1>1, <1>4 DEF FlyingInv, FlyingMatchesFlags, SubmissionHasTransfer, ArrayOwned,
    HandlerFinishes, InFlight, Added, Filling, Finishing
<1>6. UrbInv
  <2>1. EveryUrbCounted /\ FillingCounts /\ SomeUrbLeft /\ ControlNotCounted /\ UrbsOutliveKernel
    BY <1>1, <1>4 DEF EveryUrbCounted, FillingCounts, SomeUrbLeft, ControlNotCounted,
      UrbsOutliveKernel
  <2>2. UrbsInKernel /\ UrbInHand /\ Disconnected
    BY <1>1, <1>4 DEF UrbsInKernel, UrbInHand, Disconnected
  <2> QED
    BY <2>1, <2>2 DEF UrbInv
<1>7. CancelInv
  BY <1>1, <1>4 DEF CancelInv, ScanSeesFlying, CancelLeavesTraces, FailedNotCancelled,
    FinalAgrees, InHand, InFlight
<1>8. RefsInv
  <2>1. {t \in Transfer : InFlight(t)} = {}
    BY DEF InFlight
  <2>2. ~(pc[Handler] = "report" \/ InCallback)
    BY <1>1, <1>4 DEF InCallback
  <2>3. refs = 0
    OBVIOUS
  <2> HIDE DEF Init
  <2>4. IsFiniteSet({t \in Transfer : InFlight(t)}) /\ Cardinality({t \in Transfer : InFlight(t)}) = 0
    BY <2>1, FS_EmptySet
  <2> QED
    BY <2>2, <2>3, <2>4 DEF RefsInv, FlyingFinite, DeviceReferenced
<1> QED
  BY <1>2, <1>3, <1>5, <1>6, <1>7, <1>8 DEF IInv

\* The invariant is inductive: no step of any thread, of the handler or of the
\* environment breaks it.
LEMMA InvStep == ASSUME IInv, [Next]_vars PROVE IInv'
<1>1. CountInv' /\ KernelInv'
  BY CountStep, KernelStep
<1>2. UrbInv'
  BY <1>1 DEF UrbInv, CountInv, KernelInv
<1> QED
  BY <1>2, TypeStep, LockStep, FlyingStep, CancelStep, RefsStep DEF IInv

\* Every reachable state satisfies the invariant.
THEOREM Invariance == Spec => []IInv
<1>1. Init => IInv
  BY InitInv
<1>2. IInv /\ [Next]_vars => IInv'
  BY InvStep
<1> QED
  BY <1>1, <1>2, PTL DEF Spec

\* The variables of the transfers, the kernel and the threads keep their types.
THEOREM TypeCorrect == Spec => []TypeOK
<1>1. IInv => TypeOK
  BY DEF IInv
<1> QED
  BY <1>1, Invariance, PTL

\* A thread that waits for the flying list holds no transfer's lock: no two threads of
\* libusb_submit_transfer, libusb_cancel_transfer, the timeout scan and the completion
\* wait for each other's lock.
THEOREM LocksOrdered == Spec => []LocksInOrder
<1>1. IInv => LocksInOrder
  BY DEF IInv, LockInv, LocksHeld, HoldsTransfer, LocksInOrder
<1> QED
  BY <1>1, Invariance, PTL

\* The flying list and the in-flight flag agree wherever the threads are.
THEOREM FlyingAgrees == Spec => []FlyingMatchesFlags
<1>1. IInv => FlyingMatchesFlags
  BY DEF IInv, FlyingInv
<1> QED
  BY <1>1, Invariance, PTL

\* No array of URBs is freed while the kernel, or the handler, has one of them.
THEOREM UrbsOutlive == Spec => []UrbsOutliveKernel
<1>1. IInv => UrbsOutliveKernel
  BY DEF IInv, UrbInv
<1> QED
  BY <1>1, Invariance, PTL

\* Every URB of a submitted transfer is counted once.
THEOREM UrbsCounted == Spec => []EveryUrbCounted
<1>1. IInv => EveryUrbCounted
  BY DEF IInv, UrbInv
<1> QED
  BY <1>1, Invariance, PTL

\* The device is referenced once for each transfer in flight and for the one whose
\* callback runs.
THEOREM ReferencesCounted == Spec => []DeviceReferenced
<1>1. IInv => DeviceReferenced
  BY DEF IInv, RefsInv
<1> QED
  BY <1>1, Invariance, PTL

\* A transfer in flight has a URB still to be reaped, the handler at work on it, or a
\* disconnection still to be dealt with.
LEMMA SomethingCompletes == ASSUME IInv PROVE NeverStranded
<1>1. SUFFICES ASSUME NEW t \in Transfer, InFlight(t),
                      ~(cur[Handler] = t /\ pc[Handler] \in Finishing \cup {"reaped", "clear_priv"}),
                      plugged \/ (fd_removed /\ mode = "poll")
               PROVE  Reapable /\ InKernel(t) # {} /\ (~fd_removed \/ mode = "drain")
  BY DEF NeverStranded, Finishing
<1>2. plugged /\ ~fd_removed
  BY <1>1 DEF IInv, UrbInv, Disconnected, TypeOK
<1>3. has_urbs[t]
  BY <1>1 DEF IInv, FlyingInv, ArrayOwned
<1>4. ~Filled(t)
  BY <1>1 DEF IInv, FlyingInv, SubmissionHasTransfer, Filled, Added
<1>5. num_retired[t] < UrbsOf(t) /\ Counted(t)
  BY <1>3, <1>4, Counting DEF IInv, UrbInv, SomeUrbLeft
<1>6. UrbsOut(t) = Cardinality(InKernel(t))
  <2>1. Cardinality(InKernel(t)) \in Nat
    BY KernelCount DEF IInv
  <2> QED
    BY <1>1, <2>1 DEF UrbsOut, InHand
<1>7. num_retired[t] \in Nat /\ UrbsOf(t) \in Nat
  BY UrbAssumption DEF IInv, TypeOK, UrbsOf
<1>8. Cardinality(InKernel(t)) # 0
  <2>1. num_retired[t] + UrbsOut(t) = UrbsOf(t)
    BY <1>3, <1>4, <1>5 DEF Counted
  <2> HIDE DEF UrbsOut, UrbsOf, InKernel
  <2> QED
    BY <2>1, <1>5, <1>6, <1>7
<1>9. InKernel(t) # {}
  BY <1>8, KernelCount DEF IInv
<1> QED
  BY <1>2, <1>9 DEF Reapable

\* A transfer in flight is never left with nothing that would complete it.
THEOREM NoneStranded == Spec => []NeverStranded
<1>1. IInv => NeverStranded
  BY SomethingCompletes
<1> QED
  BY <1>1, Invariance, PTL
-----------------------------------------------------------------------------
(* The contract *)

\* The implementation starts where the contract does.
LEMMA ContractInit == ASSUME Init PROVE Contract!Init
<1>1. Handler \in Thread
  BY DEF Thread
<1>2. \A t \in Transfer : InFlight(t) = FALSE
  BY DEF Init, InFlight
<1>3. [t \in Transfer |-> InFlight(t)] = [t \in Transfer |-> FALSE]
  BY <1>2
<1>4. pc[Handler] # "report" /\ canceller = [t \in Transfer |-> "none"]
  BY <1>1 DEF Init
<1> QED
  BY <1>3, <1>4 DEF Contract!Init, Contract!NoCallback

\* Every step is a step of the contract or leaves it alone.
LEMMA ContractStep ==
  ASSUME IInv, [Next]_vars
  PROVE  [Contract!Next]_(Contract!cvars)
<1> USE ThreadAssumption DEF flagVars, privVars, lockVars, listVars, callVars,
  threadVars, handlerVars, kernelVars, historyVars, worldVars, Goto, InFlight,
  Contract!cvars, Contract!NoCallback, LockInv, CallsReturn, UserLabel, Submitting
<1>a. /\ LockInv /\ FlyingInv /\ CancelInv /\ Handler \in Thread
  BY DEF IInv, Thread
<1>b. /\ pc \in [Thread -> Label] /\ cur \in [Thread -> Transfer]
      /\ back \in [Thread -> {"idle", "callback", "scan_timeouts"}]
      /\ state_flags \in [Transfer -> SUBSET StateFlag]
      /\ canceller \in [Transfer -> {"none", "user", "timeout"}] /\ final \in TransferStatus
  BY DEF IInv, TypeOK
<1>1. ASSUME NEW th \in Thread, ThreadStep(th) PROVE
  [Contract!Next]_(Contract!cvars)
  <2>1. CASE SubmitLockFlying(th) \/ SubmitBusy(th) \/ SubmitAddFlying(th)
    BY <2>1, <1>a, <1>b DEF SubmitLockFlying, SubmitBusy, SubmitAddFlying
  <2>2. CASE AllocUrbs(th)
    BY <2>2, <1>a, <1>b DEF AllocUrbs
  <2>3. CASE AllocUrbsFails(th) \/ SubmitUndo(th)
    BY <2>3, <1>a, <1>b DEF AllocUrbsFails, SubmitUndo
  <2>4. CASE SubmitUrb(th)
    BY <2>4, <1>a, <1>b DEF SubmitUrb, IsLastUrb
  <2>5. CASE SubmitFirstUrbFails(th)
    BY <2>5, <1>a, <1>b DEF SubmitFirstUrbFails
  <2>6. CASE SubmitLaterUrbFails(th)
    BY <2>6, <1>a, <1>b DEF SubmitLaterUrbFails, RefusedFrom, Discarded
  <2>7. CASE SubmitSucceeds(th)
    <3>1. PICK t \in Transfer : t = cur[th]
      BY <1>b
    <3>2. /\ pc[th] = "submit_ok" /\ pc' = [pc EXCEPT ![th] = back[th]]
          /\ state_flags' = [state_flags EXCEPT ![t] = @ \cup {"IN_FLIGHT"}]
          /\ canceller' = [canceller EXCEPT ![t] = "none"] /\ UNCHANGED <<cur, final>>
      BY <2>7, <3>1 DEF SubmitSucceeds
    <3>3. ~InFlight(t)
      BY <3>1, <3>2, <1>a DEF FlyingInv, SubmissionHasTransfer, Added
    <3>4. pc'[Handler] = "report" <=> pc[Handler] = "report"
      BY <3>2, <1>a, <1>b
    <3>5. Contract!Accept(t)
      BY <3>2, <3>3, <3>4, <1>b DEF Contract!Accept
    <3> QED
      BY <3>5 DEF Contract!Next
  <2>8. CASE CancelNotFound(th) \/ TimeoutsLock(th) \/ MarkTimedOut(th) \/
    TimeoutsUnlock(th)
    BY <2>8, <1>a, <1>b DEF CancelNotFound, TimeoutsLock, MarkTimedOut,
      TimeoutsUnlock, AfterCancel
  <2>9. CASE CancelInFlight(th)
    <3>1. PICK t \in Transfer : t = cur[th]
      BY <1>b
    <3>2. /\ pc[th] = "cancel" /\ "IN_FLIGHT" \in state_flags[t] /\ "CANCELLING" \notin state_flags[t]
          /\ \E l \in {"mark_timed_out", back[th]} : pc' = [pc EXCEPT ![th] = l]
          /\ \E who \in {"user", "timeout", canceller[t]} :
               canceller' = [canceller EXCEPT ![t] = who]
          /\ UNCHANGED <<cur, final>>
      BY <2>9, <3>1, <1>b DEF CancelInFlight, AfterCancel
    <3>3. \A u \in Transfer : InFlight(u)' = InFlight(u)
      BY <2>9, <3>1, <1>b DEF CancelInFlight
    <3>4. canceller[t] = "none"
      BY <3>2, <1>a, <1>b DEF CancelInv, CancelLeavesTraces
    <3>5. pc'[Handler] = "report" <=> pc[Handler] = "report"
      BY <3>2, <1>a, <1>b
    <3>6. CASE canceller' = canceller
      BY <3>2, <3>3, <3>5, <3>6
    <3>7. ASSUME NEW who \in {"user", "timeout"}, canceller' = [canceller EXCEPT ![t] = who]
          PROVE  [Contract!Next]_(Contract!cvars)
      <4>1. Contract!Want(t, who)
        <5> HIDE DEF InFlight
        <5>1. [u \in Transfer |-> InFlight(u)]' = [u \in Transfer |-> InFlight(u)]
          BY <3>3
        <5>2. InFlight(t)
          BY <3>2 DEF InFlight
        <5> QED
          BY <3>2, <3>4, <3>5, <3>7, <5>1, <5>2 DEF Contract!Want
      <4> QED
        BY <4>1 DEF Contract!Next
    <3> QED
      <4>1. canceller' = canceller \/ \E who \in {"user", "timeout"} : canceller' = [canceller EXCEPT ![t] = who]
        <5>1. [canceller EXCEPT ![t] = canceller[t]] = canceller
          BY <1>b
        <5> QED
          BY <3>2, <5>1
      <4> QED
        BY <3>6, <3>7, <4>1
  <2>10. ASSUME NEW t \in Transfer, HandleTimeout(th, t) PROVE
    [Contract!Next]_(Contract!cvars)
    BY <2>10, <1>a, <1>b DEF HandleTimeout
  <2> QED
    BY <1>1, <2>1, <2>2, <2>3, <2>4, <2>5, <2>6, <2>7, <2>8, <2>9, <2>10 DEF
      ThreadStep
<1>2. CASE HandlerStep
  <2>1. ASSUME NEW t \in Transfer, NEW i \in Urb, Reap(t, i) PROVE
    [Contract!Next]_(Contract!cvars)
    BY <2>1, <1>a, <1>b DEF Reap
  <2>2. CASE HandleBulkCompletion
    <3>1. /\ pc[Handler] \in {"reaped", "completed"}
          /\ UNCHANGED <<callVars, flagVars, canceller>>
      BY <2>2, CompletionMoves
    <3>2. PICK l \in {"idle", "completed", "cancellation", "remove_flying"} :
            pc' = [pc EXCEPT ![Handler] = l]
      BY <2>2, CompletionMoves
    <3> QED
      BY <3>1, <3>2, <1>a, <1>b
  <2>3. CASE ReadReapAction
    <3>1. /\ pc[Handler] \in {"reaped", "completed"}
          /\ UNCHANGED <<callVars, flagVars, canceller>>
      BY <2>3, CompletionMoves
    <3>2. PICK l \in {"idle", "completed", "cancellation", "remove_flying"} :
            pc' = [pc EXCEPT ![Handler] = l]
      BY <2>3, CompletionMoves
    <3> QED
      BY <3>1, <3>2, <1>a, <1>b
  <2>4. CASE HandleIsoCompletion
    <3>1. /\ pc[Handler] \in {"reaped", "completed"}
          /\ UNCHANGED <<callVars, flagVars, canceller>>
      BY <2>4, CompletionMoves
    <3>2. PICK l \in {"idle", "completed", "cancellation", "remove_flying"} :
            pc' = [pc EXCEPT ![Handler] = l]
      BY <2>4, CompletionMoves
    <3> QED
      BY <3>1, <3>2, <1>a, <1>b
  <2>5. CASE HandleControlCompletion
    <3>1. /\ pc[Handler] \in {"reaped", "completed"}
          /\ UNCHANGED <<callVars, flagVars, canceller>>
      BY <2>5, CompletionMoves
    <3>2. PICK l \in {"idle", "completed", "cancellation", "remove_flying"} :
            pc' = [pc EXCEPT ![Handler] = l]
      BY <2>5, CompletionMoves
    <3> QED
      BY <3>1, <3>2, <1>a, <1>b
  <2>6. CASE HandleCancellation \/ RemoveFlying \/ CallbackReturns
    BY <2>6, <1>a, <1>b DEF HandleCancellation, RemoveFlying, CallbackReturns
  <2>7. CASE ClearInFlight
    <3>1. PICK t \in Transfer : t = cur[Handler]
      BY <1>a, <1>b
    <3>2. /\ pc[Handler] = "clear_in_flight" /\ pc' = [pc EXCEPT ![Handler] = "report"]
          /\ state_flags' = [state_flags EXCEPT ![t] = @ \ {"IN_FLIGHT"}]
          /\ UNCHANGED <<cur, final, canceller>>
      BY <2>7, <3>1 DEF ClearInFlight
    <3>3. InFlight(t)
      BY <3>1, <3>2, <1>a DEF FlyingInv, HandlerFinishes, Finishing
    <3>4. final \in Contract!Agrees(canceller[t])
      BY <3>1, <3>2, <1>a DEF CancelInv, FinalAgrees
    <3>5. pc'[Handler] = "report"
      BY <3>2, <1>a, <1>b
    <3>7. PICK outcome \in Contract!Outcome : outcome = final
      BY <1>b DEF Contract!Outcome, TransferStatus
    <3>8. Contract!Retire(t, outcome)
      <4> HIDE DEF Contract!Agrees
      <4> QED
        <5>1. pc[Handler] # "report" /\ cur'[Handler] = t /\ final' = final
          BY <3>1, <3>2
        <5>2. InFlight(t)' = FALSE /\ \A u \in Transfer \ {t} : InFlight(u)' = InFlight(u)
          BY <3>2, <1>b
        <5> HIDE DEF InFlight
        <5>3. [u \in Transfer |-> InFlight(u)]' = [[u \in Transfer |-> InFlight(u)] EXCEPT ![t] = FALSE]
          BY <5>2
        <5> QED
          BY <3>2, <3>3, <3>4, <3>5, <3>7, <5>1, <5>3 DEF Contract!Retire
    <3> HIDE DEF Contract!Outcome
    <3> QED
      BY <3>7, <3>8 DEF Contract!Next
  <2>8. CASE InvokeCallback
    <3>1. /\ pc[Handler] = "report" /\ pc' = [pc EXCEPT ![Handler] = "callback"]
          /\ UNCHANGED <<state_flags, canceller>>
      BY <2>8 DEF InvokeCallback
    <3>2. pc'[Handler] # "report"
      BY <3>1, <1>a, <1>b
    <3>3. [tr |-> cur[Handler], outcome |-> final] # [tr |-> "none"]
      <4>1. "outcome" \in DOMAIN [tr |-> cur[Handler], outcome |-> final]
        OBVIOUS
      <4>2. "outcome" \notin DOMAIN [tr |-> "none"]
        OBVIOUS
      <4> QED
        BY <4>1, <4>2
    <3>4. Contract!Call
      BY <3>1, <3>2, <3>3 DEF Contract!Call
    <3> QED
      BY <3>4 DEF Contract!Next
  <2>9. CASE PollError \/ DrainDone \/ DisconnectLock \/ DisconnectDone
    BY <2>9, <1>a, <1>b DEF PollError, DrainDone, DisconnectLock, DisconnectDone
  <2>10. ASSUME NEW t \in Transfer, DisconnectFound(t) PROVE
    [Contract!Next]_(Contract!cvars)
    BY <2>10, <1>a, <1>b DEF DisconnectFound
  <2>11. CASE ClearTransferPriv
    BY <2>11, <1>a, <1>b DEF ClearTransferPriv
  <2> QED
    BY <1>2, <2>1, <2>2, <2>3, <2>4, <2>5, <2>6, <2>7, <2>8, <2>9, <2>10, <2>11 DEF
      HandlerStep
<1>3. ASSUME NEW th \in Thread, NEW t \in Transfer, SubmitTransfer(th, t) PROVE
  [Contract!Next]_(Contract!cvars)
  BY <1>3, <1>a, <1>b DEF SubmitTransfer, Call
<1>4. ASSUME NEW th \in Thread, NEW t \in Transfer, CancelTransfer(th, t) PROVE
  [Contract!Next]_(Contract!cvars)
  BY <1>4, <1>a, <1>b DEF CancelTransfer, Call
<1>5. ASSUME NEW th \in Thread, HandleTimeouts(th) PROVE
  [Contract!Next]_(Contract!cvars)
  BY <1>5, <1>a, <1>b DEF HandleTimeouts
<1>6. ASSUME NEW t \in Transfer, NEW i \in Urb, NEW status \in UrbStatus,
  KernelCompletes(t, i, status) PROVE [Contract!Next]_(Contract!cvars)
  BY <1>6, <1>a, <1>b DEF KernelCompletes, Discarded
<1>7. CASE Unplug
  BY <1>7, <1>a, <1>b DEF Unplug
<1>8. ASSUME NEW t \in Transfer, Expire(t) PROVE [Contract!Next]_(Contract!cvars)
  BY <1>8, <1>a, <1>b DEF Expire
<1>9. CASE UNCHANGED vars
  BY <1>a, <1>9 DEF vars
<1> HIDE DEF InFlight, Contract!cvars, Contract!NoCallback, LockInv, CallsReturn, UserLabel,
     Submitting
<1> QED
  BY <1>1, <1>2, <1>3, <1>4, <1>5, <1>6, <1>7, <1>8, <1>9 DEF Next, ProgramCall,
    Environment

\* libusb keeps its contract with the owner of a transfer: one callback for each accepted
\* submission and none without, told a status that agrees with who cancelled it.
THEOREM KeepsContract == Spec => ImplementsContract
<1>1. Init => Contract!Init
  BY ContractInit
<1>2. IInv /\ [Next]_vars => [Contract!Next]_(Contract!cvars)
  BY ContractStep
<1> QED
  BY <1>1, <1>2, Invariance, PTL DEF Spec, ImplementsContract, Contract!Spec
=============================================================================
