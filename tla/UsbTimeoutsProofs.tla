------------------------- MODULE UsbTimeoutsProofs -------------------------
(***************************************************************************)
(* Proofs about UsbTimeouts, for any transfers, timeouts and bound on the  *)
(* clock: the handler always knows of the next timeout.                    *)
(*                                                                         *)
(* That needs the list to be sorted, since the code looks at its first     *)
(* transfers only: add_to_flying_list arms the timer when it adds a head,  *)
(* remove_from_flying_list when it removes one, and                        *)
(* libusb_get_next_timeout stops at the first unhandled timeout.           *)
(***************************************************************************)
EXTENDS UsbTimeouts, WellFoundedInduction, TLAPS

\* The list is sorted by the time its transfers expire, those that never do last.
Sorted ==
  \A i, j \in DOMAIN flying :
    i < j /\ Timed(flying[j]) => Timed(flying[i]) /\ timeout[flying[i]] <= timeout[flying[j]]

NoneTwice == \A i, j \in DOMAIN flying : flying[i] = flying[j] => i = j

TimerEarly ==
  using_timer => \A t \in Pending : \/ timer # 0 /\ timer <= timeout[t]
                                    \/ Head(flying) \in handled

TimeoutsInv == TimeoutsTypeOK /\ Sorted /\ NoneTwice /\ TimerEarly

-----------------------------------------------------------------------------
\* A set of numbers has a least.
LEMMA LeastOf ==
  ASSUME NEW T \in SUBSET Nat, T # {}
  PROVE  Min(T) \in T /\ \A y \in T : Min(T) <= y
<1>1. \E x \in T : \A y \in T : ~(y < x)
  <2>1. PICK x \in T : \A y \in T : <<y, x>> \notin OpToRel(<, Nat)
    BY NatLessThanWellFounded, WFMin, Zenon
  <2> QED
    BY <2>1, Zenon DEF OpToRel
<1>2. \E x \in T : \A y \in T : x <= y
  BY <1>1
<1> QED
  BY <1>2, Zenon DEF Min

\* What concatenation does.
LEMMA ConcatFacts ==
  ASSUME NEW S, NEW a \in Seq(S), NEW b \in Seq(S)
  PROVE  /\ a \o b \in Seq(S) /\ Len(a \o b) = Len(a) + Len(b)
         /\ \A i \in 1 .. Len(a) : (a \o b)[i] = a[i]
         /\ \A i \in Len(a) + 1 .. Len(a) + Len(b) : (a \o b)[i] = b[i - Len(a)]
OBVIOUS

\* What InsertAt does.
LEMMA InsertFacts ==
  ASSUME NEW S, NEW q \in Seq(S), NEW p \in 1 .. Len(q) + 1, NEW e \in S
  PROVE  /\ InsertAt(q, p, e) \in Seq(S) /\ DOMAIN InsertAt(q, p, e) = 1 .. Len(q) + 1
         /\ InsertAt(q, p, e)[p] = e
         /\ \A i \in 1 .. Len(q) + 1 : i < p => i \in DOMAIN q /\ InsertAt(q, p, e)[i] = q[i]
         /\ \A i \in 1 .. Len(q) + 1 :
              i > p => i - 1 \in DOMAIN q /\ InsertAt(q, p, e)[i] = q[i - 1]
<1> DEFINE before == SubSeq(q, 1, p - 1)
           after == SubSeq(q, p, Len(q))
<1>1. Len(q) \in Nat /\ DOMAIN q = 1 .. Len(q) /\ p \in Nat \ {0}
  OBVIOUS
<1>2. /\ before \in Seq(S) /\ Len(before) = p - 1
      /\ \A i \in 1 .. p - 1 : before[i] = q[i]
  BY <1>1
<1>3. /\ after \in Seq(S) /\ Len(after) = Len(q) - p + 1
      /\ \A i \in 1 .. Len(q) - p + 1 : after[i] = q[p + i - 1]
  BY <1>1
<1> DEFINE head == before \o <<e>>
<1>4. /\ head \in Seq(S) /\ Len(head) = p /\ head[p] = e
      /\ \A i \in 1 .. p - 1 : head[i] = q[i]
  BY <1>1, <1>2
<1>5. /\ head \o after \in Seq(S) /\ Len(head \o after) = Len(q) + 1
      /\ \A i \in 1 .. p : (head \o after)[i] = head[i]
      /\ \A i \in p + 1 .. Len(q) + 1 : (head \o after)[i] = after[i - p]
  <2> HIDE DEF head, after
  <2>1. /\ head \o after \in Seq(S) /\ Len(head \o after) = Len(head) + Len(after)
        /\ \A i \in 1 .. Len(head) : (head \o after)[i] = head[i]
        /\ \A i \in Len(head) + 1 .. Len(head) + Len(after) :
             (head \o after)[i] = after[i - Len(head)]
    BY <1>3, <1>4, ConcatFacts
  <2>2. Len(head) + Len(after) = Len(q) + 1
    BY <1>1, <1>3, <1>4
  <2> QED
    BY <1>4, <2>1, <2>2
<1>6. InsertAt(q, p, e) = head \o after
  BY DEF InsertAt
<1>7. ASSUME NEW i \in 1 .. Len(q) + 1, i > p
      PROVE  i - 1 \in DOMAIN q /\ InsertAt(q, p, e)[i] = q[i - 1]
  <2>1. i \in p + 1 .. Len(q) + 1 /\ i - p \in 1 .. Len(q) - p + 1
        /\ p + (i - p) - 1 = i - 1 /\ i - 1 \in DOMAIN q
    BY <1>1, <1>7
  <2> QED
    BY <1>3, <1>5, <1>6, <2>1
<1>8. InsertAt(q, p, e)[p] = e
  <2> HIDE DEF head, after
  <2>1. p \in 1 .. p
    BY <1>1
  <2> QED
    BY <1>4, <1>5, <1>6, <2>1
<1>9. ASSUME NEW i \in 1 .. Len(q) + 1, i < p
      PROVE  i \in DOMAIN q /\ InsertAt(q, p, e)[i] = q[i]
  <2>1. i \in 1 .. p /\ i \in 1 .. p - 1 /\ i \in DOMAIN q
    BY <1>1, <1>9
  <2> QED
    BY <1>4, <1>5, <1>6, <2>1
<1>10. InsertAt(q, p, e) \in Seq(S) /\ DOMAIN InsertAt(q, p, e) = 1 .. Len(q) + 1
  <2> HIDE DEF head, after
  <2> QED
    BY <1>5, <1>6
<1> QED
  BY <1>7, <1>8, <1>9, <1>10

\* What RemoveAt does.
LEMMA RemoveFacts ==
  ASSUME NEW S, NEW q \in Seq(S), NEW p \in DOMAIN q
  PROVE  /\ RemoveAt(q, p) \in Seq(S) /\ DOMAIN RemoveAt(q, p) = 1 .. Len(q) - 1
         /\ \A i \in 1 .. Len(q) - 1 : i < p => i \in DOMAIN q /\ RemoveAt(q, p)[i] = q[i]
         /\ \A i \in 1 .. Len(q) - 1 :
              i >= p => i + 1 \in DOMAIN q /\ RemoveAt(q, p)[i] = q[i + 1]
<1> DEFINE before == SubSeq(q, 1, p - 1)
           after == SubSeq(q, p + 1, Len(q))
<1>1. Len(q) \in Nat /\ DOMAIN q = 1 .. Len(q) /\ p \in 1 .. Len(q)
  OBVIOUS
<1>2. /\ before \in Seq(S) /\ Len(before) = p - 1
      /\ \A i \in 1 .. p - 1 : before[i] = q[i]
  BY <1>1
<1>3. /\ after \in Seq(S) /\ Len(after) = Len(q) - p
      /\ \A i \in 1 .. Len(q) - p : after[i] = q[p + i]
  BY <1>1
<1>4. /\ before \o after \in Seq(S) /\ Len(before \o after) = Len(q) - 1
      /\ \A i \in 1 .. p - 1 : (before \o after)[i] = before[i]
      /\ \A i \in p .. Len(q) - 1 : (before \o after)[i] = after[i - p + 1]
  <2> HIDE DEF before, after
  <2>1. /\ before \o after \in Seq(S) /\ Len(before \o after) = Len(before) + Len(after)
        /\ \A i \in 1 .. Len(before) : (before \o after)[i] = before[i]
        /\ \A i \in Len(before) + 1 .. Len(before) + Len(after) :
             (before \o after)[i] = after[i - Len(before)]
    BY <1>2, <1>3, ConcatFacts
  <2>2. /\ Len(before) + Len(after) = Len(q) - 1 /\ Len(before) + 1 = p
        /\ \A i \in p .. Len(q) - 1 : i - Len(before) = i - p + 1
    BY <1>1, <1>2, <1>3
  <2> QED
    BY <1>2, <2>1, <2>2
<1>5. RemoveAt(q, p) = before \o after
  BY DEF RemoveAt
<1>6. ASSUME NEW i \in 1 .. Len(q) - 1, i >= p
      PROVE  i + 1 \in DOMAIN q /\ RemoveAt(q, p)[i] = q[i + 1]
  <2>1. i \in p .. Len(q) - 1 /\ i - p + 1 \in 1 .. Len(q) - p
        /\ p + (i - p + 1) = i + 1 /\ i + 1 \in DOMAIN q
    BY <1>1, <1>6
  <2> QED
    BY <1>3, <1>4, <1>5, <2>1
<1>7. ASSUME NEW i \in 1 .. Len(q) - 1, i < p
      PROVE  i \in DOMAIN q /\ RemoveAt(q, p)[i] = q[i]
  <2>1. i \in 1 .. p - 1 /\ i \in DOMAIN q
    BY <1>1, <1>7
  <2> QED
    BY <1>2, <1>4, <1>5, <2>1
<1>8. RemoveAt(q, p) \in Seq(S) /\ DOMAIN RemoveAt(q, p) = 1 .. Len(q) - 1
  <2> HIDE DEF before, after
  <2> QED
    BY <1>4, <1>5
<1> QED
  BY <1>6, <1>7, <1>8

\* What precedes the place of a new transfer expires no later, and what follows it later
\* or never.
LEMMA PositionFacts ==
  ASSUME TimeoutsTypeOK, Sorted, NEW when \in Nat
  PROVE  LET p == InsertPosition(when) IN
         /\ p \in 1 .. Len(flying) + 1
         /\ when = 0 => p = Len(flying) + 1
         /\ \A i \in DOMAIN flying :
              /\ i < p /\ when # 0 => Timed(flying[i]) /\ timeout[flying[i]] <= when
              /\ i >= p /\ Timed(flying[i]) => timeout[flying[i]] > when
<1> DEFINE p == InsertPosition(when)
           later == {i \in DOMAIN flying : ~Timed(flying[i]) \/ timeout[flying[i]] > when}
<1>1. /\ Len(flying) \in Nat /\ DOMAIN flying = 1 .. Len(flying)
      /\ \A i \in DOMAIN flying : flying[i] \in FlyingTransfer /\ timeout[flying[i]] \in Nat
  BY DurationsAssumption DEF TimeoutsTypeOK
<1>2. CASE when = 0 \/ later = {}
  <2>1. p = Len(flying) + 1
    BY <1>2 DEF InsertPosition
  <2>2. \A i \in DOMAIN flying : i < p /\ ~(i >= p)
    BY <1>1, <2>1
  <2>3. when # 0 => \A i \in DOMAIN flying : Timed(flying[i]) /\ timeout[flying[i]] <= when
    BY <1>1, <1>2
  <2> QED
    BY <1>1, <2>1, <2>2, <2>3
<1>3. CASE when # 0 /\ later # {}
  <2>1. p = Min(later)
    BY <1>3 DEF InsertPosition
  <2>2. later \in SUBSET Nat
    BY <1>1
  <2>3. p \in later /\ \A i \in later : p <= i
    BY <1>3, <2>1, <2>2, LeastOf
  <2>4. \A i \in DOMAIN flying : i < p => i \notin later
    BY <1>1, <2>3
  <2>5. ASSUME NEW i \in DOMAIN flying, i >= p, Timed(flying[i])
        PROVE  timeout[flying[i]] > when
    <3>1. CASE i = p
      BY <2>3, <2>5, <3>1
    <3>2. CASE i > p
      <4>1. Timed(flying[p]) /\ timeout[flying[p]] <= timeout[flying[i]]
        BY <2>3, <2>5, <3>2 DEF Sorted
      <4> QED
        BY <1>1, <2>3, <4>1
    <3> QED
      BY <1>1, <2>3, <2>5, <3>1, <3>2
  <2> QED
    BY <1>1, <1>3, <2>3, <2>4, <2>5
<1> QED
  BY <1>2, <1>3

\* libusb_get_next_timeout and arm_timer_for_next_timeout find the earliest unhandled
\* timeout of a sorted list.
LEMMA NextTimeoutFacts ==
  ASSUME NEW list \in Seq(FlyingTransfer), NEW seen,
         timeout \in [FlyingTransfer -> 0 .. MaxTime],
         \A i, j \in DOMAIN list :
           i < j /\ Timed(list[j]) => Timed(list[i]) /\ timeout[list[i]] <= timeout[list[j]]
  PROVE  /\ NextTimeout(list, seen) \in 0 .. MaxTime
         /\ \A i \in DOMAIN list :
              Timed(list[i]) /\ list[i] \notin seen =>
                NextTimeout(list, seen) # 0 /\ NextTimeout(list, seen) <= timeout[list[i]]
<1> DEFINE stops == {i \in DOMAIN list : ~Timed(list[i]) \/ list[i] \notin seen}
<1>1. /\ DOMAIN list \in SUBSET Nat /\ MaxTime \in Nat
      /\ \A i \in DOMAIN list : list[i] \in FlyingTransfer /\ timeout[list[i]] \in 0 .. MaxTime
  BY DurationsAssumption
<1>2. CASE stops = {}
  BY <1>1, <1>2 DEF NextTimeout
<1>3. CASE stops # {}
  <2>1. Min(stops) \in stops /\ \A i \in stops : Min(stops) <= i
    BY <1>1, <1>3, LeastOf
  <2>2. NextTimeout(list, seen) = timeout[list[Min(stops)]]
    BY <1>3 DEF NextTimeout
  <2>3. ASSUME NEW i \in DOMAIN list, Timed(list[i]), list[i] \notin seen
        PROVE  /\ timeout[list[Min(stops)]] # 0
               /\ timeout[list[Min(stops)]] <= timeout[list[i]]
    <3>1. CASE Min(stops) = i
      BY <1>1, <2>3, <3>1 DEF Timed
    <3>2. CASE Min(stops) < i
      BY <2>1, <2>3, <3>2 DEF Timed
    <3>3. i \in stops /\ i \in Nat /\ Min(stops) \in Nat
      BY <1>1, <2>1, <2>3
    <3>4. Min(stops) <= i
      BY <2>1, <3>3
    <3>5. Min(stops) = i \/ Min(stops) < i
      BY <3>3, <3>4
    <3> QED
      BY <3>1, <3>2, <3>5
  <2> QED
    BY <1>1, <2>1, <2>2, <2>3
<1> QED
  BY <1>2, <1>3

-----------------------------------------------------------------------------
LEMMA TimeoutsInitInv == TimeoutsInit => TimeoutsInv
<1> SUFFICES ASSUME TimeoutsInit PROVE TimeoutsInv
  OBVIOUS
<1> USE DEF TimeoutsInit
<1>1. TimeoutsTypeOK
  BY DurationsAssumption DEF TimeoutsTypeOK
<1>2. Pending = {} /\ DOMAIN flying = {}
  BY DEF Pending, Flying, ToSet
<1> QED
  BY <1>1, <1>2 DEF TimeoutsInv, Sorted, NoneTwice, TimerEarly

\* add_to_flying_list keeps the order, and arms the timer for a new head; another new
\* transfer does not expire before the head.
LEMMA AddStep ==
  ASSUME TimeoutsInv, NEW t \in FlyingTransfer, NEW duration \in Durations,
         AddToFlyingList(t, duration)
  PROVE  TimeoutsInv'
<1> DEFINE when == IF duration = 0 THEN 0 ELSE now + duration
           p == InsertPosition(when)
           first == p = 1 /\ when # 0 /\ using_timer
<1>1. /\ TimeoutsTypeOK /\ Sorted /\ NoneTwice /\ TimerEarly
      /\ MaxTime \in Nat /\ duration \in Nat /\ now \in 0 .. MaxTime
  BY DurationsAssumption DEF TimeoutsInv, TimeoutsTypeOK
<1>2. /\ t \notin Flying /\ when <= MaxTime
      /\ timeout' = [timeout EXCEPT ![t] = when] /\ handled' = handled \ {t}
      /\ \/ flying' = InsertAt(flying, p, t) /\ timer' = IF first THEN when ELSE timer
         \/ first /\ UNCHANGED <<flying, timer>>
      /\ now' = now /\ using_timer' = using_timer
  BY DEF AddToFlyingList
<1>3. when \in Nat /\ when \in 0 .. MaxTime
  BY <1>1, <1>2
<1>4. /\ p \in 1 .. Len(flying) + 1
      /\ when = 0 => p = Len(flying) + 1
      /\ \A i \in DOMAIN flying :
           /\ i < p /\ when # 0 => Timed(flying[i]) /\ timeout[flying[i]] <= when
           /\ i >= p /\ Timed(flying[i]) => timeout[flying[i]] > when
  BY <1>1, <1>3, PositionFacts
<1>5. /\ flying \in Seq(FlyingTransfer) /\ DOMAIN flying = 1 .. Len(flying) /\ Len(flying) \in Nat
      /\ timeout \in [FlyingTransfer -> 0 .. MaxTime]
      /\ \A i \in DOMAIN flying :
           /\ flying[i] \in FlyingTransfer /\ flying[i] # t
           /\ timeout'[flying[i]] = timeout[flying[i]] /\ timeout[flying[i]] \in Nat
  <2>1. flying \in Seq(FlyingTransfer) /\ timeout \in [FlyingTransfer -> 0 .. MaxTime]
    BY <1>1 DEF TimeoutsTypeOK
  <2>2. \A i \in DOMAIN flying : flying[i] \in FlyingTransfer /\ flying[i] # t
    BY <1>2, <2>1 DEF Flying, ToSet
  <2> QED
    BY <1>1, <1>2, <2>1, <2>2
<1>6. timeout'[t] = when
  BY <1>2, <1>5
<1> HIDE DEF when, p
<1>7. CASE first /\ UNCHANGED <<flying, timer>>
  <2>1. TimeoutsTypeOK'
    BY <1>1, <1>2, <1>3, <1>5, <1>6, <1>7 DEF TimeoutsTypeOK, Timed
  <2>2. Sorted' /\ NoneTwice'
    BY <1>1, <1>5, <1>7 DEF Sorted, NoneTwice, Timed
  <2>3. Pending' = Pending
    BY <1>2, <1>5, <1>7 DEF Pending, Flying, ToSet, Timed
  <2>4. ASSUME NEW u \in Pending
        PROVE  timeout'[u] = timeout[u] /\ (Head(flying) \in handled => Head(flying) \in handled')
    <3>1. PICK i \in DOMAIN flying : flying[i] = u
      BY DEF Pending, Flying, ToSet
    <3>2. 1 \in DOMAIN flying /\ Head(flying) = flying[1]
      BY <1>5, <3>1
    <3> QED
      BY <1>2, <1>5, <3>1, <3>2
  <2>5. TimerEarly'
    BY <1>1, <1>2, <1>7, <2>3, <2>4 DEF TimerEarly
  <2> QED
    BY <2>1, <2>2, <2>5 DEF TimeoutsInv
<1>8. CASE flying' = InsertAt(flying, p, t) /\ timer' = IF first THEN when ELSE timer
  <2>1. /\ flying' \in Seq(FlyingTransfer) /\ DOMAIN flying' = 1 .. Len(flying) + 1
        /\ flying'[p] = t
        /\ \A i \in DOMAIN flying' : i < p => i \in DOMAIN flying /\ flying'[i] = flying[i]
        /\ \A i \in DOMAIN flying' :
             i > p => i - 1 \in DOMAIN flying /\ flying'[i] = flying[i - 1]
    <3> DEFINE new == InsertAt(flying, p, t)
    <3>1. /\ new \in Seq(FlyingTransfer) /\ DOMAIN new = 1 .. Len(flying) + 1
          /\ new[p] = t
          /\ \A i \in 1 .. Len(flying) + 1 : i < p => i \in DOMAIN flying /\ new[i] = flying[i]
          /\ \A i \in 1 .. Len(flying) + 1 :
               i > p => i - 1 \in DOMAIN flying /\ new[i] = flying[i - 1]
      <4>1. flying \in Seq(FlyingTransfer) /\ p \in 1 .. Len(flying) + 1 /\ t \in FlyingTransfer
        BY <1>4, <1>5
      <4> QED
        BY <4>1, InsertFacts
    <3> HIDE DEF new
    <3>2. flying' = new
      BY <1>8 DEF new
    <3> QED
      BY <3>1, <3>2
  <2>2. TimeoutsTypeOK'
    BY <1>1, <1>2, <1>3, <1>5, <1>6, <1>8, <2>1 DEF TimeoutsTypeOK, Timed
  <2>3. \A i \in DOMAIN flying' : i \in Nat /\ (i < p \/ i = p \/ i > p)
    BY <1>4, <1>5, <2>1
  <2>4. ASSUME NEW i \in DOMAIN flying', NEW j \in DOMAIN flying', i < j, timeout'[flying'[j]] # 0
        PROVE  /\ timeout'[flying'[i]] # 0
               /\ timeout'[flying'[i]] <= timeout'[flying'[j]]
    <3>1. CASE j = p
      <4>1. i \in DOMAIN flying /\ flying'[i] = flying[i] /\ i < p
        BY <2>1, <2>4, <3>1
      <4>2. when # 0 /\ timeout'[flying'[j]] = when
        BY <1>6, <2>1, <2>4, <3>1
      <4> QED
        BY <1>4, <1>5, <4>1, <4>2 DEF Timed
    <3>2. CASE i = p
      <4>1. j - 1 \in DOMAIN flying /\ flying'[j] = flying[j - 1] /\ j - 1 >= p
        BY <2>1, <2>3, <2>4, <3>2, <1>4
      <4>2. timeout'[flying'[j]] = timeout[flying[j - 1]] /\ timeout[flying[j - 1]] > when
        BY <1>4, <1>5, <2>4, <4>1 DEF Timed
      <4>3. when # 0
        BY <1>4, <1>5, <4>1
      <4> QED
        BY <1>3, <1>5, <1>6, <2>1, <3>2, <4>1, <4>2, <4>3
    <3>3. CASE i # p /\ j # p
      <4>1. PICK k \in DOMAIN flying : flying'[i] = flying[k] /\ k = IF i < p THEN i ELSE i - 1
        BY <2>1, <2>3, <3>3
      <4>2. PICK l \in DOMAIN flying : flying'[j] = flying[l] /\ l = IF j < p THEN j ELSE j - 1
        BY <2>1, <2>3, <3>3
      <4>3. k < l
        BY <1>4, <2>3, <2>4, <3>3, <4>1, <4>2
      <4>4. Timed(flying[l])
        BY <1>5, <2>4, <4>2 DEF Timed
      <4>5. Timed(flying[k]) /\ timeout[flying[k]] <= timeout[flying[l]]
        BY <1>1, <4>3, <4>4 DEF Sorted
      <4> QED
        BY <1>5, <4>1, <4>2, <4>5 DEF Timed
    <3> QED
      BY <3>1, <3>2, <3>3
  <2>5. Sorted'
    BY <2>4 DEF Sorted, Timed
  <2>6. ASSUME NEW i \in DOMAIN flying', NEW j \in DOMAIN flying', flying'[i] = flying'[j]
        PROVE  i = j
    <3>1. CASE i = p \/ j = p
      BY <1>5, <2>1, <2>3, <2>6, <3>1
    <3>2. CASE i # p /\ j # p
      <4>1. PICK k \in DOMAIN flying : flying'[i] = flying[k] /\ k = IF i < p THEN i ELSE i - 1
        BY <2>1, <2>3, <3>2
      <4>2. PICK l \in DOMAIN flying : flying'[j] = flying[l] /\ l = IF j < p THEN j ELSE j - 1
        BY <2>1, <2>3, <3>2
      <4>3. k = l
        BY <1>1, <2>6, <4>1, <4>2 DEF NoneTwice
      <4> QED
        BY <1>4, <2>3, <3>2, <4>1, <4>2, <4>3
    <3> QED
      BY <3>1, <3>2
  <2>7. NoneTwice'
    BY <2>6 DEF NoneTwice
  <2>8. ASSUME using_timer, NEW u \in Pending'
        PROVE  (timer' # 0 /\ timer' <= timeout'[u]) \/ Head(flying') \in handled'
    <3>1. PICK i \in DOMAIN flying' : flying'[i] = u
      BY DEF Pending, Flying, ToSet
    <3>2. timeout'[u] # 0 /\ u \notin handled'
      BY DEF Pending, Timed
    <3>3. 1 \in DOMAIN flying' /\ Head(flying') = flying'[1]
      BY <1>5, <2>1
    <3>4. CASE first
      <4>1. timer' = when /\ p = 1 /\ when # 0
        BY <1>8, <3>4
      <4>2. CASE i = 1
        BY <1>3, <1>6, <2>1, <3>1, <4>1, <4>2
      <4>3. CASE i > 1
        <5>1. i - 1 \in DOMAIN flying /\ u = flying[i - 1] /\ i - 1 >= 1
          BY <2>1, <3>1, <4>1, <4>3
        <5>2. timeout'[u] = timeout[flying[i - 1]] /\ Timed(flying[i - 1])
          BY <1>5, <3>2, <5>1 DEF Timed
        <5>3. timeout[flying[i - 1]] > when
          BY <1>4, <4>1, <5>1, <5>2
        <5> QED
          BY <1>3, <1>5, <4>1, <5>1, <5>2, <5>3
      <4> QED
        BY <2>1, <2>3, <4>1, <4>2, <4>3
    <3>5. CASE ~first
      <4>1. timer' = timer
        BY <1>8, <3>5
      <4>2. CASE p = 1
        <5>1. when = 0 /\ Len(flying) = 0
          BY <1>4, <1>5, <2>8, <3>5, <4>2
        <5>2. i = 1
          BY <2>1, <5>1
        <5> QED
          BY <1>6, <2>1, <3>1, <3>2, <4>2, <5>1, <5>2
      <4>3. CASE p # 1
        <5>1. 1 < p /\ 1 \in DOMAIN flying /\ flying'[1] = flying[1] /\ Head(flying) = flying[1]
          BY <1>4, <1>5, <2>1, <3>3, <4>3
        <5>2. flying[1] \in handled <=> flying'[1] \in handled'
          BY <1>2, <1>5, <5>1
        <5>3. CASE flying[1] \in handled
          BY <3>3, <5>1, <5>2, <5>3
        <5>4. CASE flying[1] \notin handled
          <6>1. timeout'[flying'[1]] # 0 /\ timeout'[flying'[1]] <= timeout'[u]
            <7>1. CASE i = 1
              BY <1>5, <3>1, <3>2, <5>1, <7>1
            <7>2. CASE i # 1
              <8>1. 1 < i
                BY <2>3, <3>3, <7>2, <2>1
              <8> QED
                BY <2>4, <3>1, <3>2, <3>3, <8>1
            <7> QED
              BY <7>1, <7>2
          <6>2. Timed(flying[1]) /\ timeout'[flying'[1]] = timeout[flying[1]]
            BY <1>5, <5>1, <6>1 DEF Timed
          <6>3. flying[1] \in Pending
            BY <5>1, <5>4, <6>2 DEF Pending, Flying, ToSet
          <6>4. timer # 0 /\ timer <= timeout[flying[1]]
            BY <1>1, <2>8, <5>1, <5>4, <6>3 DEF TimerEarly
          <6>5. timer \in Nat /\ timeout'[u] \in Nat /\ timeout[flying[1]] \in Nat
            BY <1>1, <1>5, <2>1, <2>2, <3>1, <5>1 DEF TimeoutsTypeOK
          <6> QED
            BY <4>1, <6>1, <6>2, <6>4, <6>5
        <5> QED
          BY <5>3, <5>4
      <4> QED
        BY <4>2, <4>3
    <3> QED
      BY <3>4, <3>5
  <2>9. TimerEarly'
    BY <1>2, <2>8 DEF TimerEarly
  <2> QED
    BY <2>2, <2>5, <2>7, <2>9 DEF TimeoutsInv
<1> QED
  BY <1>2, <1>7, <1>8

\* remove_from_flying_list arms the timer anew when it removes a head with a timeout;
\* behind one without, nothing ever expires.
LEMMA RemoveStep ==
  ASSUME TimeoutsInv, NEW t \in FlyingTransfer, RemoveFromFlyingList(t)
  PROVE  TimeoutsInv'
<1>1. /\ TimeoutsTypeOK /\ Sorted /\ NoneTwice /\ TimerEarly
      /\ MaxTime \in Nat /\ flying \in Seq(FlyingTransfer)
      /\ timeout \in [FlyingTransfer -> 0 .. MaxTime]
  BY DurationsAssumption DEF TimeoutsInv, TimeoutsTypeOK
<1>2. PICK p \in DOMAIN flying : flying[p] = t /\ flying' = RemoveAt(flying, p)
  BY DEF RemoveFromFlyingList
<1>3. /\ timer' = IF using_timer /\ Timed(t) /\ Head(flying) = t
                  THEN NextTimeout(flying', handled) ELSE timer
      /\ now' = now /\ timeout' = timeout /\ handled' = handled /\ using_timer' = using_timer
  BY DEF RemoveFromFlyingList
<1>4. /\ flying' \in Seq(FlyingTransfer) /\ DOMAIN flying' = 1 .. Len(flying) - 1
      /\ Len(flying) \in Nat /\ DOMAIN flying = 1 .. Len(flying)
      /\ \A i \in DOMAIN flying' : i < p => i \in DOMAIN flying /\ flying'[i] = flying[i]
      /\ \A i \in DOMAIN flying' : i >= p => i + 1 \in DOMAIN flying /\ flying'[i] = flying[i + 1]
  <2> DEFINE rest == RemoveAt(flying, p)
  <2>1. /\ rest \in Seq(FlyingTransfer) /\ DOMAIN rest = 1 .. Len(flying) - 1
        /\ \A i \in 1 .. Len(flying) - 1 : i < p => i \in DOMAIN flying /\ rest[i] = flying[i]
        /\ \A i \in 1 .. Len(flying) - 1 :
             i >= p => i + 1 \in DOMAIN flying /\ rest[i] = flying[i + 1]
    <3>1. flying \in Seq(FlyingTransfer) /\ p \in DOMAIN flying
      BY <1>1
    <3> QED
      BY <3>1, RemoveFacts
  <2>2. Len(flying) \in Nat /\ DOMAIN flying = 1 .. Len(flying)
    BY <1>1
  <2> HIDE DEF rest
  <2>3. flying' = rest
    BY <1>2 DEF rest
  <2> QED
    BY <2>1, <2>2, <2>3
<1>5. ASSUME NEW i \in DOMAIN flying'
      PROVE  i \in Nat \ {0} /\ \E k \in DOMAIN flying :
               flying'[i] = flying[k] /\ k = IF i < p THEN i ELSE i + 1
  BY <1>4
<1>6. ASSUME NEW i \in DOMAIN flying', NEW j \in DOMAIN flying', i < j, Timed(flying'[j])
      PROVE  Timed(flying'[i]) /\ timeout[flying'[i]] <= timeout[flying'[j]]
  <2>1. PICK k \in DOMAIN flying : flying'[i] = flying[k] /\ k = IF i < p THEN i ELSE i + 1
    BY <1>5
  <2>2. PICK l \in DOMAIN flying : flying'[j] = flying[l] /\ l = IF j < p THEN j ELSE j + 1
    BY <1>5
  <2>3. k < l
    BY <1>4, <1>5, <1>6, <2>1, <2>2
  <2> QED
    BY <1>1, <1>6, <2>1, <2>2, <2>3 DEF Sorted
<1>7. Sorted'
  BY <1>3, <1>6 DEF Sorted, Timed
<1>8. NoneTwice'
  <2>1. SUFFICES ASSUME NEW i \in DOMAIN flying', NEW j \in DOMAIN flying', flying'[i] = flying'[j]
                 PROVE  i = j
    BY DEF NoneTwice
  <2>2. PICK k \in DOMAIN flying : flying'[i] = flying[k] /\ k = IF i < p THEN i ELSE i + 1
    BY <1>5
  <2>3. PICK l \in DOMAIN flying : flying'[j] = flying[l] /\ l = IF j < p THEN j ELSE j + 1
    BY <1>5
  <2>4. k = l
    BY <1>1, <2>1, <2>2, <2>3 DEF NoneTwice
  <2> QED
    BY <1>4, <1>5, <2>2, <2>3, <2>4
<1>9. /\ NextTimeout(flying', handled) \in 0 .. MaxTime
      /\ \A i \in DOMAIN flying' :
           Timed(flying'[i]) /\ flying'[i] \notin handled =>
             /\ NextTimeout(flying', handled) # 0
             /\ NextTimeout(flying', handled) <= timeout[flying'[i]]
  <2> DEFINE rest == RemoveAt(flying, p)
  <2>1. rest \in Seq(FlyingTransfer)
    BY <1>2, <1>4
  <2>2. \A i, j \in DOMAIN rest :
          i < j /\ Timed(rest[j]) => Timed(rest[i]) /\ timeout[rest[i]] <= timeout[rest[j]]
    BY <1>2, <1>6
  <2> HIDE DEF rest
  <2>3. /\ NextTimeout(rest, handled) \in 0 .. MaxTime
        /\ \A i \in DOMAIN rest :
             Timed(rest[i]) /\ rest[i] \notin handled =>
               NextTimeout(rest, handled) # 0 /\ NextTimeout(rest, handled) <= timeout[rest[i]]
    BY <1>1, <2>1, <2>2, NextTimeoutFacts
  <2>4. flying' = rest
    BY <1>2 DEF rest
  <2>5. NextTimeout(flying', handled) = NextTimeout(rest, handled)
    BY <2>4
  <2> QED
    BY <2>3, <2>4, <2>5
<1>10. TimeoutsTypeOK'
  BY <1>1, <1>3, <1>4, <1>9 DEF TimeoutsTypeOK, Timed
<1>11. ASSUME using_timer, NEW u \in Pending'
       PROVE  (timer' # 0 /\ timer' <= timeout[u]) \/ Head(flying') \in handled
  <2>1. PICK i \in DOMAIN flying' : flying'[i] = u
    BY DEF Pending, Flying, ToSet
  <2>2. Timed(u) /\ u \notin handled
    BY <1>3 DEF Pending, Timed
  <2>3. CASE Timed(t) /\ Head(flying) = t
    BY <1>3, <1>9, <1>11, <2>1, <2>2, <2>3
  <2>4. CASE ~(Timed(t) /\ Head(flying) = t)
    <3>1. timer' = timer
      BY <1>3, <2>4
    <3>2. PICK k \in DOMAIN flying : u = flying[k] /\ k = IF i < p THEN i ELSE i + 1
      BY <1>5, <2>1
    <3>3. u \in Pending
      BY <2>2, <3>2 DEF Pending, Flying, ToSet
    <3>4. Head(flying) = flying[1] /\ 1 \in DOMAIN flying
      BY <1>1, <1>4
    <3>5. p # 1
      <4>1. SUFFICES ASSUME p = 1 PROVE FALSE
        OBVIOUS
      <4>2. ~Timed(flying[1])
        BY <1>2, <2>4, <3>4, <4>1
      <4>3. 1 < k
        BY <1>5, <3>2, <4>1
      <4> QED
        BY <1>1, <2>2, <3>2, <3>4, <4>2, <4>3 DEF Sorted
    <3>6. Head(flying') = Head(flying)
      <4>1. 1 \in DOMAIN flying' /\ 1 < p
        BY <1>4, <1>5, <2>1, <3>5
      <4>2. flying'[1] = flying[1]
        BY <1>4, <4>1
      <4> QED
        BY <1>4, <3>4, <4>1, <4>2
    <3> QED
      BY <1>1, <1>11, <3>1, <3>3, <3>6 DEF TimerEarly
  <2> QED
    BY <2>3, <2>4
<1>12. TimerEarly'
  BY <1>3, <1>11 DEF TimerEarly
<1> QED
  BY <1>7, <1>8, <1>10, <1>12 DEF TimeoutsInv

\* A scan handles more; the timer that caused it is armed for what is left.
LEMMA ScanStep ==
  ASSUME TimeoutsInv, HandleTimeouts \/ HandleTimerTrigger
  PROVE  TimeoutsInv'
<1>1. /\ TimeoutsTypeOK /\ Sorted /\ NoneTwice
      /\ flying \in Seq(FlyingTransfer) /\ timeout \in [FlyingTransfer -> 0 .. MaxTime]
  BY DEF TimeoutsInv, TimeoutsTypeOK
<1>2. /\ handled' = handled \cup Scanned /\ UNCHANGED <<now, timeout, flying, using_timer>>
      /\ (~using_timer /\ timer' = timer) \/ timer' = NextTimeout(flying, handled')
  BY DEF HandleTimeouts, HandleTimerTrigger
<1>3. Scanned \subseteq {t \in FlyingTransfer : Timed(t)}
  <2>1. ASSUME NEW t \in Scanned PROVE t \in FlyingTransfer /\ Timed(t)
    <3>1. PICK k \in DOMAIN flying : /\ t = flying[k]
                                     /\ \A j \in 1 .. k : Timed(flying[j])
      BY DEF Scanned
    <3>2. k \in 1 .. k /\ flying[k] \in FlyingTransfer
      BY <1>1
    <3> QED
      BY <3>1, <3>2
  <2> QED
    BY <2>1
<1>4. ASSUME NEW seen
      PROVE  /\ NextTimeout(flying, seen) \in 0 .. MaxTime
             /\ \A i \in DOMAIN flying :
                  Timed(flying[i]) /\ flying[i] \notin seen =>
                    /\ NextTimeout(flying, seen) # 0
                    /\ NextTimeout(flying, seen) <= timeout[flying[i]]
  BY <1>1, NextTimeoutFacts DEF Sorted
<1>5. TimeoutsTypeOK'
  <2>1. timer' \in 0 .. MaxTime
    BY <1>1, <1>2, <1>4 DEF TimeoutsTypeOK
  <2>2. handled' \subseteq {t \in FlyingTransfer : Timed(t)}
    BY <1>1, <1>2, <1>3 DEF TimeoutsTypeOK
  <2> QED
    BY <1>1, <1>2, <2>1, <2>2 DEF TimeoutsTypeOK, Timed
<1>6. Sorted' /\ NoneTwice'
  BY <1>1, <1>2 DEF Sorted, NoneTwice, Timed
<1>7. TimerEarly'
  <2>1. SUFFICES ASSUME using_timer, NEW u \in Pending'
                 PROVE  timer' # 0 /\ timer' <= timeout[u]
    BY <1>2 DEF TimerEarly
  <2>2. PICK i \in DOMAIN flying : flying[i] = u
    BY <1>2 DEF Pending, Flying, ToSet
  <2>3. Timed(u) /\ u \notin handled'
    BY <1>2 DEF Pending, Timed
  <2>4. timer' = NextTimeout(flying, handled')
    BY <1>2, <2>1
  <2>5. NextTimeout(flying, handled') # 0 /\ NextTimeout(flying, handled') <= timeout[flying[i]]
    BY <1>4, <2>2, <2>3
  <2> QED
    BY <2>2, <2>4, <2>5
<1> QED
  BY <1>5, <1>6, <1>7 DEF TimeoutsInv

LEMMA TickStep == ASSUME TimeoutsInv, Tick \/ UNCHANGED timeoutVars PROVE TimeoutsInv'
<1>1. /\ UNCHANGED <<timeout, flying, handled, using_timer, timer>>
      /\ now \in 0 .. MaxTime /\ MaxTime \in Nat
      /\ now' = now \/ (now < MaxTime /\ now' = now + 1)
  BY DurationsAssumption DEF Tick, timeoutVars, TimeoutsInv, TimeoutsTypeOK
<1>2. TimeoutsTypeOK'
  BY <1>1 DEF TimeoutsInv, TimeoutsTypeOK, Timed
<1>3. Sorted' /\ NoneTwice'
  BY <1>1 DEF TimeoutsInv, Sorted, NoneTwice, Timed
<1>4. TimerEarly'
  BY <1>1 DEF TimeoutsInv, TimerEarly, Pending, Flying, Timed
<1> QED
  BY <1>2, <1>3, <1>4 DEF TimeoutsInv

\* The list is sorted and the timer early, at every moment.
THEOREM TimeoutsInvariance == TimeoutsSpec => []TimeoutsInv
<1>1. TimeoutsInv /\ [TimeoutsNext]_timeoutVars => TimeoutsInv'
  BY AddStep, RemoveStep, ScanStep, TickStep DEF TimeoutsNext
<1> QED
  BY <1>1, TimeoutsInitInv, PTL DEF TimeoutsSpec

\* The event handler is woken in time for the next timeout: with a timer, which goes off
\* no later than any pending timeout, or is armed by the completion of the transfer whose
\* timeout was handled last; without one, because libusb_get_next_timeout returns the
\* earliest pending timeout, if there is any.
THEOREM TimeoutKnown == TimeoutsSpec => []NextTimeoutKnown
<1>1. TimeoutsInv => NextTimeoutKnown
  <2> SUFFICES ASSUME TimeoutsInv PROVE NextTimeoutKnown
    OBVIOUS
  <2>1. CASE using_timer
    BY <2>1 DEF TimeoutsInv, TimerEarly, NextTimeoutKnown
  <2>2. CASE ~using_timer
    <3>1. ASSUME NEW t \in Pending
          PROVE  NextTimeout(flying, handled) # 0 /\ NextTimeout(flying, handled) <= timeout[t]
      <4>1. PICK i \in DOMAIN flying : flying[i] = t
        BY DEF Pending, Flying, ToSet
      <4>2. Timed(flying[i]) /\ flying[i] \notin handled
        BY <4>1 DEF Pending
      <4>3. flying \in Seq(FlyingTransfer) /\ timeout \in [FlyingTransfer -> 0 .. MaxTime] /\ Sorted
        BY DEF TimeoutsInv, TimeoutsTypeOK
      <4>4. \A j \in DOMAIN flying :
              Timed(flying[j]) /\ flying[j] \notin handled =>
                /\ NextTimeout(flying, handled) # 0
                /\ NextTimeout(flying, handled) <= timeout[flying[j]]
        BY <4>3, NextTimeoutFacts DEF Sorted
      <4> QED
        BY <4>1, <4>2, <4>4
    <3> QED
      BY <2>2, <3>1 DEF NextTimeoutKnown
  <2> QED
    BY <2>1, <2>2
<1> QED
  BY <1>1, TimeoutsInvariance, PTL
=============================================================================
