-------------------------- MODULE FwdTimeoutProofs --------------------------
(***************************************************************************)
(* Proofs about FwdTimeout, for any timers, durations and tick: `pending'  *)
(* and the queue agree, and no timer is pending for longer than the        *)
(* longest duration although the queue is not sorted.                      *)
(***************************************************************************)
EXTENDS FwdTimeout, TLAPS

\* s holds the timer u.
Holds(s, u) == \E j \in 1 .. Len(s) : s[j] = u

\* No timer is twice in s.
Distinct(s) == \A j, l \in 1 .. Len(s) : s[j] = s[l] => j = l

\* The timers of c are in s in the same order.
InOrderOf(c, s) ==
  \A j, l \in 1 .. Len(c) : j <= l =>
    \E m, n \in 1 .. Len(s) : m <= n /\ c[j] = s[m] /\ c[l] = s[n]

\* dt_queue_remove of the k-th element: the others keep their order.
LEMMA RemoveAtProps ==
  ASSUME NEW q \in Seq(Timer), NEW k \in 1 .. Len(q)
  PROVE  /\ RemoveAt(q, k) \in Seq(Timer)
         /\ Len(RemoveAt(q, k)) = Len(q) - 1
         /\ \A j \in 1 .. Len(q) - 1 :
              RemoveAt(q, k)[j] = IF j < k THEN q[j] ELSE q[j + 1]
<1>1. Len(q) - 1 \in Nat
  OBVIOUS
<1>2. \A j \in 1 .. Len(q) - 1 : (IF j < k THEN q[j] ELSE q[j + 1]) \in Timer
  OBVIOUS
<1>3. RemoveAt(q, k) \in [1 .. Len(q) - 1 -> Timer]
  BY <1>2 DEF RemoveAt
<1>4. RemoveAt(q, k) \in Seq(Timer)
  BY <1>1, <1>3
<1>5. Len(RemoveAt(q, k)) = Len(q) - 1
  BY <1>1, <1>3, <1>4
<1>6. QED
  BY <1>4, <1>5 DEF RemoveAt

\* The k-th element of a sequence without repetitions is gone after RemoveAt,
\* every other one is still there, and the order of the others is kept.
LEMMA RemovedProps ==
  ASSUME NEW q \in Seq(Timer), NEW k \in 1 .. Len(q), Distinct(q),
         NEW c \in Seq(Timer), c = RemoveAt(q, k)
  PROVE  /\ ~Holds(c, q[k])
         /\ \A u \in Timer \ {q[k]} : Holds(q, u) <=> Holds(c, u)
         /\ Distinct(c)
         /\ InOrderOf(c, q)
<1>1. Len(q) \in Nat /\ Len(c) = Len(q) - 1
  BY RemoveAtProps
<1>2. \A j \in 1 .. Len(c) : c[j] = IF j < k THEN q[j] ELSE q[j + 1]
  BY <1>1, RemoveAtProps
<1> DEFINE At == [j \in 1 .. Len(c) |-> IF j < k THEN j ELSE j + 1]
<1>3. \A j \in 1 .. Len(c) :
        At[j] \in 1 .. Len(q) /\ At[j] # k /\ c[j] = q[At[j]]
  BY <1>1, <1>2
<1>4. \A j, l \in 1 .. Len(c) : j <= l => At[j] <= At[l]
  BY <1>1
<1>5. \A j, l \in 1 .. Len(c) : At[j] = At[l] => j = l
  BY <1>1
<1>6. \A m \in 1 .. Len(q) : m # k => \E j \in 1 .. Len(c) : At[j] = m
  <2> SUFFICES ASSUME NEW m \in 1 .. Len(q), m # k
               PROVE  \E j \in 1 .. Len(c) : At[j] = m
    OBVIOUS
  <2>1. CASE m < k
    <3>1. m \in 1 .. Len(c) /\ At[m] = m
      BY <1>1, <2>1
    <3>2. QED
      BY <3>1
  <2>2. CASE m > k
    <3>1. m - 1 \in 1 .. Len(c) /\ At[m - 1] = m
      BY <1>1, <2>2
    <3>2. QED
      BY <3>1
  <2>3. QED
    BY <2>1, <2>2, <1>1
<1> HIDE DEF At
<1>7. \A u \in Timer \ {q[k]} : Holds(q, u) <=> Holds(c, u)
  <2> SUFFICES ASSUME NEW u \in Timer \ {q[k]}
               PROVE  Holds(q, u) <=> Holds(c, u)
    OBVIOUS
  <2>1. ASSUME NEW m \in 1 .. Len(q), q[m] = u
        PROVE  Holds(c, u)
    <3>1. PICK j \in 1 .. Len(c) : At[j] = m
      BY <1>6, <2>1
    <3>2. QED
      BY <1>3, <3>1, <2>1 DEF Holds
  <2>2. ASSUME NEW j \in 1 .. Len(c), c[j] = u
        PROVE  Holds(q, u)
    BY <1>3, <2>2 DEF Holds
  <2>3. QED
    BY <2>1, <2>2 DEF Holds
<1>8. ~Holds(c, q[k])
  BY <1>3 DEF Holds, Distinct
<1>9. Distinct(c)
  <2> SUFFICES ASSUME NEW j \in 1 .. Len(c), NEW l \in 1 .. Len(c), c[j] = c[l]
               PROVE  j = l
    BY DEF Distinct
  <2>1. At[j] \in 1 .. Len(q) /\ At[l] \in 1 .. Len(q) /\ q[At[j]] = q[At[l]]
    BY <1>3
  <2>2. At[j] = At[l]
    BY <2>1 DEF Distinct
  <2>3. QED
    BY <2>2, <1>5
<1>10. InOrderOf(c, q)
  BY <1>3, <1>4 DEF InOrderOf
<1>11. QED
  BY <1>7, <1>8, <1>9, <1>10

\* PendingIsQueued in these terms.
LEMMA PendingHolds ==
  PendingIsQueued <=> /\ \A u \in Timer : pending[u] <=> Holds(queue, u)
                      /\ Distinct(queue)
BY DEF PendingIsQueued, Holds, Distinct

\* What the queue holds after fwd_timeout_cancel of t.
LEMMA CancelledProps ==
  ASSUME TypeOK, PendingIsQueued, NEW t \in Timer
  PROVE  /\ Cancelled(t) \in Seq(Timer)
         /\ ~Holds(Cancelled(t), t)
         /\ \A u \in Timer \ {t} : pending[u] <=> Holds(Cancelled(t), u)
         /\ Distinct(Cancelled(t))
         /\ InOrderOf(Cancelled(t), queue)
<1>1. CASE ~pending[t]
  <2>1. Cancelled(t) = queue
    BY <1>1 DEF Cancelled
  <2>2. InOrderOf(queue, queue)
    BY DEF InOrderOf
  <2>3. QED
    BY <1>1, <2>1, <2>2, PendingHolds DEF TypeOK
<1>2. CASE pending[t]
  <2>1. PICK k \in 1 .. Len(queue) :
          k = CHOOSE i \in 1 .. Len(queue) : queue[i] = t
    BY <1>2 DEF PendingIsQueued
  <2>2. queue[k] = t
    BY <1>2, <2>1 DEF PendingIsQueued
  <2>3. Cancelled(t) = RemoveAt(queue, k)
    BY <1>2, <2>1 DEF Cancelled
  <2>4. queue \in Seq(Timer) /\ RemoveAt(queue, k) \in Seq(Timer)
    BY RemoveAtProps DEF TypeOK
  <2>5. Distinct(queue) /\ \A u \in Timer : pending[u] <=> Holds(queue, u)
    BY PendingHolds
  <2>6. /\ ~Holds(Cancelled(t), queue[k])
        /\ \A u \in Timer \ {queue[k]} :
             Holds(queue, u) <=> Holds(Cancelled(t), u)
        /\ Distinct(Cancelled(t))
        /\ InOrderOf(Cancelled(t), queue)
    BY <2>3, <2>4, <2>5, RemovedProps
  <2>7. QED
    BY <2>2, <2>3, <2>4, <2>5, <2>6
<1>3. QED
  BY <1>1, <1>2 DEF TypeOK

\* A timer on the queue is pending, and was set in the past.
LEMMA QueuedIsPending ==
  ASSUME IInv, NEW k \in 1 .. Len(queue)
  PROVE  queue[k] \in Timer /\ pending[queue[k]] /\ setAt[queue[k]] <= now
BY DEF IInv, TypeOK, PendingIsQueued, SetBounds

\* The first timer of the queue was set before every other pending timer.
LEMMA HeadIsOldest ==
  ASSUME IInv, NEW t \in Timer, pending[t]
  PROVE  /\ queue # <<>> /\ Head(queue) \in Timer /\ pending[Head(queue)]
         /\ setAt[Head(queue)] <= setAt[t]
<1>1. PICK k \in 1 .. Len(queue) : queue[k] = t
  BY DEF IInv, PendingIsQueued
<1>2. queue \in Seq(Timer) /\ 1 \in 1 .. Len(queue) /\ Head(queue) = queue[1]
  BY <1>1 DEF IInv, TypeOK
<1>3. setAt[queue[1]] <= setAt[queue[k]]
  BY <1>1, <1>2 DEF IInv, SetOrder
<1>4. QED
  BY <1>1, <1>2, <1>3, QueuedIsPending

\* No timer is set when the loop starts.
LEMMA InitIInv == Init => IInv
BY DurationAssumption, TickAssumption
   DEF Init, IInv, TypeOK, PendingIsQueued, SetOrder, SetBounds, LoopClock,
       BoundedLateness

\* fwd_timeout_set keeps the invariant: the timer leaves its old place and goes
\* to the tail, as the one set last.
LEMMA SetIInv ==
  ASSUME IInv, NEW t \in Timer, NEW d \in Duration, Set(t, d)
  PROVE  IInv'
<1>1. PICK c \in Seq(Timer) : c = Cancelled(t)
  BY CancelledProps DEF IInv
<1>2. /\ ~Holds(c, t)
      /\ \A u \in Timer \ {t} : pending[u] <=> Holds(c, u)
      /\ Distinct(c) /\ InOrderOf(c, queue)
  BY <1>1, CancelledProps DEF IInv
<1>3. /\ queue' \in Seq(Timer) /\ Len(queue') = Len(c) + 1
      /\ \A j \in 1 .. Len(c) : queue'[j] = c[j]
      /\ queue'[Len(c) + 1] = t
  BY <1>1 DEF Set
<1>4. d \in Nat /\ d <= MaxDuration /\ MaxDuration \in Nat
  BY DurationAssumption
<1>5. TypeOK'
  BY <1>3, <1>4 DEF IInv, TypeOK, Set
<1>6. PendingIsQueued'
  <2>1. \A u \in Timer : pending'[u] <=> Holds(queue', u)
    <3> SUFFICES ASSUME NEW u \in Timer
                 PROVE  pending'[u] <=> Holds(queue', u)
      OBVIOUS
    <3>1. CASE u = t
      <4>1. pending'[u]
        BY <3>1 DEF Set, IInv, TypeOK
      <4>2. Len(queue') \in 1 .. Len(queue') /\ queue'[Len(queue')] = u
        BY <3>1, <1>3
      <4>3. QED
        BY <4>1, <4>2 DEF Holds
    <3>2. CASE u # t
      <4>1. pending'[u] <=> pending[u]
        BY <3>2 DEF Set, IInv, TypeOK
      <4>2. Holds(c, u) <=> Holds(queue', u)
        BY <3>2, <1>3 DEF Holds
      <4>3. QED
        BY <3>2, <4>1, <4>2, <1>2
    <3>3. QED
      BY <3>1, <3>2
  <2>2. Distinct(queue')
    <3>1. \A j \in 1 .. Len(c) : queue'[j] # t
      BY <1>2, <1>3 DEF Holds
    <3>2. QED
      BY <3>1, <1>2, <1>3 DEF Distinct
  <2>3. QED
    BY <2>1, <2>2 DEF PendingIsQueued, Holds, Distinct
<1>7. SetOrder'
  <2>1. setAt'[t] = now /\ \A u \in Timer \ {t} : setAt'[u] = setAt[u]
    BY DEF Set, IInv, TypeOK
  <2>2. \A j \in 1 .. Len(c) : c[j] \in Timer \ {t} /\ setAt[c[j]] <= now
    <3> SUFFICES ASSUME NEW j \in 1 .. Len(c)
                 PROVE  c[j] \in Timer \ {t} /\ setAt[c[j]] <= now
      OBVIOUS
    <3>1. c[j] \in Timer /\ c[j] # t
      BY <1>2 DEF Holds
    <3>2. pending[c[j]]
      BY <3>1, <1>2 DEF Holds
    <3>3. QED
      BY <3>1, <3>2 DEF IInv, SetBounds
  <2>3. \A j, l \in 1 .. Len(c) : j <= l => setAt[c[j]] <= setAt[c[l]]
    BY <1>2 DEF IInv, SetOrder, InOrderOf
  <2>4. now <= now
    BY DEF IInv, TypeOK
  <2>5. QED
    BY <2>1, <2>2, <2>3, <2>4, <1>3 DEF SetOrder
<1>8. SetBounds' /\ BoundedLateness'
  BY <1>4 DEF Set, IInv, TypeOK, SetBounds, BoundedLateness
<1>9. LoopClock'
  BY DEF Set, IInv, LoopClock
<1>10. QED
  BY <1>5, <1>6, <1>7, <1>8, <1>9 DEF IInv

\* fwd_timeout_cancel keeps the invariant.
LEMMA CancelIInv ==
  ASSUME IInv, NEW t \in Timer, Cancel(t)
  PROVE  IInv'
<1>1. PICK c \in Seq(Timer) : c = Cancelled(t)
  BY CancelledProps DEF IInv
<1>2. /\ ~Holds(c, t)
      /\ \A u \in Timer \ {t} : pending[u] <=> Holds(c, u)
      /\ Distinct(c) /\ InOrderOf(c, queue)
  BY <1>1, CancelledProps DEF IInv
<1>3. queue' = c /\ ~pending'[t]
      /\ \A u \in Timer \ {t} : pending'[u] <=> pending[u]
  BY <1>1 DEF Cancel, IInv, TypeOK
<1>4. TypeOK'
  BY <1>3 DEF IInv, TypeOK, Cancel
<1>5. PendingIsQueued'
  BY <1>2, <1>3 DEF PendingIsQueued, Holds, Distinct
<1>6. SetOrder'
  <2>1. \A j, l \in 1 .. Len(c) : j <= l => setAt[c[j]] <= setAt[c[l]]
    BY <1>2 DEF IInv, SetOrder, InOrderOf
  <2>2. QED
    BY <1>3, <2>1 DEF SetOrder, Cancel
<1>7. SetBounds' /\ BoundedLateness'
  BY <1>3 DEF Cancel, IInv, TypeOK, SetBounds, BoundedLateness
<1>8. LoopClock'
  BY DEF Cancel, IInv, LoopClock
<1>9. QED
  BY <1>4, <1>5, <1>6, <1>7, <1>8 DEF IInv

\* The cancellation of the first timer in fwd_event_handle_timeouts keeps the
\* invariant.
LEMMA ExpireIInv ==
  ASSUME IInv, NEW t \in Timer, Expire(t)
  PROVE  IInv'
<1>1. queue \in Seq(Timer) /\ queue # <<>> /\ queue[1] = t
  BY DEF Expire, IInv, TypeOK
<1>2. /\ queue' \in Seq(Timer) /\ Len(queue) = Len(queue') + 1
      /\ Len(queue') \in Nat
      /\ \A j \in 1 .. Len(queue') : queue'[j] = queue[j + 1]
  BY <1>1 DEF Expire
<1>3. ~pending'[t] /\ \A u \in Timer \ {t} : pending'[u] <=> pending[u]
  BY DEF Expire, IInv, TypeOK
<1>4. TypeOK'
  BY <1>2 DEF IInv, TypeOK, Expire
<1>5. PendingIsQueued'
  <2>1. \A j, k \in 1 .. Len(queue) : queue[j] = queue[k] => j = k
    BY DEF IInv, PendingIsQueued
  <2>2. \A j, k \in 1 .. Len(queue') : queue'[j] = queue'[k] => j = k
    BY <1>2, <2>1
  <2>3. \A u \in Timer : pending'[u]
                           <=> \E j \in 1 .. Len(queue') : queue'[j] = u
    <3> SUFFICES ASSUME NEW u \in Timer
                 PROVE  pending'[u]
                          <=> \E j \in 1 .. Len(queue') : queue'[j] = u
      OBVIOUS
    <3>1. ASSUME u # t, pending[u]
          PROVE  \E j \in 1 .. Len(queue') : queue'[j] = u
      <4>1. PICK k \in 1 .. Len(queue) : queue[k] = u
        BY <3>1 DEF IInv, PendingIsQueued
      <4>2. k - 1 \in 1 .. Len(queue') /\ queue'[k - 1] = u
        BY <4>1, <3>1, <1>1, <1>2
      <4>3. QED
        BY <4>2
    <3>2. ASSUME NEW j \in 1 .. Len(queue'), queue'[j] = u
          PROVE  u # t /\ pending[u]
      <4>1. j + 1 \in 1 .. Len(queue) /\ j + 1 # 1 /\ queue[j + 1] = u
            /\ 1 \in 1 .. Len(queue)
        BY <3>2, <1>2
      <4>2. QED
        BY <4>1, <2>1, <1>1, QueuedIsPending
    <3>3. QED
      BY <3>1, <3>2, <1>3
  <2>4. QED
    BY <2>2, <2>3 DEF PendingIsQueued
<1>6. SetOrder'
  BY <1>2 DEF IInv, SetOrder, Expire
<1>7. SetBounds' /\ BoundedLateness'
  BY <1>3 DEF Expire, IInv, TypeOK, SetBounds, BoundedLateness
<1>8. LoopClock'
  BY DEF Expire, IInv, LoopClock
<1>9. QED
  BY <1>4, <1>5, <1>6, <1>7, <1>8 DEF IInv

\* While the loop sleeps no timer outlives its bound: the loop wakes for the
\* first timer of the queue, which is the oldest.
LEMMA TickIInv ==
  ASSUME IInv, Tick
  PROVE  IInv'
<1>1. BoundedLateness'
  <2> SUFFICES ASSUME NEW t \in Timer, pending[t]
               PROVE  now + 1 <= setAt[t] + MaxDuration
    BY DEF Tick, BoundedLateness
  <2>1. now + 1 <= wake /\ wake <= time[Head(queue)]
    BY HeadIsOldest DEF Tick, IInv, TypeOK, LoopClock
  <2>2. /\ Head(queue) \in Timer
        /\ time[Head(queue)] <= setAt[Head(queue)] + MaxDuration
        /\ setAt[Head(queue)] <= setAt[t]
    BY HeadIsOldest DEF IInv, SetBounds
  <2>3. /\ now \in Nat /\ wake \in Nat /\ time[Head(queue)] \in Nat
        /\ setAt[Head(queue)] \in Nat /\ setAt[t] \in Nat
        /\ MaxDuration \in Nat
    BY <2>2, DurationAssumption DEF IInv, TypeOK
  <2>4. QED
    BY <2>1, <2>2, <2>3
<1>2. TypeOK' /\ PendingIsQueued' /\ SetOrder'
  BY DEF Tick, IInv, TypeOK, PendingIsQueued, SetOrder
<1>3. SetBounds'
  BY DEF Tick, IInv, TypeOK, SetBounds
<1>4. LoopClock'
  BY DEF Tick, IInv, TypeOK, LoopClock
<1>5. QED
  BY <1>1, <1>2, <1>3, <1>4 DEF IInv

\* Every step of the loop keeps the invariant.
LEMMA NextIInv == IInv /\ [Next]_vars => IInv'
<1> SUFFICES ASSUME IInv, [Next]_vars
             PROVE  IInv'
  OBVIOUS
<1>1. ASSUME NEW t \in Timer, NEW d \in Duration, Set(t, d)
      PROVE  IInv'
  BY <1>1, SetIInv
<1>2. ASSUME NEW t \in Timer, Cancel(t)
      PROVE  IInv'
  BY <1>2, CancelIInv
<1>3. ASSUME NEW t \in Timer, Expire(t)
      PROVE  IInv'
  BY <1>3, ExpireIInv
<1>4. CASE StartTimeouts
  <2>1. UNCHANGED <<now, queue, pending, time, setAt>>
    BY <1>4 DEF StartTimeouts
  <2>2. TypeOK' /\ LoopClock'
    BY <1>4 DEF StartTimeouts, IInv, TypeOK, LoopClock
  <2>3. QED
    BY <2>1, <2>2
       DEF IInv, PendingIsQueued, SetOrder, SetBounds, BoundedLateness
<1>5. CASE TimeoutsDone
  <2>1. UNCHANGED <<now, queue, pending, time, setAt>>
    BY <1>5 DEF TimeoutsDone
  <2>2. queue # <<>> => time[Head(queue)] \in Nat
    BY DEF IInv, TypeOK
  <2>3. /\ NextTimeout \in Nat
        /\ queue # <<>> => now + NextTimeout <= time[Head(queue)]
    BY <1>5, <2>2, TickAssumption
       DEF TimeoutsDone, NextTimeout, IInv, TypeOK, LoopClock
  <2>4. TypeOK' /\ LoopClock'
    BY <1>5, <2>3 DEF TimeoutsDone, IInv, TypeOK, LoopClock
  <2>5. QED
    BY <2>1, <2>4
       DEF IInv, PendingIsQueued, SetOrder, SetBounds, BoundedLateness
<1>6. CASE Tick
  BY <1>6, TickIInv
<1>7. CASE EpollReturns
  BY <1>7 DEF EpollReturns, IInv, TypeOK, PendingIsQueued, SetOrder, SetBounds,
              LoopClock, BoundedLateness
<1>8. CASE UNCHANGED vars
  BY <1>8 DEF vars, IInv, TypeOK, PendingIsQueued, SetOrder, SetBounds,
              LoopClock, BoundedLateness
<1>9. QED
  BY <1>1, <1>2, <1>3, <1>4, <1>5, <1>6, <1>7, <1>8 DEF Next

\* The invariant of the timers of a loop.
THEOREM Invariance == Spec => []IInv
<1>1. Init => IInv
  BY InitIInv
<1>2. IInv /\ [Next]_vars => IInv'
  BY NextIInv
<1>3. QED
  BY <1>1, <1>2, PTL DEF Spec

\* `pending' tells exactly whether a timer is on the queue, where it is once:
\* fwd_timeout_cancel never removes from the queue what is not on it.
THEOREM PendingCorrect == Spec => []PendingIsQueued
<1>1. IInv => PendingIsQueued
  BY DEF IInv
<1>2. QED
  BY <1>1, Invariance, PTL

\* No timer is pending for longer than the longest duration in use, although
\* fwd_event_handle_timeouts looks only at the first timer of an unsorted queue.
THEOREM LatenessBounded == Spec => []BoundedLateness
<1>1. IInv => BoundedLateness
  BY DEF IInv
<1>2. QED
  BY <1>1, Invariance, PTL

=============================================================================
