----------------------------- MODULE FwdTimeout -----------------------------
(***************************************************************************)
(* The timers of an event loop: fwd_timeout_set, fwd_timeout_cancel, and   *)
(* the way fwd_event_run looks at them (fwd_event.c).                      *)
(*                                                                         *)
(* The pending timers are a queue.  Every caller asks for the position     *)
(* FWD_TIMEOUT_TAIL (0), whatever the duration, so the queue is in the     *)
(* order in which timers were set and not in the order in which they       *)
(* expire; but fwd_event_handle_timeouts stops at the first timer that has *)
(* not expired, and fwd_event_next_timeout looks at the first one only.    *)
(*                                                                         *)
(* The clock advances only while the loop is in epoll_wait: handlers take  *)
(* no time.  The unit of time is arbitrary, EventTick is EVENT_TICK in it. *)
(***************************************************************************)
EXTENDS Integers, Sequences

CONSTANTS Timer,      \* the fwd_timeout objects of the users and sessions
          Duration,   \* the FWD_TIMEOUT_... values
          MaxDuration,
          EventTick,  \* the longest time the loop stays in epoll_wait
          MaxTime     \* where the clock stops

ASSUME DurationAssumption ==
  /\ MaxDuration \in Nat
  /\ Duration \subseteq 1 .. MaxDuration
ASSUME TickAssumption == EventTick \in Nat \ {0} /\ MaxTime \in Nat

VARIABLES
  now,      \* the clock
  pc,       \* where the loop is: "run", "timeouts", "epoll"
  tv,       \* what gettimeofday returned in this round
  wake,     \* when epoll_wait returns at the latest
  queue,    \* fwd_event.timeout
  pending,  \* fwd_timeout.pending
  time,     \* fwd_timeout.time
  setAt     \* history: when the timer was set

vars == <<now, pc, tv, wake, queue, pending, time, setAt>>

TypeOK ==
  /\ now \in Nat /\ tv \in Nat /\ wake \in Nat
  /\ pc \in {"run", "timeouts", "epoll"}
  /\ queue \in Seq(Timer)
  /\ pending \in [Timer -> BOOLEAN]
  /\ time \in [Timer -> Nat]
  /\ setAt \in [Timer -> Nat]

Init ==
  /\ now = 0 /\ tv = 0 /\ wake = 0
  /\ pc = "run"
  /\ queue = <<>>
  /\ pending = [t \in Timer |-> FALSE]
  /\ time = [t \in Timer |-> 0]
  /\ setAt = [t \in Timer |-> 0]

\* dt_queue_remove of the k-th element.
RemoveAt(q, k) ==
  [j \in 1 .. Len(q) - 1 |-> IF j < k THEN q[j] ELSE q[j + 1]]

\* The queue after fwd_timeout_cancel of t.
Cancelled(t) ==
  IF pending[t]
  THEN RemoveAt(queue, CHOOSE k \in 1 .. Len(queue) : queue[k] = t)
  ELSE queue

\* Variant: a timer that is pending is not taken off the queue first.
Set_KeepsOld(t, d) ==
  /\ pc \in {"run", "timeouts"}
  /\ queue' = Append(queue, t)
  /\ pending' = [pending EXCEPT ![t] = TRUE]
  /\ time' = [time EXCEPT ![t] = now + d]
  /\ setAt' = [setAt EXCEPT ![t] = now]
  /\ UNCHANGED <<now, pc, tv, wake>>

\* Variant: the timer goes to the head of the queue.
Set_AtHead(t, d) ==
  /\ pc \in {"run", "timeouts"}
  /\ queue' = <<t>> \o Cancelled(t)
  /\ pending' = [pending EXCEPT ![t] = TRUE]
  /\ time' = [time EXCEPT ![t] = now + d]
  /\ setAt' = [setAt EXCEPT ![t] = now]
  /\ UNCHANGED <<now, pc, tv, wake>>

\* fwd_timeout_set with fwd_timeout_add, by a handler of an event, a handler of
\* a timeout or the extra callback of the loop.
Set(t, d) ==
  /\ pc \in {"run", "timeouts"}
  /\ queue' = Append(Cancelled(t), t)
  /\ pending' = [pending EXCEPT ![t] = TRUE]
  /\ time' = [time EXCEPT ![t] = now + d]
  /\ setAt' = [setAt EXCEPT ![t] = now]
  /\ UNCHANGED <<now, pc, tv, wake>>

\* fwd_timeout_cancel, by the same.
Cancel(t) ==
  /\ pc \in {"run", "timeouts"} /\ pending[t]
  /\ queue' = Cancelled(t)
  /\ pending' = [pending EXCEPT ![t] = FALSE]
  /\ UNCHANGED <<now, pc, tv, wake, time, setAt>>

\* gettimeofday in fwd_event_run.
StartTimeouts ==
  /\ pc = "run"
  /\ tv' = now
  /\ pc' = "timeouts"
  /\ UNCHANGED <<now, wake, queue, pending, time, setAt>>

\* fwd_event_handle_timeouts: the first timer has expired; it is cancelled and
\* its handler runs (what the handler does are Set and Cancel steps).
Expire(t) ==
  /\ pc = "timeouts" /\ queue # <<>> /\ t = Head(queue) /\ time[t] <= tv
  /\ queue' = Tail(queue)
  /\ pending' = [pending EXCEPT ![t] = FALSE]
  /\ UNCHANGED <<now, pc, tv, wake, time, setAt>>

\* fwd_event_next_timeout.
NextTimeout ==
  IF queue = <<>> \/ time[Head(queue)] - tv > EventTick
  THEN EventTick ELSE time[Head(queue)] - tv

\* No timer, or the first one has not expired: go to sleep in epoll_wait.
TimeoutsDone ==
  /\ pc = "timeouts"
  /\ queue # <<>> => time[Head(queue)] > tv
  /\ wake' = now + NextTimeout
  /\ pc' = "epoll"
  /\ UNCHANGED <<now, tv, queue, pending, time, setAt>>

Tick ==
  /\ pc = "epoll" /\ now < wake /\ now < MaxTime
  /\ now' = now + 1
  /\ UNCHANGED <<pc, tv, wake, queue, pending, time, setAt>>

\* epoll_wait returns, for an event or at its timeout; the handlers of the
\* events are Set and Cancel steps, and the next round begins.
EpollReturns ==
  /\ pc = "epoll"
  /\ pc' = "run"
  /\ UNCHANGED <<now, tv, wake, queue, pending, time, setAt>>

Next ==
  \/ \E t \in Timer : Cancel(t) \/ Expire(t) \/ \E d \in Duration : Set(t, d)
  \/ StartTimeouts \/ TimeoutsDone \/ Tick \/ EpollReturns

Spec == Init /\ [][Next]_vars

-----------------------------------------------------------------------------
(* Properties.                                                             *)

\* `pending' says exactly whether the timer is on the queue, and it is there
\* once: fwd_timeout_cancel relies on it, since dt_queue_remove of a timer that
\* is not on a queue would rewire another one (fwd_event.c:262, 316, 336).
PendingIsQueued ==
  /\ \A t \in Timer : pending[t] <=> \E k \in 1 .. Len(queue) : queue[k] = t
  /\ \A j, k \in 1 .. Len(queue) : queue[j] = queue[k] => j = k

\* Timers do not expire in order, but none waits longer than the longest
\* duration in use: a timer that is pending was set at most MaxDuration ago.
BoundedLateness ==
  \A t \in Timer : pending[t] => now <= setAt[t] + MaxDuration

\* When the loop goes to sleep, every timer that has expired has been handled:
\* a user waits for as long as it was told to, "15 secs" (fwd_main.h:139).
OnTime == \A t \in Timer : pc = "epoll" /\ pending[t] => time[t] > tv

-----------------------------------------------------------------------------
(* The inductive invariant behind PendingIsQueued and BoundedLateness.     *)

\* The queue is in the order in which the timers were set.
SetOrder ==
  \A j, k \in 1 .. Len(queue) : j <= k => setAt[queue[j]] <= setAt[queue[k]]

\* A pending timer was set in the past, for no more than MaxDuration.
SetBounds ==
  \A t \in Timer :
    pending[t] => setAt[t] <= now /\ time[t] <= setAt[t] + MaxDuration

\* The loop handles its timers at the time it has read, and never sleeps
\* beyond the first one.
LoopClock ==
  /\ pc = "timeouts" => tv = now
  /\ pc = "epoll" => /\ now <= wake
                     /\ queue # <<>> => wake <= time[Head(queue)]

\* The whole invariant: every step of Next preserves it.
IInv == /\ TypeOK /\ PendingIsQueued /\ SetOrder /\ SetBounds /\ LoopClock
        /\ BoundedLateness

=============================================================================
