# Forward server: TLA+ models, checks and proofs

This directory verifies the forward server of this repository,
`src/c/forward_server`.  The rest of the repository is a collection of unrelated
programs, exercises and vendored code; `PROJECT.json` lists it as not modelled.
Paths below are relative to `src/c/forward_server/src/fwd` unless they say more.

## 1. The system

A forward server pairs two clients that present the same *ticket* and relays
bytes between them.  It is one process, kept alive by a master process, with a
main thread and one worker thread ("child") per CPU core, started on demand.

| Part | Source | State | Operations |
|---|---|---|---|
| Main thread | `fwd_main.c`, `fwd_bind.c` | ticket table, queue `sess` of sessions put down (mutex `mtx`), event loop | accept a user, ticket in, ticket fired, choose a child, release control, drain the queue |
| Child threads | `fwd_child.c` | status, thread id, queues `wait` (mutex) and `sess`, two counters, event loop | start, stop, loop callback, attach, detach, shut down |
| Sessions | `fwd_session.c` | status, `user1`, `user2`, `base` (owning child), timer, one list link | change status, attach, shut down, time out |
| Users | `fwd_user.c` | status, session, peer, registered events, timer, buffer | one event handler and one timeout handler per status, attach, detach, destroy |
| Event loop | `fwd_event.c` | epoll instance, batch with cursor, queue of timers | run, add, del, timeout set and cancel |
| Connection manager link | `fwd_cm.c` | status, two buffers, timer | connect, register, heartbeat, retry, ticket messages |
| Buffers | `fwd_buffer.c`, `fwd_sock.c` | read and write positions | read, write, refresh, pack, unpack |
| Ticket table | `fwd_hash.c` | buckets of linked lists | insert, find, remove, walk |
| Intrusive list | `inc/dt_queue.h` | two pointers per element | insert, remove, walk |
| Master | `src/master/fwd_master.c` | process ids | spawn, wait, restart, stop |

How they interact.  The connection manager announces a ticket: a session,
INITED, with a timer in the main loop.  A client connects (ACCEPTED), sends the
ticket (AUTH), is attached to the session and waits (WATTING).  The second one
is made its peer; both lose their events and timers in the main loop, and the
session goes to the `wait` queue of the child with the fewest sessions, whose
thread is started if its status says STOPPED.  The child takes the session and
relays (EST).  When one side ends, what it has sent last is flushed to the peer
(CLEAN) and the session is shut down: users freed, child left, session put on
the main thread's queue, from where the ticket can be used again until the
INITED timer fires and the connection manager is told.

What is hard.  A child's status is read and written without a lock by both
sides.  Sessions and users have no lock at all: they belong to one thread at a
time, by a convention that the statuses are to guarantee.  A thread ends when
it has nothing to do, at the moment the main thread may be giving it work.  A
session has one list link and is on three queues in its life.  Timers of very
different durations share an unsorted queue.  Events are edge-triggered, so a
handler that leaves a socket out, or registers it as it was, stops a relay for
good.  Numbers of descriptors are reused while events still hold them.  The list
of `hazards` in `PROJECT.json` says where each of these bites.

## 2. Modules

| Module | Models | Variables and steps |
|---|---|---|
| `FwdChild` | threads of the children and the hand-over to them | one action per step between two accesses to shared memory, for the main thread (`mpc`) and each child's thread (`pc`) |
| `FwdSession` | users, sessions, the main loop, the relay at the level of statuses | one action per handler; `user_auth_and_bind_session` (`bind`) and `fwd_session_shutdown` (`shut`) are several, since two threads can be in them |
| `FwdTimeout` | the timers of one loop, with a clock | one action per operation and per phase of `fwd_event_run` |
| `FwdBuffer` | byte buffers: unread bytes, lost room before them, refresh, clear | operators |
| `FwdEvent` | the events of one loop: registered flags, epoll's ready list, the batch array with its cursor, `fwd_event_add` and `fwd_event_del` | operators on a record |
| `FwdPipe` | what a session promises to its two users: a pipe in each direction, and last words | the abstract specification of `FwdRelay` |
| `FwdRelay` | the relay of one session in the loop of its child; composes `FwdBuffer` and `FwdEvent` with the handlers of established and flushing users and their clients | `pc` cuts a handler into reading, writing, failing and flushing; clients act between any two of these |
| `FwdCm` | the connection to the connection manager, with the numbers of descriptors it shares with users; uses `FwdBuffer` | one action per handler and timeout, for each outcome of the system calls |
| `FwdQueue` | the lists of sessions with their pointers, as the main thread and the children use them | one action per operation on a list; each of the two removals that take no mutex is two; `queue` is what the lists are meant to hold |
| `FwdChildProofs`, `FwdSessionProofs`, `FwdTimeoutProofs`, `FwdRelayProofs`, `FwdCmProofs`, `FwdQueueProofs` | the theorems | |
| `MCFwdChild`, `MCFwdSession`, `MCFwdTimeout`, `MCFwdRelay`, `MCFwdCm`, `MCFwdQueue` | the instances for TLC, with symmetry sets where they are used | |

Definitions named `X_Something` and commented "Variant" are wrong versions of
the action `X`; the properties are shown to fail for them, so that a property
that holds says something about `X`.  No specification uses them.

### Abstractions

* A queue is the set of its elements in `FwdChild` and `FwdSession`, where no
  decision depends on the order, and a sequence in `FwdTimeout`, where one
  does.  That is sound for lists with one link per element if an element is on
  one list at a time (`QueuedOnce`, `PendingIsQueued`), and if removing one that
  is on none does nothing.  The latter is what `FwdQueue` looks at: it holds
  while `Reuse` and `Race` are FALSE, and not otherwise.
* `FwdChild`: sessions are tokens.  `evt.run` is set, cleared and read by the
  child's thread only, and is part of `pc`.  A `pthread_create` that fails
  leaves `tid` at the 0 that `fwd_child_stop` stored (POSIX leaves it
  undefined; glibc does not publish an id for a thread it did not create).
* `FwdSession`: bytes, and which of read and write a socket is registered for,
  are left out: a handler may find data or none, complete or not.  A child is
  always running, and any child may be chosen (`FwdChild` has both).  A ticket
  announced twice changes nothing and is left out.  ST_ERROR is not a value of
  `st`, because the handler that sets it goes on to free the user or session.
  A register message may be incomplete, invalid, without a body, or present a
  ticket.  Without a body it is no error for `user_event_auth`, and the user stays
  in AUTH with its event and the AUTH timer (`AuthNoBody`); a later event reads
  nothing, but looks at what came together with the first message.
  A freed user's slot is reused, as its memory is.  A pending timer may fire
  whenever its loop looks at timers.
* `FwdTimeout`: handlers take no time; the clock runs while the loop sleeps and
  never goes back.  Positions other than the tail are left out: every caller
  passes 0.
* `FwdRelay`: one session, from the moment its users are established.  A byte
  is its sender and its position, so that loss, duplication and order can be
  seen; the response to the register message is the byte 0.  `got` is what was
  handed to the kernel for a client, `unread` how much of it fills the send
  queue.  Freeing the session (`fwd_session_shutdown`) is one step, since the
  loop of the child is the only one that sees the pair (`FwdSession` has its
  steps).  The one timer of `TimesOut` stands for the three that can end the
  session; it may fire whenever the loop looks at timers.  A reset after the
  client's own close makes the next `send` raise SIGPIPE, a reset before it
  gives an error.
* `FwdBuffer`: the copy in `fwd_buffer_refresh` overlaps, which C leaves
  undefined; the model has the outcome of an ascending copy, which the build
  gives.
* `FwdCm`: a message is a unit, and room is counted in messages.  What arrives
  fits into `buf_in`.  `event.reg` and `event.flags` are kept apart from what
  epoll has, because they disagree once a number is reused.  The socket of a
  user may report anything.  A timer that is set may fire.
* `FwdQueue`: users are a number, and a shutdown is one step.  The sessions of a
  child are shut down one at a time.  A session that has been freed keeps its
  pointers until its slot is used by a new ticket.
* Where an assertion of the code fails, the models go on as the release build
  (`NDEBUG`) does.

### The assumption `Overlap`

`user_auth_and_bind_session` refuses a session in EST or with two users.  A
session in CLEAN whose users are being freed by a child passes this test half
way through `fwd_session_shutdown`.  With `Overlap = FALSE` no client presents
the ticket in that window, and everything else may happen; all invariants are
checked, and proved, under it.  With `Overlap = TRUE` the run `session_overlap` shows what
happens (finding 3).

### The assumption `RoomForAll`

A client may send bytes along with its register message (`Early`); they stay in
its buffer, behind the message (`Request`), and the response to its peer is
added.  `fwd_buffer_pack` refuses the response when no more room is left than it
asks for (12 bytes, of which the response takes 8), and `user_st_established`
ignores that.  `Init` has both outcomes: `Packs` says which, the response counting
as one byte, and the instance has an early byte with which it is refused.  If the
early bytes leave no room at all, the user is registered for reading all the
same, and its first read event ends the session: the assertion at
`fwd_user.c:300` does not hold, and `RegisteredRight` fails in the initial state.
`RoomForAll` excludes this and only this; the instance and the theorems are for
values that satisfy it.  That a buffer has room for a register message and a
response is assumed throughout (`SizeAssumption`).

### The assumptions `Reuse` and `Race`

`fwd_child_session_attach` removes the session from the list it is on and adds it
to a wait list.  Three cases: the session is new and its link points at itself;
it was put down and is still on the main thread's list; or it was put down and
taken off again.  In the third the link holds old pointers, and what they lead to
is rewired (finding 5); `Reuse = FALSE` excludes it.

In the second the main thread changes its list without the mutex `mtx`, under
which children add to it.  `fwd_session_uninit` does the same on every ticket
timeout: `fwd_session_shutdown` puts the session on the list under the mutex, and
`fwd_session.c:190` removes it again without.  Each of these removals is two steps
(`AttachBegins` and `SessionAttach`, `UninitBegins` and `UninitEnds`), one for each
assignment of `dt_queue_remove`, between which the children go on.  `Race = FALSE`
excludes one thing: that a child adds a session to the main thread's list
(`SessionDown`) between the two.  In the code nothing prevents it.  With
`Race = TRUE` in `FwdQueue.cfg`, TLC finds `ListsRight` violated: after the first
assignment the child adds its session behind the predecessor of the one that is
being removed, and the second makes the predecessor point past it.  The session is
then never taken back, or, when the list was empty otherwise, `main_event_cb` takes
the head of the list for a session.  Nothing in the
repository says which thread may touch that list, so the two places are listed as
hazards, which no property covers.

## 3. Runs

| Run | Bounds | Checks |
|---|---|---|
| `child` | 2 children, 3 sessions, 1 failing create, fair threads | `TypeOK`, `CountersMatch`, `NoSessionStranded`, `IInv`, `WaitHandledIfCreated`, `JoinReturns` |
| `child_create_fails` | 2 children, 2 sessions, 1 failing create | violates `WaitHandled` |
| `session` | 4 users, 2 tickets, 2 children | `TypeOK`, `LinkedBack`, `PeersAgree`, `ServedComplete`, `OwnLoop`, `QueuedOnce`, `TimersFit`, `IInv` |
| `session_live` | 3 users, 1 ticket, 1 child, fair loops | `UserResolved`, `CleanEnds` |
| `session_peer` | 2 users, 1 ticket, 1 child | violates `PeerIsWaiting` |
| `session_overlap` | 3 users, 1 ticket, 1 child, `Overlap` | violates `LinkedBack` |
| `timeout` | 3 timers, durations 1, 3, 4, tick 2, clock to 7 | `PendingIsQueued`, `BoundedLateness`, `IInv` |
| `timeout_late` | 2 timers, durations 1, 3 | violates `OnTime` |
| `relay` | 2 users, 2 bytes each, 0 or 1 of them early, buffers of 3, send queues of 1, one client that may reset, fair loop, clients that read | `TypeOK`, `RegisteredRight`, `NoLostEdge`, `NoStaleEntry`, `IInv`, `IsPipe`, `Drains`, `EndIsSeen` |
| `cm` | 2 descriptor numbers, `buf_out` of 2 messages, send queue of 1, 1 ticket in flight, fair loop, a manager that reads | `TypeOK`, `Watched`, `RegFirst`, `RetryPending`, `OwnSocket`, `IInv`, `TicketsTaken` |
| `queue` | 3 sessions, 1 child, fair loops | `TypeOK`, `ListsRight`, `OnOneList`, `FiredIsFree`, `IInv`, `TakenBack` |
| `queue_reuse` | the same, `Reuse` | violates `FiredIsFree` |

Why the bounds are enough.  Two children make the choice between them
meaningful; three sessions let one be served, one wait and one be handed over
or back at the same time.  Four users are two pairs on two tickets, or a pair,
a user that waits for the same ticket and one that is refused; three users and
one ticket suffice for a ticket that is used again after its first pair.  The
clock runs longer than the longest duration, the durations lie on both sides of
the tick, and three timers allow one between two others in the queue.  In
`FwdRelay` a buffer of three holds the register message, the response and one
byte more, so that it fills up, is refreshed with bytes in it, and empties; a
send queue of one makes most sends partial; two bytes in each direction keep
both buffers full at the same time, and two users give batches of two.  An early
byte leaves too little room for the response.  One
client that resets suffices, since the users are alike.  In `FwdCm` two numbers
are the connection's and a user's, which swap when the connection is made again;
two messages and room for one make a send partial and a pack fail.  In
`FwdQueue` one child has a wait list and a served list besides the main thread's,
and three sessions make a list with an element between two others.  Users in
`FwdSession` and timers in `FwdTimeout` are interchangeable, so the runs that
check only invariants use symmetry.

Fairness.  In `FwdChild` each thread is weakly fair: the scheduler runs a thread
that can run.  Nothing makes a session end, so `JoinReturns` has that as an
explicit premise (`SessionsEnd`).  In `FwdSession` the main loop and a shutdown
that has begun go on (weak fairness); a child looks at its wait queue in each
round, and a pending timer is looked at again and again until it fires, although
other handlers come between: strong fairness of `TakeSession` and of a user's
timeout.  `FwdTimeout`'s `BoundedLateness` is the reason why a timer that stays
pending fires.  Nothing is assumed of clients or of the network in these three.
In `FwdRelay` the loop goes on, and a client reads what is sent to it: this is
a premise of `Drains` and `EndIsSeen`, not something the code can see to (a
client that does not read is ended by the timers, which need not fire in the
model).  In `FwdCm` the loop goes on, the manager reads, and epoll reports the
connection again and again when nothing is left to send (strong fairness):
heartbeats and fired tickets, seconds apart, do not come in every round.  In
`FwdQueue` the main thread goes on, a batch of events is finite (strong fairness
of leaving it), and a child takes what waits, which `FwdChild` shows.

No run turns deadlock checking off: main loops never stop.

## 4. What the runs show

* The exit protocol of a child is right.  The decision to end and the attach
  exclude each other by the mutex, so either the thread sees the session or the
  main thread sees STOPPED.  A status that is written late (`fwd_child_stop`
  writes STOPPED on what it read before; a new thread writes RUN only when it
  runs) can stop a thread with work, or keep one running that main is joining,
  but never leaves sessions without a thread, now or soon.
* Users, sessions and peers point at each other consistently on every path
  that ends a connection, every handler runs in the thread that owns the
  session, and a session is on one queue at a time, in particular when its
  ticket is used again before the main thread has taken the session back.
* Every connection is resolved, also when `fwd_sock_read` has closed the socket
  and only the timer is left.

* The relay is a pipe in each direction.  Although each user's events are set
  and cancelled by the handlers of both, each is registered for exactly what it
  can do whenever the loop goes on, no edge is lost and no entry of a batch is
  stale, also when a handler frees both users.  Because `fwd_event_add` does
  nothing for the same flags, this depends on comparing them for equality.
* The last words of a user are delivered when its end comes together with bytes,
  when its buffer is full, and when the peer is slow; what its peer had sent is
  dropped, as the comment above `user_event_est` says.
* The connection manager's connection is made again after every way of losing
  it.  It is watched for the right events, and the register message comes first
  on it, unless a ticket times out at a bad moment: while disconnected (both
  fail) or while connecting (the order fails).  `fired` records these moments,
  and `Watched` and `RegFirst` have them as a premise.  In the first case
  `cm_send_req` registers the event under a number that is closed or belongs to
  a user; `fwd_cm_setevent` then finds `reg` set, and the new socket is not
  in the epoll instance.  Nothing in the repository says otherwise, so this is
  listed as a hazard and not as a finding.
* A ticket that arrives together with room for writing is taken, although
  `cm_st_est` drops EPOLLIN then: the change of the flags arms the socket anew.
* The lists of sessions are right for the first use of a ticket, also when it is
  used again so early that the session is still on the main thread's list, as
  long as no child puts a session down in the middle of an unlocked removal.

Findings, each a run of its own:

1. `child_create_fails`: if `pthread_create` fails, the error is dropped and the
   pair is left without events, timers or thread until another session is given
   to the same child.
2. `session_peer`: a waiting user that times out is in CLEAN but keeps its place
   in the session, and a second user is paired with it; the assertion at
   `fwd_user.c:211` does not hold.  In the release build the pair is then
   established as if nothing had happened.
3. `session_overlap`: see `Overlap` above; the assertion at `fwd_user.c:818`
   does not hold.
4. `timeout_late`: a 15-second timer behind a 2-minute one in the queue fires
   with the latter.  `BoundedLateness` says how bad it gets: never later than
   the longest duration in use after it was set.
5. `queue_reuse`: the second use of a ticket, after its session was taken back,
   removes the session from a list that it is not on.  In the release build the
   main thread's list and those of a child are joined, and the main thread sets
   the ticket timer of a session that the child serves; the assertion at
   `fwd_session.c:54` does not hold.  With DEBUG the pointers are NULL, and the
   removal dereferences them.

## 5. What is proved

TLAPS proves, for every value of the constants that satisfies the assumptions:

* `FwdChildProofs` (assuming at least one child, a finite set of sessions and a
  `NoSess` outside it, and a number of failing creates): `TypeCorrect`,
  `CountersCorrect`, `NeverStranded`, all from `Invariance`.
  The invariant `IInv` is the conjunction of these with `ThreadInv` (the mutex
  is held exactly in the critical section; a thread that is not in its loop has
  the status STOPPED; a thread that has decided to end has empty queues) and
  `HandoverInv` (a session is on one queue of a child at most and on none while
  it is handed over; main creates a thread where there is none).
  `NoSessionStranded` alone is not inductive: without the mutex clause an attach
  could come between the decision and the status, and without the status clause
  main could see RUN of a thread that has left.
* `FwdTimeoutProofs` (assuming durations between 1 and `MaxDuration` and a
  positive tick): `PendingCorrect` and `LatenessBounded`, from `Invariance`.
  `IInv` adds that the queue is in the order of setting (`SetOrder`), that
  deadlines are at most `MaxDuration` after it (`SetBounds`), and that the loop
  never sleeps past the first deadline (`LoopClock`).  So the first timer of the
  queue is the oldest, the clock does not pass its deadline while it is there,
  and every other one was set later.

* `FwdRelayProofs` (assuming two different users, buffers with room for a
  register message and a response, send queues with room, and `RoomForAll`): `TypeCorrect`, `RegisteredAlways`,
  `NeverStale`, `EdgesKept`, all from `Inductive`, and the refinement
  `RelayIsPipe`.
  `RegisteredRight` alone is not inductive: it speaks of the states between two
  handlers, while what a handler relies on is that the event it was called for
  can still be done, although a handler earlier in the batch has changed the
  buffers.  `Entries` says so for every entry that is left; it needs `Distinct`
  (no socket twice in a batch), `Registration` (the flags during a handler, while
  flushing and after the end), `Control` (where the loop is) and `NoStaleEntry`.
  `Ended` is what the refinement needs besides: a handler that fails has met an
  end, and everything before it is read.  These parts are `Base`, which is
  inductive by itself.  `NoLostEdge` needs `Told` on top of it: the entry of a
  handler that has read and is about to write still has EPOLLIN in it, but no
  longer stands for it, so `NoLostEdge` would not survive the end of the
  handler.  `Told` counts only what the handler has before it (`ToHandle`).  That
  the entries of a batch cover the ready list is a fact about finite sets: an
  injection between sets of one size is onto.  In the refinement a step that moves
  bytes from a socket to a buffer is a stutter, a send is `Deliver`, and the two
  outcomes of a failing handler are `LastWords` and `Finish`.

* `FwdSessionProofs` (assuming a null pointer that is no user, ticket or thread, a
  main thread that is no child, and `Overlap = FALSE`; any sets of users, tickets
  and children, infinite ones too): `TypeCorrect`, `LinksBack`, `PeersMutual`,
  `ServedInPairs`, `OneLoop`, `OneQueue` and `TimersRight`, all from `Invariance`.
  What is missing in the properties themselves is who may touch a session while
  an operation of several steps is under way.  `BindInv` says that main binds a
  user to a session that no thread shuts down, with a user that has no event left
  in the batch; `ShutInv` that a session is shut down by its owner only, and which
  of its fields are already cleared at each step; `QueueInv` that it has an owner
  exactly while it is on one of a child's lists; `LinkInv` that a user in AUTH has
  a session only from its binding until a child has taken the pair.  `WaitInv` and `DownInv` are
  about the times at which nobody owns it: a session on the wait queue has neither
  events nor timers left in the main loop, and one that was put down and got new
  users before it was taken back got them in the batch that is being handled, so
  that no handler of theirs runs before the drain.  `DownInv` is the reason why a
  ticket can be used again early; it rests on the drain coming before the timeouts
  and events of the next round.  `QueuedOnce` follows from `QueueInv`, `ShutInv` and
  `DownInv`.
* `FwdCmProofs` (assuming a set of descriptor numbers that is not empty and
  positive sizes): `TypeCorrect`, `AlwaysWatched`, `RegistersFirst`,
  `AlwaysRetried`, `SocketIsOwn`, all from `Invariance`.  `EventInv` says what the
  event of the connection, the flags it remembers and epoll have to do with each
  other, also in the middle of a batch, where `Watched` says nothing; `OutInv`
  that the register message is at the front of `buf_out` until it is sent, and
  that an empty buffer has its whole room, so that something is to be sent
  whenever something was packed.  No assumption replaces the moments recorded in
  `fired`: they are in the statements.
* `FwdQueueProofs` (assuming a null pointer that is no child, heads that are no
  sessions, and `Reuse` and `Race` FALSE, the latter for both removals without
  mutex; any sessions and children):
  `TypeCorrect`, `ListsCorrect`, `OneList` and `FiredFree`, all from `Invariance`.
  `ListsRight` is silent in the middle of a removal, where one assignment of
  `dt_queue_remove` is done and a child may change its own lists meanwhile;
  `ChainInv` says what the pointers are then too, and `UninitInv` that the session
  whose timer fired is on the main thread's list, and on no other, until it is
  freed.  Whether an operation keeps a
  list right depends on what is on it: an insertion needs a session that is on no
  list, a removal one that is on a list or points at itself.  `DownInv` and
  `ChildInv` say where a session is from its status, users and child; `FreeInv`
  that one which is on no list, and was never taken off one, points at itself.
  These are what the callers of `dt_queue.h` go by, for no caller looks at the
  link.  The proof has three layers: the macros on one list (`RemoveBegins`,
  `RemoveEnds`, `InsertProps`), on all lists (`DropLists`, `AddLists`,
  `BeginLists`, `EndLists`, `MoveLists`), and the actions.

Each proof has `Init => IInv`, then one step (or lemma) per action, with one
sub-step per conjunct.  `IInv` is an invariant of the passing runs
`child`, `session`, `timeout`, `relay`, `cm` and `queue`.

Every invariant of a passing run is proved.  Only model-checked: the liveness
properties, since the prover has neither fairness nor ENABLED.

## 6. Not modelled, and the plan

In this order:

1. The framing of messages (`fwd_buffer_unpack`) when they arrive in pieces.
2. The end of the process: signal, `longjmp`, `fwd_main_uninit`, `fwd_cm_stop`.
3. `FwdHash` and `FwdMaster`.

The other programs of the repository (audit engine, EMS, connection manager
server, sniffer, disk cache and the exercises) share no state with the forward
server, and most of its lines are vendored libraries (libpcap, libfuse, json-c,
lzo).  They would be projects of their own.

Out of reach or without interest: log output, statistics, argument parsing, the
JSON library, the tracing allocator, memory exhaustion.
