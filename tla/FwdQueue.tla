------------------------------ MODULE FwdQueue ------------------------------
(***************************************************************************)
(* The lists of sessions at the level of their pointers: dt_queue.h, and   *)
(* what the main thread and the children do with it.                       *)
(*                                                                         *)
(* A list is circular and has a head of its own.  A session has one link   *)
(* (fwd_session.list), which is on the main thread's list of sessions that *)
(* were put down, on the wait list of a child or on its sess list, or on   *)
(* none.  dt_queue_remove leaves the pointers of what it removes as they   *)
(* are (as compiled with NDEBUG), and fwd_child_session_attach removes a   *)
(* session from whatever list it is on without knowing whether it is on    *)
(* one.                                                                    *)
(*                                                                         *)
(* FwdChild and FwdSession have sets for these lists; this module has only *)
(* as much of sessions as the lists depend on, and a shutdown is one step. *)
(* A macro is one step where the list belongs to one thread or its mutex   *)
(* is held.  Two removals are from the main thread's list without its      *)
(* mutex, while children put sessions at its end under that mutex: the one *)
(* in fwd_child_session_attach, of a ticket that was reused early, and the *)
(* one in fwd_session_uninit, of every ticket that times out.  The two     *)
(* assignments of these are two steps.                                     *)
(***************************************************************************)
EXTENDS Naturals, Sequences, FiniteSets

CONSTANTS Sess,   \* slots for sessions
          Child,  \* children
          None,   \* the null pointer
          Reuse,  \* may a ticket be presented by a pair once the main thread
                  \* has taken its session off the list again?
          Race    \* may a child put a session down between the two
                  \* assignments of a removal without the mutex?

\* The heads: fwd_main.sess, and fwd_child.wait and sess.
Down == <<"down", None>>
Wait(c) == <<"wait", c>>
Served(c) == <<"sess", c>>
List == {Down} \cup {Wait(c) : c \in Child} \cup {Served(c) : c \in Child}
Node == List \cup Sess

ASSUME NoneAssumption == None \notin Child /\ Sess \cap List = {}
ASSUME SwitchAssumption == Reuse \in BOOLEAN /\ Race \in BOOLEAN

VARIABLES
  link,   \* the pointers of every head and session
  st,     \* fwd_session.st; "NONE" where there is no session
  base,   \* fwd_session.base
  users,  \* how many users the session has
  tmr,    \* the timeout of the session is pending in the main loop
  phase,  \* where the main thread is in fwd_event_run; "attach" and "uninit"
          \* between the two assignments, "fired" before the latter
  cur,    \* the session, and the child of the attach, in these phases
  fresh,  \* the sessions whose user was bound in this batch of events, in
          \* which the user has no further event
  queue,  \* what each list is meant to hold (history)
  taken   \* the sessions main_event_cb took off and nobody has queued since
          \* (history)

vars == <<link, st, base, users, tmr, phase, cur, fresh, queue, taken>>

TypeOK ==
  /\ link \in [Node -> [prev : Node, next : Node]]
  /\ st \in [Sess -> {"NONE", "INITED", "WATTING", "EST", "CLEAN", "ERROR"}]
  /\ base \in [Sess -> Child \cup {None}]
  /\ users \in [Sess -> 0 .. 2]
  /\ tmr \subseteq Sess /\ fresh \subseteq Sess /\ taken \subseteq Sess
  /\ phase \in {"drain", "timeouts", "fired", "uninit", "events", "attach"}
  /\ cur \in (Sess \cup {None}) \X (Child \cup {None})
  /\ queue \in [List -> Seq(Sess)]

-----------------------------------------------------------------------------
(* dt_queue.h, on pointers l.                                              *)

QueueInit(l, x) == [l EXCEPT ![x] = [prev |-> x, next |-> x]]

\* dt_queue_empty only looks at prev.
QueueEmpty(l, h) == l[h].prev = h

\* Variants: one of the four pointers is forgotten.
InsertTail_KeepsPrev(l, h, x) ==
  LET l1 == [l EXCEPT ![x] = [prev |-> l[h].prev, next |-> h]]
  IN [l1 EXCEPT ![l[h].prev].next = x]
InsertTail_KeepsNext(l, h, x) ==
  LET l1 == [l EXCEPT ![x] = [prev |-> l[h].prev, next |-> h]]
  IN [l1 EXCEPT ![h].prev = x]

InsertTail(l, h, x) ==
  LET l1 == [l EXCEPT ![x].prev = l[h].prev]
      l2 == [l1 EXCEPT ![l1[x].prev].next = x]
      l3 == [l2 EXCEPT ![x].next = h]
  IN [l3 EXCEPT ![h].prev = x]

\* dt_queue_remove is these two assignments.
RemoveNext(l, x) == [l EXCEPT ![l[x].next].prev = l[x].prev]
RemovePrev(l, x) == [l EXCEPT ![l[x].prev].next = l[x].next]
Remove(l, x) == RemovePrev(RemoveNext(l, x), x)

\* A sequence without its k-th element.
RemovedAt(q, k) ==
  [i \in 1 .. Len(q) - 1 |-> IF i < k THEN q[i] ELSE q[i + 1]]

\* What the lists are meant to hold after s was removed, and when it is put
\* at the end of h besides.
Without(s) ==
  [h \in List |->
     IF \E k \in DOMAIN queue[h] : queue[h][k] = s
     THEN RemovedAt(queue[h], CHOOSE k \in DOMAIN queue[h] : queue[h][k] = s)
     ELSE queue[h]]
MovedTo(h, s) == [Without(s) EXCEPT ![h] = Append(@, s)]

-----------------------------------------------------------------------------

Init ==
  /\ link = [n \in Node |-> [prev |-> n, next |-> n]]
  /\ st = [s \in Sess |-> "NONE"] /\ base = [s \in Sess |-> None]
  /\ users = [s \in Sess |-> 0] /\ tmr = {}
  /\ phase = "drain" /\ cur = <<None, None>> /\ fresh = {}
  /\ queue = [h \in List |-> <<>>] /\ taken = {}

-----------------------------------------------------------------------------
(* The main thread.                                                        *)

\* main_event_cb: a session that was put down may be used again.
DrainTake ==
  LET s == link[Down].next IN
  /\ phase = "drain" /\ ~QueueEmpty(link, Down) /\ s \in Sess
  /\ link' = Remove(link, s)
  /\ st' = [st EXCEPT ![s] = "INITED"] /\ tmr' = tmr \cup {s}
  /\ queue' = Without(s) /\ taken' = taken \cup {s}
  /\ UNCHANGED <<base, users, phase, fresh, cur>>

DrainDone ==
  /\ phase = "drain" /\ QueueEmpty(link, Down)
  /\ phase' = "timeouts"
  /\ UNCHANGED <<link, st, base, users, tmr, fresh, queue, taken, cur>>

\* fwd_event_run goes on.
NextPhase ==
  \/ /\ phase = "timeouts" /\ phase' = "events"
     /\ UNCHANGED <<link, st, base, users, tmr, fresh, queue, taken, cur>>
  \/ /\ phase = "events" /\ phase' = "drain" /\ fresh' = {}
     /\ UNCHANGED <<link, st, base, users, tmr, queue, taken, cur>>

\* fwd_main_ticket_in.
TicketIn(s) ==
  /\ phase = "events" /\ st[s] = "NONE"
  /\ link' = QueueInit(link, s)
  /\ st' = [st EXCEPT ![s] = "INITED"] /\ tmr' = tmr \cup {s}
  /\ taken' = taken \ {s}
  /\ UNCHANGED <<base, users, phase, fresh, queue, cur>>

\* The ticket is refused.
InUse(s) == st[s] \in {"NONE", "EST"} \/ users[s] = 2

\* user_auth_and_bind_session: the first user.
Bind(s) ==
  /\ phase = "events" /\ ~InUse(s) /\ users[s] = 0
  /\ users' = [users EXCEPT ![s] = 1] /\ tmr' = tmr \ {s}
  /\ st' = [st EXCEPT ![s] = "WATTING"] /\ fresh' = fresh \cup {s}
  /\ UNCHANGED <<link, base, phase, queue, taken, cur>>

\* Variant: a session that is in use is not refused.
AttachBegins_NotRefused(s, c) ==
  /\ phase = "events" /\ st[s] # "NONE" /\ users[s] > 0
  /\ Reuse \/ s \notin taken
  /\ phase' = "attach" /\ cur' = <<s, c>>
  /\ users' = [users EXCEPT ![s] = @ + 1] /\ tmr' = tmr \ {s}
  /\ link' = RemoveNext(link, s)
  /\ UNCHANGED <<st, base, fresh, queue, taken>>

\* The second one: fwd_child_session_attach begins to remove the session from
\* the list it is on, if any.
AttachBegins(s, c) ==
  /\ phase = "events" /\ ~InUse(s) /\ users[s] = 1
  /\ Reuse \/ s \notin taken
  /\ phase' = "attach" /\ cur' = <<s, c>>
  /\ users' = [users EXCEPT ![s] = 2] /\ tmr' = tmr \ {s}
  /\ link' = RemoveNext(link, s)
  /\ UNCHANGED <<st, base, fresh, queue, taken>>

\* Variant: the removal is left half done.
SessionAttach_Linked ==
  LET s == cur[1]  c == cur[2] IN
  /\ phase = "attach" /\ phase' = "events" /\ cur' = <<None, None>>
  /\ link' = InsertTail(link, Wait(c), s)
  /\ base' = [base EXCEPT ![s] = c]
  /\ queue' = MovedTo(Wait(c), s) /\ taken' = taken \ {s}
  /\ UNCHANGED <<st, users, tmr, fresh>>

\* It completes the removal and puts the session on the wait list.
SessionAttach ==
  LET s == cur[1]  c == cur[2] IN
  /\ phase = "attach" /\ phase' = "events" /\ cur' = <<None, None>>
  /\ link' = InsertTail(RemovePrev(link, s), Wait(c), s)
  /\ base' = [base EXCEPT ![s] = c]
  /\ queue' = MovedTo(Wait(c), s) /\ taken' = taken \ {s}
  /\ UNCHANGED <<st, users, tmr, fresh>>

\* Variant: the session keeps its user.
MainShutdown_KeepsUser(s) ==
  /\ phase \in {"timeouts", "events"} /\ users[s] = 1 /\ base[s] = None
  /\ s \notin fresh
  /\ tmr' = tmr \ {s}
  /\ link' = InsertTail(link, Down, s)
  /\ queue' = [queue EXCEPT ![Down] = Append(@, s)] /\ taken' = taken \ {s}
  /\ UNCHANGED <<users, st, base, phase, fresh, cur>>

\* The only user ends or times out: fwd_session_shutdown by the main thread.
MainShutdown(s) ==
  /\ phase \in {"timeouts", "events"} /\ users[s] = 1 /\ base[s] = None
  /\ s \notin fresh
  /\ users' = [users EXCEPT ![s] = 0] /\ tmr' = tmr \ {s}
  /\ link' = InsertTail(link, Down, s)
  /\ queue' = [queue EXCEPT ![Down] = Append(@, s)] /\ taken' = taken \ {s}
  /\ UNCHANGED <<st, base, phase, fresh, cur>>

\* sess_timeout_init, of a session without a child (FiredIsFree):
\* fwd_session_uninit first shuts it down, which puts it on the list under the
\* mutex.
TimeoutInit(s) ==
  /\ phase = "timeouts" /\ s \in tmr /\ st[s] = "INITED"
  /\ phase' = "fired" /\ cur' = <<s, None>>
  /\ st' = [st EXCEPT ![s] = "ERROR"]
  /\ users' = [users EXCEPT ![s] = 0] /\ tmr' = tmr \ {s}
  /\ link' = InsertTail(link, Down, s)
  /\ queue' = [queue EXCEPT ![Down] = Append(@, s)] /\ taken' = taken \ {s}
  /\ UNCHANGED <<base, fresh>>

\* Then it removes the session again, without the mutex.
UninitBegins ==
  /\ phase = "fired" /\ phase' = "uninit"
  /\ link' = RemoveNext(link, cur[1])
  /\ UNCHANGED <<st, base, users, tmr, fresh, queue, taken, cur>>

\* The session is freed after the second assignment.
UninitEnds ==
  LET s == cur[1] IN
  /\ phase = "uninit" /\ phase' = "timeouts" /\ cur' = <<None, None>>
  /\ link' = RemovePrev(link, s)
  /\ st' = [st EXCEPT ![s] = "NONE"] /\ queue' = Without(s)
  /\ UNCHANGED <<base, users, tmr, fresh, taken>>

-----------------------------------------------------------------------------
(* A child.                                                                *)

\* fwd_child_callback and fwd_child_handle: the next session that waits.
CallbackTake(c) ==
  LET s == link[Wait(c)].next IN
  /\ ~QueueEmpty(link, Wait(c)) /\ s \in Sess
  /\ link' = InsertTail(Remove(link, s), Served(c), s)
  /\ st' = [st EXCEPT ![s] = "EST"] /\ base' = [base EXCEPT ![s] = c]
  /\ queue' = MovedTo(Served(c), s)
  /\ UNCHANGED <<users, tmr, phase, fresh, taken, cur>>

\* One side of the pair fails, and the other is flushed.
SessionClean(s) ==
  /\ base[s] # None /\ st[s] = "EST"
  /\ st' = [st EXCEPT ![s] = "CLEAN"]
  /\ UNCHANGED <<link, base, users, tmr, phase, fresh, queue, taken, cur>>

\* fwd_session_shutdown by the child: the session leaves the child and is put
\* on the main thread's list, which main_event_cb locks while it walks it.
SessionDown(s) ==
  /\ phase # "drain" /\ (Race \/ phase \notin {"attach", "uninit"})
  /\ base[s] # None /\ st[s] \in {"EST", "CLEAN"}
  /\ link' = InsertTail(Remove(link, s), Down, s)
  /\ base' = [base EXCEPT ![s] = None] /\ users' = [users EXCEPT ![s] = 0]
  /\ queue' = MovedTo(Down, s)
  /\ UNCHANGED <<st, tmr, phase, fresh, taken, cur>>

-----------------------------------------------------------------------------

MainSteps == DrainTake \/ DrainDone \/ SessionAttach \/ UninitBegins \/ UninitEnds

Next ==
  \/ MainSteps \/ NextPhase
  \/ \E s \in Sess : \/ TicketIn(s) \/ Bind(s) \/ MainShutdown(s)
                     \/ TimeoutInit(s) \/ SessionClean(s) \/ SessionDown(s)
                     \/ \E c \in Child : AttachBegins(s, c)
  \/ \E c \in Child : CallbackTake(c)

Spec == Init /\ [][Next]_vars

\* The main thread goes on, batches are finite, and a child takes what waits
\* for it (FwdChild).
FairSpec == /\ Spec /\ WF_vars(MainSteps) /\ SF_vars(NextPhase)
            /\ \A c \in Child : WF_vars(CallbackTake(c))

-----------------------------------------------------------------------------
(* Properties.                                                             *)

\* The nodes of list h when it holds q: the head at both ends.
NodeAt(h, q, i) == IF i \in DOMAIN q THEN q[i] ELSE h

\* The lists hold what they are meant to, in that order, read forwards and
\* backwards, except in the middle of a removal: no insertion or removal, in
\* particular of a session that may be on no list or on another thread's
\* (fwd_child.c:188), breaks a list or moves an element between two of them.
\* This is without Race only: a child that puts a session down in the middle
\* of a removal without the mutex (fwd_child.c:188, fwd_session.c:190) does
\* break the main thread's list.
ListsRight ==
  phase \notin {"attach", "uninit"} =>
  \A h \in List : \A i \in 0 .. Len(queue[h]) :
    LET a == NodeAt(h, queue[h], i)  b == NodeAt(h, queue[h], i + 1)
    IN link[a].next = b /\ link[b].prev = a

\* A session is on the lists at most once: it has one link, and inserting it
\* a second time makes a list that never ends.
OnOneList ==
  \A g, h \in List : \A i \in DOMAIN queue[g], j \in DOMAIN queue[h] :
    queue[g][i] = queue[h][j] => g = h /\ i = j

\* A session whose ticket may time out in the main thread belongs to no child
\* ("dt_assert((sess->base == NULL) && "bug")", fwd_session.c:54).
FiredIsFree == \A s \in tmr : st[s] = "INITED" => base[s] = None

\* A session that was put down comes off the list: it is taken back by the
\* main thread, or handed to a child before that.  (Without Race: a session put
\* down in the middle of a removal without the mutex may never be found.)
TakenBack ==
  \A s \in Sess : (\E i \in DOMAIN queue[Down] : queue[Down][i] = s)
                    ~> ~(\E i \in DOMAIN queue[Down] : queue[Down][i] = s)

-----------------------------------------------------------------------------
(* The inductive invariant behind these, without Reuse and Race.           *)

\* Pointers l have the nodes of list h when it holds q.  Behind a session of
\* `half', whose removal has only begun, the way back already leads past it.
Chained(l, h, q, half) ==
  \A i \in 0 .. Len(q) :
    LET a == NodeAt(h, q, i)  b == NodeAt(h, q, i + 1) IN
    /\ l[a].next = b
    /\ l[b].prev = IF a \in half THEN NodeAt(h, q, i - 1) ELSE a

Half == IF phase \in {"attach", "uninit"} THEN {cur[1]} ELSE {}

\* ListsRight, also in the middle of a removal.
ChainInv == \A h \in List : Chained(link, h, queue[h], Half)

\* What is on a list, and the link of a session that has never been on one.
Holds(h) == {queue[h][i] : i \in DOMAIN queue[h]}
Unlinked(s) == link[s] = [prev |-> s, next |-> s]

\* A session that was put down has no child and no timer.  If it has a user
\* again, this one was bound in the present batch, whose end is the drain.
DownInv ==
  \A s \in Holds(Down) :
    /\ st[s] # "NONE" /\ base[s] = None /\ s \notin tmr \cup taken
    /\ users[s] = 0 \/ s \in fresh \/ phase = "drain"

\* A session has a child exactly while it is on one of the child's lists; it
\* has both users then, and no timer in the main loop.
ChildInv ==
  \A s \in Sess, c \in Child :
    /\ s \in Holds(Wait(c)) \cup Holds(Served(c)) <=> base[s] = c
    /\ base[s] = c => /\ st[s] # "NONE" /\ users[s] = 2
                      /\ s \notin tmr \cup taken

\* A session that is on no list, and was not taken off one, points at itself.
FreeInv ==
  \A s \in Sess :
    /\ st[s] = "NONE" => users[s] = 0 /\ base[s] = None /\ s \notin tmr
    /\ st[s] # "NONE" /\ s \notin taken /\ (\A h \in List : s \notin Holds(h))
         => Unlinked(s)

\* The session that is being attached.
AttachInv ==
  phase = "attach" =>
    /\ cur \in Sess \X Child
    /\ st[cur[1]] # "NONE" /\ base[cur[1]] = None /\ users[cur[1]] = 2
    /\ cur[1] \notin tmr \cup taken

\* The session whose ticket timed out, until it is freed.
UninitInv ==
  phase \in {"fired", "uninit"} =>
    cur[1] \in Holds(Down) /\ st[cur[1]] = "ERROR" /\ users[cur[1]] = 0

\* The whole invariant, which every step of Next preserves.
IInv == /\ TypeOK /\ ChainInv /\ OnOneList /\ DownInv /\ ChildInv /\ FreeInv
        /\ AttachInv /\ UninitInv

=============================================================================
