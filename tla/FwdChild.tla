------------------------------ MODULE FwdChild ------------------------------
(***************************************************************************)
(* The worker threads of the forward server (fwd_child.c) and the part of  *)
(* the main thread that hands sessions to them (fwd_main.c).               *)
(*                                                                         *)
(* The main thread gives a paired session to the child with the fewest     *)
(* sessions by putting it on the child's `wait' queue, and then starts the *)
(* child's thread if its status says STOPPED.  A thread moves the sessions *)
(* from `wait' to its own queue `sess', serves them, and ends when both    *)
(* queues are empty.  The status is read and written without a lock by     *)
(* both sides; only the wait queue and the decision to end are protected   *)
(* by the child's mutex.                                                   *)
(*                                                                         *)
(* Sessions are tokens here: what happens inside one is in FwdSession.  A  *)
(* queue is the set of its elements, since no step depends on their order. *)
(***************************************************************************)
EXTENDS Integers, FiniteSets

CONSTANTS NChild,         \* fwd_main.n_child, the number of CPU cores
          Sess,           \* the sessions (tickets)
          NoSess,         \* no session in the main thread's hands
          MaxCreateFail   \* how many calls of pthread_create may fail

ASSUME NChildAssumption == NChild \in Nat \ {0}
ASSUME SessAssumption == IsFiniteSet(Sess) /\ NoSess \notin Sess
ASSUME CreateFailAssumption == MaxCreateFail \in Nat

Child == 0 .. NChild - 1

VARIABLES
  st,      \* fwd_child.st
  wait,    \* fwd_child.wait
  sess,    \* fwd_child.sess
  n_wait,  \* fwd_child.n_wait
  n_sess,  \* fwd_child.n_sess
  mtx,     \* fwd_child.mtx: TRUE while the child's thread holds it
  tid,     \* fwd_child.tid > 0
  pc,      \* where the child's thread is
  down,    \* fwd_main.sess: sessions on their way back to the main thread
  mpc,     \* where the main thread is in fwd_main_session_release_ctrl
  msess,   \* the session it is handing over
  fc,      \* the child it has chosen: `id' in main_choose_child, then `fc'
  i,       \* the loop index of main_choose_child
  least,   \* `n_sess' of main_choose_child: the fewest sessions seen
  failed   \* failed calls of pthread_create so far

childVars == <<st, wait, sess, n_wait, n_sess, mtx, tid, pc>>
mainVars  == <<mpc, msess, fc, i, least>>
vars      == <<childVars, down, mainVars, failed>>

ChildStatus == {"RUN", "STOPPED"}
ThreadPc    == {"none", "entry", "proc", "lock", "decide", "exit", "take",
                "events", "leave", "done"}
MainPc      == {"idle", "choose", "attach", "check", "stop", "join", "create"}

TypeOK ==
  /\ st \in [Child -> ChildStatus]
  /\ wait \in [Child -> SUBSET Sess]
  /\ sess \in [Child -> SUBSET Sess]
  /\ n_wait \in [Child -> Nat]
  /\ n_sess \in [Child -> Nat]
  /\ mtx \in [Child -> BOOLEAN]
  /\ tid \in [Child -> BOOLEAN]
  /\ pc \in [Child -> ThreadPc]
  /\ down \subseteq Sess
  /\ mpc \in MainPc
  /\ msess \in Sess \cup {NoSess}
  /\ fc \in Child
  /\ i \in 1 .. NChild
  /\ least \in Nat
  /\ failed \in 0 .. MaxCreateFail

\* fwd_child_init for every child: no thread, nothing queued.
Init ==
  /\ st = [c \in Child |-> "STOPPED"]
  /\ wait = [c \in Child |-> {}]
  /\ sess = [c \in Child |-> {}]
  /\ n_wait = [c \in Child |-> 0]
  /\ n_sess = [c \in Child |-> 0]
  /\ mtx = [c \in Child |-> FALSE]
  /\ tid = [c \in Child |-> FALSE]
  /\ pc = [c \in Child |-> "none"]
  /\ down = {}
  /\ mpc = "idle" /\ msess = NoSess /\ fc = 0 /\ i = 1 /\ least = 0
  /\ failed = 0

-----------------------------------------------------------------------------
(* The main thread.                                                        *)

Queued == down \cup UNION {wait[c] \cup sess[c] : c \in Child}

\* fwd_child_total_sessions: both counters, read without the mutex.
Total(c) == n_sess[c] + n_wait[c]

\* A session gets its second user; main_choose_child looks at child 0 first.
ReleaseCtrl(s) ==
  /\ mpc = "idle" /\ s \notin Queued
  /\ mpc' = "choose" /\ msess' = s
  /\ fc' = 0 /\ i' = 1 /\ least' = Total(0)
  /\ UNCHANGED <<childVars, down, failed>>

\* One round of the loop in main_choose_child: a child with strictly fewer
\* sessions replaces the candidate.
ChooseChild ==
  /\ mpc = "choose" /\ i < NChild
  /\ IF Total(i) < least THEN fc' = i /\ least' = Total(i)
                         ELSE UNCHANGED <<fc, least>>
  /\ i' = i + 1
  /\ UNCHANGED <<childVars, down, mpc, msess, failed>>

ChooseDone ==
  /\ mpc = "choose" /\ i = NChild
  /\ mpc' = "attach"
  /\ UNCHANGED <<childVars, down, msess, fc, i, least, failed>>

\* Variant: the mutex is not taken.
SessionAttach_Unlocked ==
  /\ mpc = "attach"
  /\ wait' = [wait EXCEPT ![fc] = @ \cup {msess}]
  /\ n_wait' = [n_wait EXCEPT ![fc] = @ + 1]
  /\ mpc' = "check" /\ msess' = NoSess
  /\ UNCHANGED <<st, sess, n_sess, mtx, tid, pc, down, fc, i, least, failed>>

\* fwd_child_session_attach: queue and count the session under the mutex.
SessionAttach ==
  /\ mpc = "attach" /\ ~mtx[fc]
  /\ wait' = [wait EXCEPT ![fc] = @ \cup {msess}]
  /\ n_wait' = [n_wait EXCEPT ![fc] = @ + 1]
  /\ mpc' = "check" /\ msess' = NoSess
  /\ UNCHANGED <<st, sess, n_sess, mtx, tid, pc, down, fc, i, least, failed>>

\* Variant: a thread that was created is taken for one that runs.
CheckStopped_ByTid ==
  /\ mpc = "check"
  /\ mpc' = IF ~tid[fc] THEN "stop" ELSE "idle"
  /\ UNCHANGED <<childVars, down, msess, fc, i, least, failed>>

\* `if (fc->st == FWD_CHILD_STOPPED) return fwd_child_start(fc)'.
CheckStopped ==
  /\ mpc = "check"
  /\ mpc' = IF st[fc] = "STOPPED" THEN "stop" ELSE "idle"
  /\ UNCHANGED <<childVars, down, msess, fc, i, least, failed>>

\* fwd_child_stop writes the status whatever the thread is doing by now, and
\* joins the last thread that was created.
ChildStop ==
  /\ mpc = "stop"
  /\ st' = [st EXCEPT ![fc] = "STOPPED"]
  /\ mpc' = IF tid[fc] THEN "join" ELSE "create"
  /\ UNCHANGED <<wait, sess, n_wait, n_sess, mtx, tid, pc, down, msess, fc, i,
                 least, failed>>

ChildJoin ==
  /\ mpc = "join" /\ pc[fc] = "done"
  /\ pc' = [pc EXCEPT ![fc] = "none"]
  /\ tid' = [tid EXCEPT ![fc] = FALSE]
  /\ mpc' = "create"
  /\ UNCHANGED <<st, wait, sess, n_wait, n_sess, mtx, down, msess, fc, i,
                 least, failed>>

\* dt_threadcreate; the new thread has not run yet.
ChildCreate ==
  /\ mpc = "create"
  /\ tid' = [tid EXCEPT ![fc] = TRUE]
  /\ pc' = [pc EXCEPT ![fc] = "entry"]
  /\ mpc' = "idle"
  /\ UNCHANGED <<st, wait, sess, n_wait, n_sess, mtx, down, msess, fc, i,
                 least, failed>>

\* pthread_create fails: the error is returned and nobody looks at it.
ChildCreateFails ==
  /\ mpc = "create" /\ failed < MaxCreateFail
  /\ failed' = failed + 1
  /\ mpc' = "idle"
  /\ UNCHANGED <<childVars, down, msess, fc, i, least>>

\* main_event_cb takes back what the children have put down.
DrainDown ==
  /\ mpc = "idle" /\ down # {}
  /\ down' = {}
  /\ UNCHANGED <<childVars, mainVars, failed>>

-----------------------------------------------------------------------------
(* The thread of child c.                                                  *)

\* fwd_child_thread_entry announces the thread only once it runs.
ThreadEntry(c) ==
  /\ pc[c] = "entry"
  /\ st' = [st EXCEPT ![c] = "RUN"]
  /\ pc' = [pc EXCEPT ![c] = "proc"]
  /\ UNCHANGED <<wait, sess, n_wait, n_sess, mtx, tid, down, mainVars, failed>>

\* fwd_child_callback, first lines: leave the event loop if told to stop.
\* (evt.run is set, cleared and read by this thread only: its value is in pc.)
CallbackStopped(c) ==
  /\ pc[c] = "proc"
  /\ pc' = [pc EXCEPT ![c] = IF st[c] = "STOPPED" THEN "leave" ELSE "lock"]
  /\ UNCHANGED <<st, wait, sess, n_wait, n_sess, mtx, tid, down, mainVars,
                 failed>>

CallbackLock(c) ==
  /\ pc[c] = "lock" /\ ~mtx[c]
  /\ mtx' = [mtx EXCEPT ![c] = TRUE]
  /\ pc' = [pc EXCEPT ![c] = "decide"]
  /\ UNCHANGED <<st, wait, sess, n_wait, n_sess, tid, down, mainVars, failed>>

\* Nothing waiting and nothing served: the thread is going to end ...
CallbackEmpty(c) ==
  /\ pc[c] = "decide" /\ wait[c] = {} /\ sess[c] = {}
  /\ pc' = [pc EXCEPT ![c] = "exit"]
  /\ UNCHANGED <<st, wait, sess, n_wait, n_sess, mtx, tid, down, mainVars,
                 failed>>

\* Variant: the thread ends with the mutex in its hands.
CallbackExit_KeepsMutex(c) ==
  /\ pc[c] = "exit"
  /\ st' = [st EXCEPT ![c] = "STOPPED"]
  /\ pc' = [pc EXCEPT ![c] = "leave"]
  /\ UNCHANGED <<wait, sess, n_wait, n_sess, mtx, tid, down, mainVars, failed>>

\* ... and says so before it gives the mutex back.
CallbackExit(c) ==
  /\ pc[c] = "exit"
  /\ st' = [st EXCEPT ![c] = "STOPPED"]
  /\ mtx' = [mtx EXCEPT ![c] = FALSE]
  /\ pc' = [pc EXCEPT ![c] = "leave"]
  /\ UNCHANGED <<wait, sess, n_wait, n_sess, tid, down, mainVars, failed>>

\* Variant: the branch returns without giving the mutex back.
CallbackNothing_KeepsMutex(c) ==
  /\ pc[c] = "decide" /\ wait[c] = {} /\ sess[c] # {}
  /\ pc' = [pc EXCEPT ![c] = "events"]
  /\ UNCHANGED <<st, wait, sess, n_wait, n_sess, mtx, tid, down, mainVars,
                 failed>>

CallbackNothing(c) ==
  /\ pc[c] = "decide" /\ wait[c] = {} /\ sess[c] # {}
  /\ mtx' = [mtx EXCEPT ![c] = FALSE]
  /\ pc' = [pc EXCEPT ![c] = "events"]
  /\ UNCHANGED <<st, wait, sess, n_wait, n_sess, tid, down, mainVars, failed>>

\* Variant: the session is queued and not counted.
CallbackTake_Uncounted(c, s) ==
  /\ pc[c] \in {"decide", "take"} /\ s \in wait[c]
  /\ wait' = [wait EXCEPT ![c] = @ \ {s}]
  /\ sess' = [sess EXCEPT ![c] = @ \cup {s}]
  /\ pc' = [pc EXCEPT ![c] = "take"]
  /\ UNCHANGED <<st, n_wait, n_sess, mtx, tid, down, mainVars, failed>>

\* One round of the loop over the wait queue: fwd_child_handle.  The wait
\* counter is only reset after the loop.
CallbackTake(c, s) ==
  /\ pc[c] \in {"decide", "take"} /\ s \in wait[c]
  /\ wait' = [wait EXCEPT ![c] = @ \ {s}]
  /\ sess' = [sess EXCEPT ![c] = @ \cup {s}]
  /\ n_sess' = [n_sess EXCEPT ![c] = @ + 1]
  /\ pc' = [pc EXCEPT ![c] = "take"]
  /\ UNCHANGED <<st, n_wait, mtx, tid, down, mainVars, failed>>

\* Variant: the wait counter is not reset.
CallbackTaken_KeepsCount(c) ==
  /\ pc[c] = "take" /\ wait[c] = {}
  /\ mtx' = [mtx EXCEPT ![c] = FALSE]
  /\ pc' = [pc EXCEPT ![c] = "events"]
  /\ UNCHANGED <<st, wait, sess, n_wait, n_sess, tid, down, mainVars, failed>>

\* The wait queue is empty: reset its counter, unlock.
CallbackTaken(c) ==
  /\ pc[c] = "take" /\ wait[c] = {}
  /\ n_wait' = [n_wait EXCEPT ![c] = 0]
  /\ mtx' = [mtx EXCEPT ![c] = FALSE]
  /\ pc' = [pc EXCEPT ![c] = "events"]
  /\ UNCHANGED <<st, wait, sess, n_sess, tid, down, mainVars, failed>>

\* A timeout or an event ends a session: fwd_session_shutdown detaches it
\* from the child and hands it back through fwd_main_session_down.
SessionEnds(c, s) ==
  /\ pc[c] = "events" /\ s \in sess[c]
  /\ sess' = [sess EXCEPT ![c] = @ \ {s}]
  /\ n_sess' = [n_sess EXCEPT ![c] = @ - 1]
  /\ down' = down \cup {s}
  /\ UNCHANGED <<st, wait, n_wait, mtx, tid, pc, mainVars, failed>>

\* The timeouts and the batch of events are handled: next round of the loop.
EventsHandled(c) ==
  /\ pc[c] = "events"
  /\ pc' = [pc EXCEPT ![c] = "proc"]
  /\ UNCHANGED <<st, wait, sess, n_wait, n_sess, mtx, tid, down, mainVars,
                 failed>>

\* The end of fwd_child_thread_entry.
ThreadLeave(c) ==
  /\ pc[c] = "leave"
  /\ st' = [st EXCEPT ![c] = "STOPPED"]
  /\ pc' = [pc EXCEPT ![c] = "done"]
  /\ UNCHANGED <<wait, sess, n_wait, n_sess, mtx, tid, down, mainVars, failed>>

-----------------------------------------------------------------------------
MainHandover ==
  \/ ChooseChild \/ ChooseDone \/ SessionAttach \/ CheckStopped
  \/ ChildStop \/ ChildJoin \/ ChildCreate \/ ChildCreateFails

Main == MainHandover \/ DrainDown \/ \E s \in Sess : ReleaseCtrl(s)

\* Everything the thread does of its own accord.
Thread(c) ==
  \/ ThreadEntry(c) \/ CallbackStopped(c) \/ CallbackLock(c)
  \/ CallbackEmpty(c) \/ CallbackExit(c) \/ CallbackNothing(c)
  \/ CallbackTaken(c)
  \/ \E s \in Sess : CallbackTake(c, s)
  \/ EventsHandled(c) \/ ThreadLeave(c)

Next ==
  \/ Main
  \/ \E c \in Child : Thread(c) \/ \E s \in Sess : SessionEnds(c, s)

\* The scheduler runs every thread that can run.  Nothing makes a session end,
\* and nothing makes the main thread win a contended mutex.
Fairness ==
  /\ WF_vars(MainHandover)
  /\ \A c \in Child : WF_vars(Thread(c))

Spec == Init /\ [][Next]_vars
FairSpec == Spec /\ Fairness

\* No client keeps its session busy for ever: a child that goes on handling
\* events sees one of its sessions end at last.
SessionsEnd ==
  \A c \in Child : SF_vars(\E s \in Sess : SessionEnds(c, s))

-----------------------------------------------------------------------------
(* Properties.                                                             *)

\* The thread of c is in its event loop and has not decided to leave it.
InLoop(c) == pc[c] \in {"proc", "lock", "decide", "take", "events"}

\* A thread is serving c's queues or is bound to: one is in its loop and not
\* told to stop, one has been created, or the main thread is about to create
\* one.
ServiceComing(c) ==
  \/ pc[c] = "entry"
  \/ InLoop(c) /\ st[c] = "RUN"
  \/ fc = c /\ mpc \in {"stop", "join", "create"}
  \/ fc = c /\ mpc = "check" /\ st[c] = "STOPPED"

\* No session is left on the queues of a child that nobody will serve.  The
\* thread's decision to end (fwd_child.c:60-67), the attach (190-195) and the
\* unlocked reads and writes of the status (fwd_main.c:255, fwd_child.c:53,
\* 95, 100, 124) interleave freely; a late write of STOPPED may stop a thread
\* that has sessions, but only when its successor is about to be created.
\* (A thread that could not be created serves nothing: see WaitHandled.)
NoSessionStranded ==
  \A c \in Child :
    failed = 0 /\ wait[c] \cup sess[c] # {} => ServiceComing(c)

\* The counters main_choose_child compares, and fwd_child.c:65 asserts about,
\* count the queues: n_sess always, n_wait whenever the child is not in the
\* middle of emptying its wait queue.
CountersMatch ==
  \A c \in Child :
    /\ n_sess[c] = Cardinality(sess[c])
    /\ pc[c] # "take" => n_wait[c] = Cardinality(wait[c])

\* Releasing control makes the session established ("this gonna make session
\* goes into established status", fwd_user.c:225): what is put on a wait
\* queue is taken off it by a thread, whatever the threads were doing.
WaitHandled ==
  \A c \in Child, s \in Sess : s \in wait[c] ~> s \notin wait[c]

\* The same when a thread may fail to be created: until that has happened,
\* every session that waits is taken.
WaitHandledIfCreated ==
  \A c \in Child, s \in Sess : s \in wait[c] ~> s \notin wait[c] \/ failed > 0

\* pthread_join in fwd_child_stop (fwd_child.c:127) returns if the sessions of
\* the child end: the two threads never wait for each other.  (Without that
\* the main thread may be held up: it can join a thread that it has just
\* created, which overwrites STOPPED when it announces itself.)
JoinReturns == SessionsEnd => ((mpc = "join") ~> (mpc = "idle"))

-----------------------------------------------------------------------------
(* The inductive invariant behind NoSessionStranded and CountersMatch.     *)

\* What the status, the mutex and the thread id say about the thread.
ThreadInv ==
  \A c \in Child :
    /\ mtx[c] <=> pc[c] \in {"decide", "exit", "take"}
    /\ tid[c] <=> pc[c] # "none"
    /\ pc[c] \in {"none", "leave", "done"} => st[c] = "STOPPED"
    /\ pc[c] = "exit" => wait[c] = {} /\ sess[c] = {}

\* A session is on one queue of a child at most, and on none while the main
\* thread looks for a child to give it to; a thread is created where there is
\* none.
HandoverInv ==
  /\ \A c \in Child : wait[c] \cap sess[c] = {}
  /\ mpc \in {"choose", "attach"} =>
       /\ msess \in Sess
       /\ \A c \in Child : msess \notin wait[c] \cup sess[c]
  /\ mpc = "create" => pc[fc] = "none"

\* The whole invariant: every step of Next preserves it.
IInv == TypeOK /\ ThreadInv /\ HandoverInv /\ CountersMatch /\ NoSessionStranded

=============================================================================
