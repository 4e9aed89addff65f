----------------------------- MODULE FwdSession -----------------------------
(***************************************************************************)
(* Users (client connections) and sessions (ticket pairs) of the forward   *)
(* server, and the threads that work on them: fwd_session.c, fwd_user.c    *)
(* and the parts of fwd_main.c and fwd_child.c they call.                  *)
(*                                                                         *)
(* The connection manager announces a ticket: a session.  A client         *)
(* connects (a user), sends the ticket and is bound to the session; the    *)
(* first one waits, the second one makes the pair, and the main thread     *)
(* releases the session to a child thread, which relays the data until one *)
(* side ends.  The child then shuts the session down and puts it on a      *)
(* queue of the main thread, where the ticket can be used once more until  *)
(* it times out.                                                           *)
(*                                                                         *)
(* Users and sessions have no lock of their own.  A child shuts a session  *)
(* down in several steps (Shut...), and the main thread binds a user in    *)
(* several steps (Bind...), so that they can meet in the same session.     *)
(*                                                                         *)
(* Time is left out: a pending timer may fire whenever its loop looks at   *)
(* the timers (FwdTimeout has the clock).  The relayed bytes are left out, *)
(* and a child is always running (FwdChild has its thread).                *)
(***************************************************************************)
EXTENDS Integers

CONSTANTS User,      \* slots for connections
          Ticket,    \* tickets, one session each
          Child,     \* child threads
          Main,      \* the main thread
          None,      \* the null pointer, or no thread
          Overlap    \* may a client present the ticket of a session while a
                     \* child is in the middle of shutting it down?

ASSUME NoneAssumption == None \notin User \cup Ticket \cup Child \cup {Main}
ASSUME MainAssumption == Main \notin Child
ASSUME OverlapAssumption == Overlap \in BOOLEAN

VARIABLES
  user,    \* fwd_user of each slot
  sess,    \* fwd_session of each ticket
  down,    \* fwd_main.sess, sessions the main thread has to take back
  wait,    \* the wait queues of the children (whose: fwd_session.base)
  served,  \* the sess queues of the children
  phase,   \* where the main thread is in fwd_event_run
  ready,   \* the users whose events epoll_wait returned, not yet handled
  bind,    \* the main thread's progress in user_auth_and_bind_session
  shut     \* each thread's progress in fwd_session_shutdown

vars == <<user, sess, down, wait, served, phase, ready, bind, shut>>

Thread == Child \cup {Main}
UserStatus == {"FREE", "ACCEPTED", "AUTH", "WATTING", "EST", "CLEAN"}
SessStatus == {"NONE", "INITED", "WATTING", "EST", "CLEAN"}

\* evt is the thread whose epoll instance has the socket, tmr the thread in
\* whose timer queue the timeout is pending.  ST_ERROR is not a status here:
\* the step that sets it also ends the user or the session.
UserRecord == [st : UserStatus, sess : Ticket \cup {None},
               peer : User \cup {None}, evt : Thread \cup {None},
               tmr : Thread \cup {None}]

SessRecord == [st : SessStatus, user1 : User \cup {None},
               user2 : User \cup {None}, base : Child \cup {None},
               tmr : Thread \cup {None}]

TypeOK ==
  /\ user \in [User -> UserRecord]
  /\ sess \in [Ticket -> SessRecord]
  /\ down \subseteq Ticket /\ wait \subseteq Ticket /\ served \subseteq Ticket
  /\ phase \in {"drain", "timeouts", "events"}
  /\ ready \subseteq User
  /\ bind \in [at : {"none", "attach", "pair"}, user : User \cup {None},
               sess : Ticket \cup {None}]
  /\ shut \in [Thread -> [at : {"none", "user1", "user2", "clear", "detach",
                                "down"},
                          sess : Ticket \cup {None}, fired : BOOLEAN]]

\* No user in the slot, no session for the ticket.
NoUser == [st |-> "FREE", sess |-> None, peer |-> None, evt |-> None,
           tmr |-> None]
NoSession == [st |-> "NONE", user1 |-> None, user2 |-> None, base |-> None,
              tmr |-> None]
NotBinding == [at |-> "none", user |-> None, sess |-> None]
NotShutting == [at |-> "none", sess |-> None, fired |-> FALSE]

Init ==
  /\ user = [u \in User |-> NoUser]
  /\ sess = [t \in Ticket |-> NoSession]
  /\ down = {} /\ wait = {} /\ served = {}
  /\ phase = "drain" /\ ready = {}
  /\ bind = NotBinding
  /\ shut = [th \in Thread |-> NotShutting]

-----------------------------------------------------------------------------
(* Helpers.                                                                *)

\* The thread is not inside a handler that takes several steps.
Idle(th) == shut[th].at = "none" /\ (th = Main => bind.at = "none")

\* Main's timers are looked at, and its events handled, in their phase of the
\* loop.  A child's loop has nothing between the two that matters here.
InTimeouts(th) == Idle(th) /\ (th = Main => phase = "timeouts")
InEvents(th, u) == /\ Idle(th) /\ user[u].evt = th
                   /\ th = Main => phase = "events" /\ u \in ready

\* The loop that the cancel functions of fwd_user.c address for a user x.
Owner(x) == IF x.sess # None /\ sess[x.sess].base # None
            THEN sess[x.sess].base ELSE Main

\* fwd_user_event_set: a registered socket is modified where it is; only
\* established and flushing users are registered with a child.
EventSet(x) ==
  [x EXCEPT !.evt = IF @ # None THEN @
                    ELSE IF x.st \in {"CLEAN", "EST"} THEN Owner(x) ELSE Main]

\* fwd_user_timeout_set (a pending timer is cancelled first).
TimeoutSet(x) ==
  [x EXCEPT !.tmr = IF x.st \in {"CLEAN", "EST"} THEN Owner(x) ELSE Main]

\* Variant: the timer is left pending.
Cancel_KeepsTimer(x) == [x EXCEPT !.evt = IF @ = Owner(x) THEN None ELSE @]

\* fwd_user_event_cancel with fwd_user_timeout_cancel.  epoll_ctl only finds
\* the socket in the instance where it is registered.
Cancel(x) == [x EXCEPT !.evt = IF @ = Owner(x) THEN None ELSE @, !.tmr = None]

\* Variant: no timeout for the last bytes.
ToClean_NoTimeout(x) == EventSet([x EXCEPT !.st = "CLEAN", !.tmr = None])

\* user_st_clean: wait for the last bytes to be sent, with a timeout.
ToClean(x) == TimeoutSet(EventSet([x EXCEPT !.st = "CLEAN"]))

\* Variant: the peer keeps its pointer.
DestroyUser_KeepsPeer(u) == user' = [user EXCEPT ![u] = NoUser]

\* fwd_user_destroy as seen by the other users: the peer forgets it.
DestroyUser(u) ==
  user' = [v \in User |-> IF v = u THEN NoUser
                          ELSE IF v = user[u].peer
                               THEN [user[v] EXCEPT !.peer = None]
                               ELSE user[v]]

\* fwd_session_shutdown begins; `gone' says that the session is freed after it.
Shutdown(th, t, gone) ==
  shut' = [shut EXCEPT ![th] = [at |-> "user1", sess |-> t, fired |-> gone]]

\* user_event_error: a bound user takes its session down with it.
EndUser(th, u) ==
  IF user[u].sess # None
  THEN /\ Shutdown(th, user[u].sess, FALSE)
       /\ UNCHANGED user
  ELSE /\ DestroyUser(u)
       /\ UNCHANGED shut

\* A handler on user u of thread th is over: u leaves the batch of the main
\* thread.
Handled(th, u) == ready' = IF th = Main THEN ready \ {u} ELSE ready

-----------------------------------------------------------------------------
(* The loop of the main thread, fwd_event_run.                             *)

\* main_event_cb: every session that was put down is ready for its ticket to
\* be presented again, until its timer fires.
Drain ==
  /\ phase = "drain" /\ Idle(Main)
  /\ sess' = [t \in Ticket |->
                IF t \in down
                THEN [sess[t] EXCEPT !.st = "INITED", !.tmr = Main]
                ELSE sess[t]]
  /\ down' = {}
  /\ phase' = "timeouts"
  /\ UNCHANGED <<user, wait, served, ready, bind, shut>>

\* epoll_wait returns some of the sockets registered with the main thread.
EpollWait ==
  /\ phase = "timeouts" /\ Idle(Main)
  /\ ready' \in SUBSET {u \in User : user[u].evt = Main}
  /\ phase' = "events"
  /\ UNCHANGED <<user, sess, down, wait, served, bind, shut>>

EventsHandled ==
  /\ phase = "events" /\ Idle(Main) /\ ready = {}
  /\ phase' = "drain"
  /\ UNCHANGED <<user, sess, down, wait, served, ready, bind, shut>>

\* fwd_main_ticket_in: the connection manager announces a new ticket.  (For a
\* ticket that exists the new session is destroyed again and an error
\* returned.)
TicketIn(t) ==
  /\ phase = "events" /\ Idle(Main) /\ sess[t].st = "NONE"
  /\ sess' = [sess EXCEPT ![t].st = "INITED", ![t].tmr = Main]
  /\ UNCHANGED <<user, down, wait, served, phase, ready, bind, shut>>

\* fwd_bind_accept_next, fwd_main_user_in: a client connects.
Accept(u) ==
  /\ phase = "events" /\ Idle(Main) /\ user[u].st = "FREE"
  /\ user' = [user EXCEPT ![u].st = "ACCEPTED", ![u].evt = Main,
                          ![u].tmr = Main]
  /\ UNCHANGED <<sess, down, wait, served, phase, ready, bind, shut>>

-----------------------------------------------------------------------------
(* Events of users that are not yet paired.                                *)

\* Nothing to read, a register message that is not complete yet, data from a
\* user that waits, or a flush that could send a part only.
EventNothing(u) ==
  /\ InEvents(Main, u) /\ user[u].st \in {"ACCEPTED", "WATTING", "CLEAN"}
  /\ Handled(Main, u)
  /\ UNCHANGED <<user, sess, down, wait, served, phase, bind, shut>>

\* user_event_accepted, when the connection ends or fails.  fwd_sock_read closes
\* the socket on an error, so that it is gone from epoll.
AcceptedEnds(u) ==
  /\ InEvents(Main, u) /\ user[u].st = "ACCEPTED"
  /\ \E x \in {ToClean(user[u]), [ToClean(user[u]) EXCEPT !.evt = None]} :
       user' = [user EXCEPT ![u] = x]
  /\ Handled(Main, u)
  /\ UNCHANGED <<sess, down, wait, served, phase, bind, shut>>

\* user_accept_handle_msg and user_event_auth, when what was received is no
\* register message with a ticket.  In ST_AUTH nothing more is read: only what
\* came together with the first message is looked at.
AuthInvalid(u) ==
  /\ InEvents(Main, u) /\ user[u].st \in {"ACCEPTED", "AUTH"}
  /\ user' = [user EXCEPT ![u] = ToClean(@)]
  /\ Handled(Main, u)
  /\ UNCHANGED <<sess, down, wait, served, phase, bind, shut>>

\* user_event_auth on a message without a body: no error, and the user stays in
\* ST_AUTH until its next event or the timeout of that status.
AuthNoBody(u) ==
  /\ InEvents(Main, u) /\ user[u].st \in {"ACCEPTED", "AUTH"}
  /\ user' = [user EXCEPT ![u].st = "AUTH", ![u].tmr = Main]
  /\ Handled(Main, u)
  /\ UNCHANGED <<sess, down, wait, served, phase, bind, shut>>

\* The condition on which user_auth_and_bind_session refuses the ticket.
InUse(t) == \/ sess[t].st = "EST"
            \/ sess[t].user1 # None /\ sess[t].user2 # None

\* A child is in the middle of shutting the session of t down.
BeingShut(t) == \E c \in Child : shut[c].sess = t

\* The user presents ticket t, and is refused or goes on to be bound.
AuthUser(u, t) ==
  /\ InEvents(Main, u) /\ user[u].st \in {"ACCEPTED", "AUTH"}
  /\ Overlap \/ ~BeingShut(t)
  /\ IF sess[t].st = "NONE" \/ InUse(t)
     THEN /\ user' = [user EXCEPT ![u] = ToClean(@)]
          /\ UNCHANGED bind
     ELSE /\ user' = [user EXCEPT ![u].st = "AUTH", ![u].tmr = Main]
          /\ bind' = [at |-> "attach", user |-> u, sess |-> t]
  /\ Handled(Main, u)
  /\ UNCHANGED <<sess, down, wait, served, phase, shut>>

\* Variant: the first place is taken whether it is free or not.
BindAttach_First ==
  LET t == bind.sess  u == bind.user IN
  /\ bind.at = "attach"
  /\ sess' = [sess EXCEPT ![t].user1 = u, ![t].tmr = None]
  /\ user' = [user EXCEPT ![u].sess = t]
  /\ bind' = [bind EXCEPT !.at = "pair"]
  /\ UNCHANGED <<down, wait, served, phase, ready, shut>>

\* Variant: the timer of the session is left pending.
BindAttach_KeepsTimer ==
  LET t == bind.sess  u == bind.user IN
  /\ bind.at = "attach"
  /\ sess' = [sess EXCEPT ![t] = IF @.user1 = None
                                 THEN [@ EXCEPT !.user1 = u]
                                 ELSE [@ EXCEPT !.user2 = u]]
  /\ user' = [user EXCEPT ![u].sess = t]
  /\ bind' = [bind EXCEPT !.at = "pair"]
  /\ UNCHANGED <<down, wait, served, phase, ready, shut>>

\* fwd_user_attach: the first free place, which is read again here.
BindAttach ==
  LET t == bind.sess  u == bind.user IN
  /\ bind.at = "attach"
  /\ sess' = [sess EXCEPT
                ![t] = IF @.user1 = None
                       THEN [@ EXCEPT !.user1 = u, !.tmr = None]
                       ELSE [@ EXCEPT !.user2 = u, !.tmr = None]]
  /\ user' = [user EXCEPT ![u].sess = t]
  /\ bind' = [bind EXCEPT !.at = "pair"]
  /\ UNCHANGED <<down, wait, served, phase, ready, shut>>

\* fwd_session_next_user: the other user of the session of u, if any.
NextUser(t, u) == IF sess[t].user1 = u THEN sess[t].user2 ELSE sess[t].user1

\* Variant: `peer->peer = user' is missing.
BindPair_OneSided(c) ==
  LET t == bind.sess  u == bind.user  peer == NextUser(t, u) IN
  /\ bind.at = "pair" /\ peer # None
  /\ user' = [user EXCEPT ![u] = [Cancel(@) EXCEPT !.peer = peer],
                          ![peer] = Cancel(@)]
  /\ sess' = [sess EXCEPT ![t].base = c]
  /\ ready' = ready \ {v \in {peer} : user[v].evt = Main /\
                                      Owner(user[v]) = Main}
  /\ down' = down \ {t} /\ wait' = wait \cup {t}
  /\ bind' = NotBinding
  /\ UNCHANGED <<served, phase, shut>>

\* Variant: fwd_child_session_attach without its dt_queue_remove.
BindPair_StaysDown(c) ==
  LET t == bind.sess  u == bind.user  peer == NextUser(t, u) IN
  /\ bind.at = "pair" /\ peer # None
  /\ user' = [user EXCEPT ![u] = [Cancel(@) EXCEPT !.peer = peer],
                          ![peer] = [Cancel(@) EXCEPT !.peer = u]]
  /\ sess' = [sess EXCEPT ![t].base = c]
  /\ ready' = ready \ {v \in {peer} : user[v].evt = Main /\
                                      Owner(user[v]) = Main}
  /\ wait' = wait \cup {t}
  /\ bind' = NotBinding
  /\ UNCHANGED <<down, served, phase, shut>>

\* The peer is there: neither user has an event or a timer any more, and
\* fwd_main_session_release_ctrl moves the session to some child's wait queue.
BindPair(c) ==
  LET t == bind.sess  u == bind.user  peer == NextUser(t, u) IN
  /\ bind.at = "pair" /\ peer # None
  /\ user' = [user EXCEPT ![u] = [Cancel(@) EXCEPT !.peer = peer],
                          ![peer] = [Cancel(@) EXCEPT !.peer = u]]
  /\ sess' = [sess EXCEPT ![t].base = c]
  /\ ready' = ready \ {v \in {peer} : user[v].evt = Main /\
                                      Owner(user[v]) = Main}
  /\ down' = down \ {t} /\ wait' = wait \cup {t}
  /\ bind' = NotBinding
  /\ UNCHANGED <<served, phase, shut>>

\* No peer yet: the session and its user wait.
BindWait ==
  LET t == bind.sess  u == bind.user IN
  /\ bind.at = "pair" /\ NextUser(t, u) = None
  /\ sess' = [sess EXCEPT ![t].st = "WATTING"]
  /\ user' = [user EXCEPT ![u] = TimeoutSet([@ EXCEPT !.st = "WATTING"])]
  /\ bind' = NotBinding
  /\ UNCHANGED <<down, wait, served, phase, ready, shut>>

-----------------------------------------------------------------------------
(* A child thread.                                                         *)

\* fwd_child_callback, fwd_child_handle: take a session from the wait queue.
\* A user without a peer would not be registered for events.
TakeSession(c, t) ==
  /\ Idle(c) /\ t \in wait /\ sess[t].base = c
  /\ wait' = wait \ {t} /\ served' = served \cup {t}
  /\ sess' = [sess EXCEPT ![t].st = "EST", ![t].tmr = c]
  /\ user' = [u \in User |->
                IF u \in {sess[t].user1, sess[t].user2}
                THEN LET x == [user[u] EXCEPT !.st = "EST"]
                     IN  IF x.peer # None THEN EventSet(x) ELSE x
                ELSE user[u]]
  /\ UNCHANGED <<down, phase, ready, bind, shut>>

\* user_event_est when bytes flow.  The handled user may be left without an
\* event, its peer is registered.
EstRelay(c, u) ==
  LET peer == user[u].peer IN
  /\ InEvents(c, u) /\ user[u].st = "EST" /\ peer # None
  /\ \E e \in {None, c} :
       user' = [user EXCEPT ![u].evt = e, ![peer] = EventSet(@)]
  /\ UNCHANGED <<sess, down, wait, served, phase, ready, bind, shut>>

\* user_event_est when u fails but has sent bytes that its peer has not got:
\* the peer flushes them, both it and the session get a timeout.
EstFailsFlush(c, u) ==
  LET peer == user[u].peer  t == user[u].sess IN
  /\ InEvents(c, u) /\ user[u].st = "EST" /\ peer # None
  /\ user' = [user EXCEPT
                ![u].evt = None,
                ![peer] = ToClean([@ EXCEPT !.evt = None])]
  /\ sess' = [sess EXCEPT ![t].st = "CLEAN", ![t].tmr = sess[t].base]
  /\ UNCHANGED <<down, wait, served, phase, ready, bind, shut>>

\* user_event_est when u fails and nothing is left to be sent.
EstFails(c, u) ==
  /\ InEvents(c, u) /\ user[u].st = "EST"
  /\ Shutdown(c, user[u].sess, FALSE)
  /\ UNCHANGED <<user, sess, down, wait, served, phase, ready, bind>>

\* sess_timeout_est on an inactive session, or sess_timeout_clean.  (On a
\* session that was in use since, sess_timeout_est only sets the timer again.)
SessTimeout(c, t) ==
  /\ Idle(c) /\ sess[t].tmr = c /\ sess[t].st \in {"EST", "CLEAN"}
  /\ sess' = [sess EXCEPT ![t].tmr = None]
  /\ Shutdown(c, t, FALSE)
  /\ UNCHANGED <<user, down, wait, served, phase, ready, bind>>

-----------------------------------------------------------------------------
(* Handlers that run on any thread.                                        *)

\* user_event_clean after the last byte or a failure.
CleanDone(th, u) ==
  /\ InEvents(th, u) /\ user[u].st = "CLEAN"
  /\ EndUser(th, u)
  /\ Handled(th, u)
  /\ UNCHANGED <<sess, down, wait, served, phase, bind>>

\* EPOLLERR or EPOLLHUP: fwd_event_handle_evt takes the socket out of epoll,
\* user_event_cb sets ST_ERROR and runs user_event_error.
EventError(th, u) ==
  /\ InEvents(th, u)
  /\ IF user[u].sess # None
     THEN /\ Shutdown(th, user[u].sess, FALSE)
          /\ user' = [user EXCEPT ![u].evt = None]
     ELSE /\ DestroyUser(u)
          /\ UNCHANGED shut
  /\ Handled(th, u)
  /\ UNCHANGED <<sess, down, wait, served, phase, bind>>

\* user_timeout_accepted, _auth and _waitting: send the reason, then end.
TimeoutToClean(th, u) ==
  /\ InTimeouts(th) /\ user[u].tmr = th
  /\ user[u].st \in {"ACCEPTED", "AUTH", "WATTING"}
  /\ user' = [user EXCEPT ![u] = ToClean(@)]
  /\ UNCHANGED <<sess, down, wait, served, phase, ready, bind, shut>>

\* Variant: the error handler is not run after ST_ERROR is set.
TimeoutClean_NotRun(th, u) ==
  /\ InTimeouts(th) /\ user[u].tmr = th /\ user[u].st = "CLEAN"
  /\ user' = [user EXCEPT ![u].tmr = None, ![u].st = "ERROR"]
  /\ UNCHANGED <<sess, down, wait, served, phase, ready, bind, shut>>

\* user_timeout_clean: the last bytes could not be sent in time.
TimeoutClean(th, u) ==
  /\ InTimeouts(th) /\ user[u].tmr = th /\ user[u].st = "CLEAN"
  /\ IF user[u].sess # None
     THEN /\ Shutdown(th, user[u].sess, FALSE)
          /\ user' = [user EXCEPT ![u].tmr = None]
     ELSE /\ DestroyUser(u)
          /\ UNCHANGED shut
  /\ UNCHANGED <<sess, down, wait, served, phase, ready, bind>>

\* sess_timeout_init: nobody presented the ticket; sess_timeout_err follows at
\* once and fwd_main_session_fired frees the session after shutting it down.
SessTimeoutInit(t) ==
  /\ InTimeouts(Main) /\ sess[t].tmr = Main /\ sess[t].st = "INITED"
  /\ sess' = [sess EXCEPT ![t].tmr = None]
  /\ Shutdown(Main, t, TRUE)
  /\ UNCHANGED <<user, down, wait, served, phase, ready, bind>>

-----------------------------------------------------------------------------
(* fwd_session_shutdown, step by step.  The status is left as it is.       *)

Goto(th, at) == shut' = [shut EXCEPT ![th].at = at]

\* The fwd_user_destroy of one place: what it holds now is destroyed.
DestroyPlace(th, u) ==
  IF u = None THEN UNCHANGED <<user, ready>>
  ELSE /\ DestroyUser(u)
       /\ Handled(th, u)

ShutUser1(th) ==
  LET t == shut[th].sess IN
  /\ shut[th].at = "user1"
  /\ DestroyPlace(th, sess[t].user1)
  /\ sess' = [sess EXCEPT ![t].user1 = None, ![t].tmr = None]
  /\ Goto(th, "user2")
  /\ UNCHANGED <<down, wait, served, phase, bind>>

ShutUser2(th) ==
  LET t == shut[th].sess IN
  /\ shut[th].at = "user2"
  /\ DestroyPlace(th, sess[t].user2)
  /\ sess' = [sess EXCEPT ![t].user2 = None]
  /\ Goto(th, "clear")
  /\ UNCHANGED <<down, wait, served, phase, bind>>

\* Both places are set to NULL, whatever they hold by now.
ShutClear(th) ==
  /\ shut[th].at = "clear"
  /\ sess' = [sess EXCEPT ![shut[th].sess].user1 = None,
                          ![shut[th].sess].user2 = None]
  /\ Goto(th, "detach")
  /\ UNCHANGED <<user, down, wait, served, phase, ready, bind>>

\* fwd_session_detach: leave the child's queue.
ShutDetach(th) ==
  LET t == shut[th].sess IN
  /\ shut[th].at = "detach"
  /\ IF sess[t].base # None
     THEN served' = served \ {t} /\ wait' = wait \ {t}
     ELSE UNCHANGED <<served, wait>>
  /\ sess' = [sess EXCEPT ![t].base = None]
  /\ Goto(th, "down")
  /\ UNCHANGED <<user, down, phase, ready, bind>>

\* Variant: the session is not handed back to the main thread.
ShutDown_NotQueued(th) ==
  LET t == shut[th].sess IN
  /\ shut[th].at = "down"
  /\ sess' = IF shut[th].fired THEN [sess EXCEPT ![t] = NoSession] ELSE sess
  /\ shut' = [shut EXCEPT ![th] = NotShutting]
  /\ UNCHANGED <<user, down, wait, served, phase, ready, bind>>

\* fwd_main_session_down under fwd_main.mtx; a fired session is unlinked again
\* (fwd_session_uninit), reported to the connection manager and freed.
ShutDown(th) ==
  LET t == shut[th].sess IN
  /\ shut[th].at = "down"
  /\ IF shut[th].fired
     THEN sess' = [sess EXCEPT ![t] = NoSession] /\ down' = down \ {t}
     ELSE down' = down \cup {t} /\ UNCHANGED sess
  /\ shut' = [shut EXCEPT ![th] = NotShutting]
  /\ UNCHANGED <<user, wait, served, phase, ready, bind>>

-----------------------------------------------------------------------------
ShutStep(th) == \/ ShutUser1(th) \/ ShutUser2(th) \/ ShutClear(th)
                \/ ShutDetach(th) \/ ShutDown(th)

BindStep == BindAttach \/ BindWait \/ \E c \in Child : BindPair(c)

\* What the main thread does with the events of a batch.
MainEvent == \E u \in User :
  \/ EventNothing(u) \/ AcceptedEnds(u) \/ AuthInvalid(u) \/ AuthNoBody(u)
  \/ CleanDone(Main, u) \/ EventError(Main, u)
  \/ \E t \in Ticket : AuthUser(u, t)

UserTimeout(th, u) == TimeoutToClean(th, u) \/ TimeoutClean(th, u)

\* What the clients and the connection manager bring about.
Environment == \/ \E u \in User : Accept(u)
               \/ \E t \in Ticket : TicketIn(t)

ChildEvent(c) == \E u \in User :
  \/ EstRelay(c, u) \/ EstFailsFlush(c, u) \/ EstFails(c, u)
  \/ CleanDone(c, u) \/ EventError(c, u)

Next ==
  \/ Drain \/ EpollWait \/ EventsHandled \/ Environment \/ MainEvent
  \/ BindStep
  \/ \E t \in Ticket : SessTimeoutInit(t)
  \/ \E th \in Thread : ShutStep(th) \/ \E u \in User : UserTimeout(th, u)
  \/ \E c \in Child : ChildEvent(c)
  \/ \E c \in Child, t \in Ticket :
       TakeSession(c, t) \/ SessTimeout(c, t)

Spec == Init /\ [][Next]_vars

\* Every thread goes on with its loop and with a handler it has begun; a child
\* looks at its wait queue in every round, and a timer that stays pending fires
\* (FwdTimeout bounds when).  Nothing is assumed of clients or of the network.
MainLoop == \/ Drain \/ EpollWait \/ EventsHandled \/ MainEvent \/ BindStep
            \/ ShutStep(Main)

Fairness ==
  /\ WF_vars(MainLoop)
  /\ \A c \in Child : WF_vars(ShutStep(c))
  /\ \A c \in Child, t \in Ticket : SF_vars(TakeSession(c, t))
  /\ \A th \in Thread, u \in User : SF_vars(UserTimeout(th, u))

FairSpec == Spec /\ Fairness

-----------------------------------------------------------------------------
(* Properties.                                                             *)

\* A user of a session is linked from it, and the other way round; this is
\* what fwd_user_detach asserts (fwd_user.c:818), and what keeps a freed user
\* from being reached through its session.
LinkedBack ==
  \A u \in User, t \in Ticket :
    user[u].sess = t <=> u \in {sess[t].user1, sess[t].user2}

\* The two places of a session never hold the same user (fwd_session.c:364),
\* and peers point at each other (fwd_user.c:222-223) inside one session.
PeersAgree ==
  /\ \A t \in Ticket : sess[t].user1 = sess[t].user2 => sess[t].user1 = None
  /\ \A u, v \in User :
       user[u].peer = v => user[v].peer = u /\ user[v].sess = user[u].sess
                           /\ user[u].sess # None

\* A session that waits for a child or is served by one, and is not being shut
\* down, has both users, each the other's peer (the assertions of
\* fwd_session.c:133, 278 and 296 and of fwd_user.c:425).
ServedComplete ==
  \A t \in wait \cup served : BeingShut(t) \/
    /\ sess[t].base # None /\ sess[t].user1 # None /\ sess[t].user2 # None
    /\ user[sess[t].user1].peer = sess[t].user2

\* Events and timers of a user and of its session are in the loop of the
\* thread that owns the session: no other thread runs their handlers, and the
\* cancel functions address the right epoll instance.
OwnLoop ==
  /\ \A u \in User : {user[u].evt, user[u].tmr} \subseteq {None, Owner(user[u])}
  /\ \A t \in Ticket :
       sess[t].tmr \in {None, IF sess[t].base # None THEN sess[t].base
                                                     ELSE Main}

\* dt_queue has one link per session: it is on at most one queue, and on none
\* when fwd_main_session_down inserts it.
QueuedOnce ==
  /\ down \cap wait = {} /\ down \cap served = {} /\ wait \cap served = {}
  /\ \A th \in Thread :
       shut[th].at = "down" => shut[th].sess \notin down \cup wait \cup served

\* An established user has no timer ("should delete user's timeout timer @
\* this status, a bug", fwd_user.c:572), and a session only has one in the main
\* thread while it is ready for its ticket.
TimersFit ==
  /\ \A u \in User : user[u].st = "EST" => user[u].tmr = None
  /\ \A t \in Ticket : sess[t].tmr = Main => sess[t].st = "INITED"

\* Whatever the client does, a connection that is not established is
\* established or freed at last.
UserResolved ==
  \A u \in User : user[u].st \notin {"FREE", "EST"}
                   ~> user[u].st \in {"FREE", "EST"}

\* A session that flushes its last bytes becomes ready for its ticket again.
CleanEnds == \A t \in Ticket : sess[t].st = "CLEAN" ~> sess[t].st # "CLEAN"

\* fwd_user.c:211 asserts of the user that is paired with a new one: it waits.
PeerIsWaiting ==
  bind.at = "pair" /\ NextUser(bind.sess, bind.user) # None
    => user[NextUser(bind.sess, bind.user)].st = "WATTING"

-----------------------------------------------------------------------------
(* The inductive invariant behind these, without Overlap.                  *)

\* A user that is not there or has shown no ticket has no session, one that is
\* in ST_AUTH has one only while it is bound or waits for a child with it; a
\* session with a user or a child is there, and only the users of a session
\* with a child have a peer.
LinkInv ==
  /\ \A u \in User :
       user[u].st \in {"FREE", "ACCEPTED"} => user[u].sess = None
  /\ \A u \in User :
       user[u].st = "AUTH" /\ ~(bind.at = "pair" /\ bind.user = u)
         => user[u].sess \in wait \cup {None}
  /\ \A t \in Ticket : sess[t].st = "NONE" =>
       sess[t].base = None /\ sess[t].user1 = None /\ sess[t].user2 = None
  /\ \A u \in User, t \in Ticket :
       user[u].sess = t /\ sess[t].base = None => user[u].peer = None

\* Main binds a user, which is in no batch and not in the session yet, or just
\* attached to it; nobody else has the session.
BindInv ==
  bind.at # "none" =>
    /\ bind.user \in User /\ bind.sess \in Ticket
    /\ shut[Main].at = "none" /\ phase = "events" /\ bind.user \notin ready
    /\ sess[bind.sess].st # "NONE" /\ sess[bind.sess].base = None
    /\ ~BeingShut(bind.sess)
    /\ user[bind.user].st = "AUTH"
    /\ bind.at = "attach" =>
         /\ user[bind.user].sess = None
         /\ sess[bind.sess].user1 = None \/ sess[bind.sess].user2 = None
    /\ bind.at = "pair" =>
         user[bind.user].sess = bind.sess /\ sess[bind.sess].tmr = None

\* A session is shut down by the thread that owns it, and by no other one at
\* the same time; its timer and users are gone when they were taken away.
ShutInv ==
  /\ \A th \in Thread : shut[th].at = "none" <=> shut[th].sess = None
  /\ \A th \in Thread, t \in Ticket : shut[th].sess = t =>
       /\ sess[t].st # "NONE" /\ t \notin down
       /\ sess[t].base = IF th = Main \/ shut[th].at = "down" THEN None ELSE th
       /\ shut[th].at # "user1" => sess[t].user1 = None /\ sess[t].tmr = None
       /\ shut[th].at \in {"clear", "detach", "down"} => sess[t].user2 = None
       /\ \A other \in Thread : shut[other].sess = t => other = th

\* A session has a child exactly while it is on one of the child's queues, and
\* the users of one that is served are established or flush their last bytes.
QueueInv ==
  /\ wait \cap served = {}
  /\ \A t \in Ticket : sess[t].base # None <=> t \in wait \cup served
  /\ \A u \in User : user[u].sess \in served => user[u].st \in {"EST", "CLEAN"}

\* A session that waits for its child has no events and no timers: nothing
\* happens to it before the child takes it.
WaitInv ==
  \A t \in wait :
    /\ sess[t].tmr = None
    /\ \A u \in User : user[u].sess = t => user[u].evt = None /\ user[u].tmr = None

\* A session that was put down has no timer, and if it has users they were
\* bound in this batch: neither their events nor their timers are looked at
\* before the session is taken back.
DownInv ==
  \A t \in down :
    /\ sess[t].st # "NONE" /\ sess[t].base = None /\ sess[t].tmr = None
    /\ \A u \in User : user[u].sess = t => phase # "timeouts" /\ u \notin ready

\* The whole invariant: without Overlap every step of Next preserves it.
IInv == /\ TypeOK /\ LinkInv /\ BindInv /\ ShutInv /\ QueueInv /\ WaitInv
        /\ DownInv /\ LinkedBack /\ PeersAgree /\ ServedComplete /\ OwnLoop
        /\ TimersFit

=============================================================================
