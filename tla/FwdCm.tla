------------------------------- MODULE FwdCm --------------------------------
(***************************************************************************)
(* The connection of the forward server to the connection manager,         *)
(* fwd_cm.c: connect, register, heartbeat, tickets, and what happens when  *)
(* the connection is lost.                                                 *)
(*                                                                         *)
(* The event of the connection (fwd_cm.event) keeps the number of a file   *)
(* descriptor and a flag `reg' of its own, which need not agree with what  *)
(* the epoll instance has: the number of a closed socket is given to the   *)
(* socket of a user, and epoll forgets a socket that is closed.  So both   *)
(* are modelled, and the owner of each number.                             *)
(*                                                                         *)
(* connect is never done at once: the socket is non-blocking, and TCP      *)
(* returns EINPROGRESS.  Messages are units; what has arrived fits into    *)
(* buf_in.  event.error is left out: it only differs from NO while the     *)
(* status is ERR, where nothing reads it.  Time is left out (FwdTimeout    *)
(* has it): a timer that is set may fire.  The end of the process          *)
(* (fwd_cm_stop) is left out.                                              *)
(***************************************************************************)
EXTENDS FwdBuffer, FiniteSets

CONSTANTS Num,       \* the numbers of file descriptors that are in use
          OutSize,   \* how many messages fit into buf_out
          SendRoom,  \* how many messages fit into the send queue
          MaxTicket  \* how many tickets wait in the receive queue at most

ASSUME NumAssumption == Num \subseteq Nat \ {0} /\ Num # {}
                        /\ IsFiniteSet(Num)
ASSUME RoomAssumption == {OutSize, SendRoom, MaxTicket} \subseteq Nat \ {0}

VARIABLES
  st,       \* fwd_cm.st; "KILLED" when the process is gone
  sock,     \* fwd_cm.sock.fd, 0 if closed
  ev,       \* fwd_cm.event (fd, reg, flags), what the epoll instance of the
            \* main loop has for it under each number (epoll), and whether
            \* the socket is on the ready list (ready)
  pend,     \* the event of the batch that is to be handled: its number, 0
            \* if there is none, and what was reported
  timer,    \* fwd_cm.timeout is pending
  out,      \* fwd_cm.buf_out
  owner,    \* who has each number: "free", "cm", a user whose socket is in
            \* the main loop's epoll ("main") or is not ("child")
  conn,     \* the connection as the kernel sees it
  tickets,  \* tickets in the receive queue
  queued,   \* messages in the send queue, not yet read by the manager
  first,    \* the first message that was sent on this connection (history)
  fired     \* the statuses other than EST in which a ticket has timed out
            \* since cm_st_err was run last (history)

net == <<conn, tickets, queued, first>>
vars == <<st, sock, ev, pend, timer, out, owner, net, fired>>

Flag == {"R", "W"}
Condition == Flag \cup {"E"}
Message == {"REG", "HEARTBEAT", "TICKET_NEW", "TICKET_FIRED"}

TypeOK ==
  /\ st \in {"INIT", "EST", "ERR", "KILLED"}
  /\ sock \in Num \cup {0}
  /\ ev \in [fd : Num, reg : BOOLEAN, flags : SUBSET Flag,
             epoll : [Num -> SUBSET Flag], ready : BOOLEAN]
  /\ pend \in [fd : Num \cup {0}, ev : SUBSET Condition]
  /\ timer \in BOOLEAN
  /\ out \in Buffer(Message) /\ BufLeft(out, OutSize) >= 0
  /\ owner \in [Num -> {"free", "cm", "main", "child"}]
  /\ conn \in {"none", "connecting", "failed", "up", "ended", "reset",
               "broken"}
  /\ tickets \in 0 .. MaxTicket /\ queued \in 0 .. SendRoom
  /\ first \in Message \cup {"none"}
  /\ fired \subseteq {"INIT", "ERR"}

-----------------------------------------------------------------------------
(* Events.                                                                 *)

\* The connection was refused or reset ("broken": after its end).
Broken == {"failed", "reset", "broken"}

NoEvent == [fd |-> 0, ev |-> {}]

\* epoll_ctl for the number in the event: EPOLL_CTL_MOD fails when the number
\* is not there, EPOLL_CTL_ADD when it is there already (a user of the main
\* loop has a registration of its own) or is not open.
CtlWorks(e, own) ==
  IF e.reg THEN e.epoll[e.fd] # {}
  ELSE own[e.fd] \in {"cm", "child"} /\ e.epoll[e.fd] = {}

\* fwd_event_add (fwd_main_event_set): nothing is done when the flags are the
\* same.  A socket that is armed anew is reported again.
EventSet(e, f, own) ==
  IF (e.reg /\ e.flags = f) \/ ~CtlWorks(e, own) THEN e
  ELSE [e EXCEPT !.reg = TRUE, !.flags = f, !.epoll[e.fd] = f,
                 !.ready = @ \/ own[e.fd] = "cm"]

\* Variant: reg is not reset.
EventDel_KeepsReg(e) == [e EXCEPT !.flags = {}, !.epoll[e.fd] = {},
                                  !.ready = @ /\ e.fd # sock]

\* fwd_event_del (fwd_main_event_cancel).
EventDel(e) ==
  IF ~e.reg THEN e
  ELSE [e EXCEPT !.reg = FALSE, !.flags = {}, !.epoll[e.fd] = {},
                 !.ready = @ /\ e.fd # sock]

\* The conditions of the socket of the connection.
Conditions ==
  CASE conn \in Broken -> Condition
    [] conn \in {"up", "ended"} ->
         {c \in Flag : \/ c = "R" /\ (tickets > 0 \/ conn = "ended")
                       \/ c = "W" /\ queued < SendRoom}
    [] OTHER -> {}

\* What epoll may report for number n: the conditions of the socket, if it is
\* on the ready list, or anything that happens to the socket of a user.
Reports(n) ==
  LET some == ev.epoll[n] \cup {"E"} IN
  IF ev.epoll[n] = {} THEN {}
  ELSE IF n = sock
  THEN IF ev.ready THEN {Conditions \cap some} \ {{}} ELSE {}
  ELSE SUBSET some \ {{}}

\* Conditions c come up at the socket of the connection.
Wake(c) ==
  ev' = [ev EXCEPT !.ready = @ \/ (sock # 0 /\ ev.epoll[sock] # {} /\
                                   c \cap (ev.epoll[sock] \cup {"E"}) # {})]

-----------------------------------------------------------------------------
(* Connecting.                                                             *)

Free == {n \in Num : owner[n] = "free"}

\* fwd_cm_setevent for the new socket n.
SetEvent(e, n, own) == EventSet([e EXCEPT !.fd = n, !.ready = FALSE], Flag, own)

\* fwd_cm_start: no user has a number yet.
Init ==
  /\ \E n \in Num :
       /\ \A m \in Num : n <= m
       /\ sock = n
       /\ owner = [m \in Num |-> IF m = n THEN "cm" ELSE "free"]
       /\ ev = SetEvent([fd |-> n, reg |-> FALSE, flags |-> {},
                         epoll |-> [m \in Num |-> {}], ready |-> FALSE],
                        n, owner)
  /\ st = "INIT" /\ timer = TRUE
  /\ pend = NoEvent /\ out = EmptyBuffer /\ fired = {}
  /\ conn = "connecting" /\ tickets = 0 /\ queued = 0 /\ first = "none"

\* No event is being handled: timers run before epoll_wait.
Idle == st # "KILLED" /\ pend = NoEvent

\* cm_timeout_err when fwd_cm_connect has a new socket, the lowest free number.
TimeoutErr ==
  /\ Idle /\ st = "ERR" /\ timer
  /\ \E n \in Free :
       /\ \A m \in Free : n <= m
       /\ st' = "INIT" /\ sock' = n /\ timer' = TRUE
       /\ owner' = [owner EXCEPT ![n] = "cm"]
       /\ ev' = SetEvent(ev, n, owner')
  /\ conn' = "connecting"
  /\ UNCHANGED <<pend, out, tickets, queued, first, fired>>

\* Variants: the timer is not set again; the new socket is not closed.
TimeoutErrFails_Once ==
  /\ Idle /\ st = "ERR" /\ timer /\ timer' = FALSE
  /\ UNCHANGED <<st, sock, ev, pend, out, owner, net, fired>>
TimeoutErrFails_Leaks ==
  /\ Idle /\ st = "ERR" /\ timer
  /\ \E n \in Free : owner' = [owner EXCEPT ![n] = "cm"]
  /\ UNCHANGED <<st, sock, ev, pend, timer, out, net, fired>>

\* cm_timeout_err when fwd_cm_connect fails: no number is free, the name is
\* not found, or connect fails at once.  The timer is set again.
TimeoutErrFails == Idle /\ st = "ERR" /\ timer /\ UNCHANGED vars

\* Variant: ST_CM_INIT has the handler of ST_CM_EST.
TimeoutInit_Beats ==
  /\ Idle /\ st = "INIT" /\ timer
  /\ out' = Stored(out, IF BufLen(out) = 0 THEN <<"HEARTBEAT">> ELSE <<>>)
  /\ UNCHANGED <<st, sock, ev, pend, timer, owner, net, fired>>

\* cm_timeout_run in ST_CM_INIT, which has no handler.
TimeoutInit ==
  /\ Idle /\ st = "INIT" /\ timer
  /\ timer' = FALSE
  /\ UNCHANGED <<st, sock, ev, pend, out, owner, net, fired>>

-----------------------------------------------------------------------------
(* Messages.                                                               *)

\* Variant: without a look at the room.
Packed_Blindly(b, m) == Stored(b, <<m>>)

\* fwd_buffer_pack, whose result the callers ignore.
Packed(b, m) == IF BufLeft(b, OutSize) > 0 THEN Stored(b, <<m>>) ELSE b

\* cm_timeout_est: a heartbeat.
TimeoutEst ==
  /\ Idle /\ st = "EST" /\ timer
  /\ out' = Packed(out, "HEARTBEAT")
  /\ ev' = EventSet(ev, Flag, owner)
  /\ UNCHANGED <<st, sock, pend, timer, owner, net, fired>>

\* fwd_cm_ticket_fired, by the timer of a session and in any status.
TicketFired ==
  /\ Idle
  /\ out' = Packed(out, "TICKET_FIRED")
  /\ ev' = EventSet(ev, Flag, owner)
  /\ fired' = fired \cup ({st} \ {"EST"})
  /\ UNCHANGED <<st, sock, pend, timer, owner, net>>

-----------------------------------------------------------------------------
(* cm_event_cb.                                                            *)

\* epoll_wait, for one number that it reports.
EpollReports(n) ==
  /\ Idle
  /\ \E c \in Reports(n) : pend' = [fd |-> n, ev |-> c]
  /\ ev' = [ev EXCEPT !.ready = @ /\ n # sock]
  /\ UNCHANGED <<st, sock, timer, out, owner, net, fired>>

EpollWait == \E n \in Num : EpollReports(n)

Handling == st # "KILLED" /\ pend # NoEvent

\* cm_st_err with the event e: the socket is closed, and a retry is due.
Lost(e) ==
  LET d == EventDel(e) IN
  /\ st' = "ERR" /\ sock' = 0 /\ timer' = TRUE
  /\ ev' = [d EXCEPT !.epoll = [n \in Num |-> IF n = sock THEN {} ELSE @[n]],
                     !.ready = FALSE]
  /\ owner' = [n \in Num |-> IF n = sock THEN "free" ELSE owner[n]]
  /\ pend' = NoEvent /\ out' = EmptyBuffer /\ fired' = {}
  /\ conn' = "none" /\ tickets' = 0 /\ queued' = 0 /\ first' = "none"

\* EPOLLERR or EPOLLHUP: fwd_event_handle_evt removes the event first.
EventError == Handling /\ "E" \in pend.ev /\ Lost(EventDel(ev))

\* An event in ST_CM_ERR: that of a user's socket.
EventInErr == Handling /\ "E" \notin pend.ev /\ st = "ERR" /\ Lost(ev)

\* cm_st_init when SO_ERROR tells that connect failed.
ConnectFails ==
  /\ Handling /\ "E" \notin pend.ev /\ st = "INIT"
  /\ conn \in Broken
  /\ Lost(ev)

\* What send takes of buffer b.
Sendable(b) ==
  IF conn \in {"up", "ended"} THEN Least(BufLen(b), SendRoom - queued) ELSE 0

\* Variant: the event is not set anew.
AfterSend_Same(e, left) == e

\* When all is sent, the event is set for reading alone.
AfterSend(e, left) ==
  IF BufLen(left) = 0 THEN EventSet(e, {"R"}, owner) ELSE e

\* cm_st_est for EPOLLOUT: EPOLLIN, if it was reported, is dropped.
EstWrites(e, b) ==
  LET k == Sendable(b)  left == Drained(b, k) IN
  /\ "W" \in pend.ev
  /\ BufLen(b) = 0 \/ conn \notin Broken
  /\ queued' = queued + k
  /\ first' = IF first = "none" /\ k > 0 THEN b.data[1] ELSE first
  /\ out' = IF BufLen(left) = 0 THEN Refreshed(left) ELSE left
  /\ ev' = AfterSend(e, left)
  /\ st' = "EST" /\ pend' = NoEvent
  /\ UNCHANGED <<sock, timer, owner, conn, tickets, fired>>

\* send fails: ECONNRESET, or EPIPE and the signal that ends the process.
EstWriteFails(e, b) ==
  /\ "W" \in pend.ev /\ BufLen(b) > 0 /\ conn \in {"failed", "reset"}
  /\ Lost(e)

EstWriteKills(e, b) ==
  /\ "W" \in pend.ev /\ BufLen(b) > 0 /\ conn = "broken"
  /\ st' = "KILLED"
  /\ UNCHANGED <<sock, ev, pend, timer, out, owner, net, fired>>

\* cm_handle_msg for each of the tickets: it is answered, if the answer fits.
Answered(b) ==
  LET n == Least(tickets, BufLeft(b, OutSize)) IN
  Stored(b, [i \in 1 .. n |-> "TICKET_NEW"])

\* cm_st_est for EPOLLIN: everything that has arrived is read and handled.
EstReads(e, b) ==
  /\ "W" \notin pend.ev /\ conn \in {"up", "connecting"}
  /\ out' = Answered(b)
  /\ ev' = IF tickets > 0 THEN EventSet(e, Flag, owner) ELSE e
  /\ tickets' = 0
  /\ st' = "EST" /\ pend' = NoEvent
  /\ UNCHANGED <<sock, timer, owner, conn, queued, first, fired>>

\* recv finds the end or an error behind the tickets, which are lost.
EstReadFails(e, b) ==
  /\ "W" \notin pend.ev /\ conn \notin {"up", "connecting"}
  /\ Lost(e)

\* cm_st_est, alone or behind cm_st_init, which packs the register message.
EventInEst ==
  LET e == IF st = "INIT" THEN EventSet(ev, Flag, owner) ELSE ev
      b == IF st = "INIT" THEN Packed(out, "REG") ELSE out
  IN
  /\ Handling /\ "E" \notin pend.ev
  /\ st = "EST" \/ (st = "INIT" /\ conn \notin Broken)
  /\ \/ EstWrites(e, b) \/ EstWriteFails(e, b) \/ EstWriteKills(e, b)
     \/ EstReads(e, b) \/ EstReadFails(e, b)

Callback == EventError \/ EventInErr \/ ConnectFails \/ EventInEst

-----------------------------------------------------------------------------
(* The connection manager and the network.                                 *)

ManagerAccepts ==
  /\ conn = "connecting" /\ conn' = "up" /\ Wake({"W"})
  /\ UNCHANGED <<tickets, queued>>

ManagerRefuses ==
  /\ conn = "connecting" /\ conn' = "failed" /\ Wake(Condition)
  /\ UNCHANGED <<tickets, queued>>

ManagerSends ==
  /\ conn = "up" /\ tickets < MaxTicket /\ tickets' = tickets + 1
  /\ Wake({"R"})
  /\ UNCHANGED <<conn, queued>>

ManagerReads ==
  /\ conn \in {"up", "ended"} /\ queued > 0 /\ queued' = queued - 1
  /\ IF queued = SendRoom THEN Wake({"W"}) ELSE UNCHANGED ev
  /\ UNCHANGED <<conn, tickets>>

ManagerEnds ==
  /\ conn = "up" /\ conn' = "ended" /\ Wake({"R"})
  /\ UNCHANGED <<tickets, queued>>

\* A reset after the end is an EPIPE to the next send.
ManagerResets ==
  /\ conn \in {"up", "ended"} /\ Wake(Condition)
  /\ conn' = IF conn = "up" THEN "reset" ELSE "broken"
  /\ UNCHANGED <<tickets, queued>>

Manager ==
  /\ st # "KILLED"
  /\ \/ ManagerAccepts \/ ManagerRefuses \/ ManagerSends \/ ManagerReads
     \/ ManagerEnds \/ ManagerResets
  /\ UNCHANGED <<st, sock, pend, timer, out, owner, first, fired>>

-----------------------------------------------------------------------------
(* The sockets of users.                                                   *)

\* A user is accepted, with the lowest free number.
UserTakes(n) ==
  /\ n \in Free /\ \A m \in Free : n <= m
  /\ owner' = [owner EXCEPT ![n] = "main"]
  /\ UNCHANGED ev

\* It is handed to a child.
UserMoves(n) ==
  /\ owner[n] = "main" /\ owner' = [owner EXCEPT ![n] = "child"]
  /\ UNCHANGED ev

\* Its socket is closed: epoll forgets it.
UserLeaves(n) ==
  /\ owner[n] \in {"main", "child"}
  /\ owner' = [owner EXCEPT ![n] = "free"]
  /\ ev' = [ev EXCEPT !.epoll[n] = {}]

Users ==
  /\ st # "KILLED"
  /\ \E n \in Num : UserTakes(n) \/ UserMoves(n) \/ UserLeaves(n)
  /\ UNCHANGED <<st, sock, pend, timer, out, net, fired>>

-----------------------------------------------------------------------------

Loop == EpollWait \/ Callback

Gone == st = "KILLED" /\ UNCHANGED vars

Next ==
  \/ Loop \/ TimeoutErr \/ TimeoutErrFails \/ TimeoutInit \/ TimeoutEst
  \/ TicketFired \/ Manager \/ Users \/ Gone

Spec == Init /\ [][Next]_vars

\* The loop of the main thread goes on, the manager reads what it is sent, and
\* heartbeats and fired tickets, some seconds apart, do not come in every round
\* of the loop: it gets to epoll_wait when everything is sent.  epoll_wait
\* reports everything that is ready, the connection among it.
FairSpec == /\ Spec
            /\ WF_vars(Loop)
            /\ WF_vars(ManagerReads /\ Manager)
            /\ SF_vars(sock # 0 /\ BufLen(out) = 0 /\ EpollReports(sock))

-----------------------------------------------------------------------------
(* Properties.                                                             *)

\* A connection that is being made or is there is watched for reading, and for
\* writing when there is something to send or the register message is due.
\* That is so unless a ticket timed out while there was no connection: the
\* event of that moment stays with a number that is not the connection's.
Watched ==
  st \in {"INIT", "EST"} /\ pend = NoEvent /\ "ERR" \notin fired =>
    ev.epoll[sock] = IF st = "INIT" \/ BufLen(out) > 0 THEN Flag ELSE {"R"}

\* The manager is sent the register message first, unless a ticket timed out
\* before it was packed.
RegFirst == fired = {} => first \in {"none", "REG"}

\* A lost connection is made again: whatever happens while there is none, also
\* events of users' sockets that are taken for its own, a retry is due.
RetryPending == st = "ERR" => timer /\ sock = 0 /\ conn = "none"

\* The socket of the connection is its own: nobody else was given its number
\* while fwd_cm.sock holds it.
OwnSocket == \A n \in Num : owner[n] = "cm" <=> n = sock

\* Edge-triggered EPOLLIN is dropped when EPOLLOUT comes with it; the tickets
\* are still taken, or lost with the connection.
TicketsTaken ==
  tickets > 0 /\ "ERR" \notin fired
    ~> tickets = 0 \/ "ERR" \in fired \/ st = "KILLED"

-----------------------------------------------------------------------------
(* The inductive invariant behind these.                                   *)

\* epoll has nothing for a number that is free.  Unless a ticket timed out
\* while there was no connection, the event is not registered then, and while
\* there is one it is the connection's, and epoll agrees with its flags, also
\* in the middle of a batch.
EventInv ==
  /\ \A n \in Num : owner[n] = "free" => ev.epoll[n] = {}
  /\ st \in {"INIT", "EST"} => sock # 0
  /\ "ERR" \notin fired =>
       /\ st = "ERR" => ~ev.reg
       /\ st \in {"INIT", "EST"} =>
            /\ ev.reg /\ ev.fd = sock /\ ev.epoll[sock] = ev.flags
            /\ ev.flags = IF st = "INIT" \/ BufLen(out) > 0 THEN Flag ELSE {"R"}

\* A buffer without unread messages has its whole room, so that something is to
\* be sent whenever something was packed.  Unless a ticket timed out before
\* it, the register message is the first one of a connection.
OutInv ==
  /\ BufLen(out) = 0 => out.trash = 0
  /\ fired = {} =>
       /\ st \in {"INIT", "ERR"} => BufLen(out) = 0 /\ first = "none"
       /\ st = "EST" /\ first = "none" =>
            BufLen(out) > 0 /\ out.data[1] = "REG"

\* The whole invariant, which every step of Next preserves.
IInv == TypeOK /\ EventInv /\ OutInv /\ RegFirst /\ RetryPending /\ OwnSocket

=============================================================================
