------------------------------ MODULE FwdRelay ------------------------------
(***************************************************************************)
(* The relay of a session: how the loop of a child moves bytes between the *)
(* sockets of two established users, fwd_user.c and fwd_sock.c on top of   *)
(* the buffers (FwdBuffer) and of the edge-triggered events (FwdEvent).    *)
(*                                                                         *)
(* What is read from a user is stored in the user's own buffer, and its    *)
(* peer's write event sends it.  A user whose buffer is full is no longer  *)
(* registered for reading until its peer has made room.  When one side     *)
(* ends, its unread bytes are copied to the peer's buffer, and the peer is *)
(* only flushed from then on.                                              *)
(*                                                                         *)
(* The specification starts where fwd_session_st_esablished ends.  Clients *)
(* (external) send, end, reset their connection and read at any time, also *)
(* between epoll_wait and the handlers of its batch.                       *)
(***************************************************************************)
EXTENDS FwdBuffer, FwdEvent

CONSTANTS User1, User2,  \* fwd_session.user1 and user2
          None,          \* the null pointer
          Size,          \* size of a user's buffer
          Request,       \* length of the register message, read before
          Early,         \* how much a user may send along with it
          OutSize,       \* room in the send queue of a socket
          Limit,         \* how many bytes a client sends at most
          Resetting      \* the users whose client may reset its connection

User == {User1, User2}

ASSUME UserAssumption == User1 # User2 /\ None \notin User
ASSUME SizeAssumption == Size \in Nat /\ Request \in Nat /\ Request + 1 < Size
ASSUME EarlyAssumption == Early \subseteq 0 .. Limit /\
                          \A e \in Early : Request + e <= Size
ASSUME OutAssumption == OutSize \in Nat \ {0} /\ Limit \in Nat
ASSUME ResetAssumption == Resetting \subseteq User

Peer == [u \in User |-> IF u = User1 THEN User2 ELSE User1]

\* The n-th byte of a client; <<u, 0>> is the response to the register
\* message, which travels to the peer of u through the buffer of u.
Byte == User \X (0 .. Limit)

VARIABLES
  st,      \* status of the session; "KILLED" when the process is gone
  flush,   \* the user in ST_CLEAN, or None
  pc,      \* where the loop is: "loop", or in a part of user_event_est
  loop,    \* the events of the child (FwdEvent)
  buf,     \* buffers of the users
  in,      \* receive queues of their sockets
  unread,  \* how much in the send queue of a socket its client has not read
  sent,    \* how many bytes a client has sent
  got,     \* what was sent to a client
  eof,     \* clients that have closed their side
  rst,     \* clients that have reset the connection
  fault    \* a connection was reset or a timeout fired (history)

client == <<sent, eof, rst>>
vars == <<st, flush, pc, loop, buf, in, unread, got, client, fault>>

TypeOK ==
  /\ st \in {"EST", "CLEAN", "DOWN", "KILLED"}
  /\ flush \in User \cup {None}
  /\ pc \in {"loop", "read", "write", "fail", "flush"}
  /\ loop \in Loop(User, None)
  /\ buf \in [User -> Buffer(Byte)]
  /\ \A u \in User : BufLeft(buf[u], Size) >= 0
  /\ in \in [User -> Seq(Byte)]
  /\ unread \in [User -> 0 .. OutSize]
  /\ sent \in [User -> 0 .. Limit]
  /\ got \in [User -> Seq(Byte)]
  /\ eof \subseteq User /\ rst \subseteq User
  /\ fault \in BOOLEAN

-----------------------------------------------------------------------------
(* Sockets.                                                                *)

\* The conditions of a socket that epoll can report.
Conditions(u) ==
  {c \in Condition : \/ c = "R" /\ (in[u] # <<>> \/ u \in eof \cup rst)
                     \/ c = "W" /\ (unread[u] < OutSize \/ u \in rst)
                     \/ c = "E" /\ u \in rst}

\* fwd_user_event_set and fwd_user_event_cancel in the loop of the child.
EventSet(e, u, f) == EventAdd(e, u, f, Conditions(u))
EventCancel(e, u) == EventDel(e, u, None)

\* The entry of the batch that is being handled.
Current == loop.batch[loop.cur]

-----------------------------------------------------------------------------

\* fwd_buffer_pack wants more room than the response takes.
Packs(e) == Request + e + 1 < Size

\* user_st_established of both users: each buffer holds what its user sent
\* early, then the response to the other, which is left out, and nobody
\* notices, when fwd_buffer_pack refuses it; both sockets can be written to.
Init ==
  /\ st = "EST" /\ flush = None /\ pc = "loop"
  /\ sent \in [User -> Early]
  /\ buf = [u \in User |->
              [trash |-> Request,
               data |-> [n \in 1 .. sent[u] + (IF Packs(sent[u]) THEN 1 ELSE 0)
                           |-> <<u, IF n <= sent[u] THEN n ELSE 0>>]]]
  /\ loop = [IdleLoop(User) EXCEPT !.flags = [u \in User |-> Flag],
                                   !.ready = User]
  /\ in = [u \in User |-> <<>>]
  /\ unread = [u \in User |-> 0]
  /\ got = [u \in User |-> <<>>]
  /\ eof = {} /\ rst = {} /\ fault = FALSE

\* fwd_session_shutdown as the loop sees it: both users are destroyed, their
\* sockets closed.
Shutdown(e) ==
  /\ st' = "DOWN" /\ flush' = None /\ pc' = "loop"
  /\ loop' = EventCancel(EventCancel(e, User1), User2)
  /\ buf' = [u \in User |-> EmptyBuffer]
  /\ in' = [u \in User |-> <<>>]

-----------------------------------------------------------------------------
(* The loop, fwd_event_handle_evt.                                         *)

EpollWait ==
  /\ st # "KILLED" /\ pc = "loop" /\ BatchDone(loop)
  /\ loop' \in Batches(loop, [u \in User |-> Conditions(u)])
  /\ UNCHANGED <<st, flush, pc, buf, in, unread, got, client, fault>>

\* An entry whose pointer was cleared is skipped.
EventSkip ==
  /\ st # "KILLED" /\ pc = "loop" /\ ~BatchDone(loop)
  /\ loop.batch[loop.cur + 1].fd = None
  /\ loop' = Advance(loop)
  /\ UNCHANGED <<st, flush, pc, buf, in, unread, got, client, fault>>

\* user_event_cb after EPOLLERR or EPOLLHUP, and user_event_error.
EventError ==
  LET x == loop.batch[loop.cur + 1] IN
  /\ st # "KILLED" /\ pc = "loop" /\ ~BatchDone(loop)
  /\ x.fd # None /\ "E" \in x.ev
  /\ Shutdown(EventCancel(Advance(loop), x.fd))
  /\ UNCHANGED <<unread, got, client, fault>>

\* user_event_cb: the handler of the user's status begins.
EventBegin ==
  LET x == loop.batch[loop.cur + 1] IN
  /\ st # "KILLED" /\ pc = "loop" /\ ~BatchDone(loop)
  /\ x.fd # None /\ "E" \notin x.ev
  /\ loop' = Advance(loop)
  /\ pc' = IF x.fd = flush THEN "flush"
           ELSE IF "R" \in x.ev THEN "read" ELSE "write"
  /\ UNCHANGED <<st, flush, buf, in, unread, got, client, fault>>

-----------------------------------------------------------------------------
(* user_event_est for the user of the current entry.                       *)

\* After reading, user_event_est goes on to write if it was told to.
AfterRead == pc' = IF "W" \in Current.ev THEN "write" ELSE "loop"

\* How much fwd_sock_read stores: recv is called until the buffer is full or
\* nothing more has arrived.
Readable(u) == Least(Len(in[u]), BufLeft(buf[u], Size))

\* The last recv found the queue empty.
RecvEmpty(u) == Readable(u) < BufLeft(buf[u], Size)

\* Variant: the end is only told when nothing was read before.
RecvEnds_Alone(u) == RecvEmpty(u) /\ in[u] = <<>> /\ u \in eof \cup rst

\* The last recv found the end of file or an error.
RecvEnds(u) == RecvEmpty(u) /\ u \in eof \cup rst

\* EPOLLIN is only reported when something has arrived or the client has ended,
\* and nobody else reads: that recv finds neither at first (EAGAIN) does not
\* happen in user_event_read, so it has no action.

\* user_event_read at the end of file or at an error: an error is returned
\* even when bytes were stored before.  A full buffer looks like the end, too:
\* recv is not called and 0 is returned.
ReadEnds ==
  LET u == Current.fd IN
  /\ pc = "read"
  /\ RecvEnds(u) \/ BufLeft(buf[u], Size) = 0
  /\ buf' = [buf EXCEPT ![u] = Stored(@, Front(in[u], Readable(u)))]
  /\ in' = [in EXCEPT ![u] = Rest(@, Readable(u))]
  /\ pc' = "fail"
  /\ UNCHANGED <<st, flush, loop, unread, got, client, fault>>

\* Variant: the peer is not asked to write.
EventsAfterRead_Alone(e, u, own, other) ==
  IF BufLeft(own, Size) > 0 THEN e
  ELSE IF BufLen(other) > 0 THEN EventSet(e, u, {"W"}) ELSE EventCancel(e, u)

\* The events after something was read into the buffer `own' of u: a user with
\* a full buffer is slowed down, and its peer is to write.
EventsAfterRead(e, u, own, other) ==
  LET full == BufLeft(own, Size) = 0
      e1 == IF ~full THEN e
            ELSE IF BufLen(other) > 0 THEN EventSet(e, u, {"W"})
                                      ELSE EventCancel(e, u)
  IN EventSet(e1, Peer[u], IF BufLeft(other, Size) = 0 THEN {"W"} ELSE Flag)

\* user_event_read when something was read.
ReadSome ==
  LET u == Current.fd
      own == Stored(buf[u], Front(in[u], Readable(u)))
  IN
  /\ pc = "read" /\ Readable(u) > 0 /\ ~RecvEnds(u)
  /\ buf' = [buf EXCEPT ![u] = own]
  /\ in' = [in EXCEPT ![u] = Rest(@, Readable(u))]
  /\ loop' = EventsAfterRead(loop, u, own, buf[Peer[u]])
  /\ AfterRead
  /\ UNCHANGED <<st, flush, unread, got, client, fault>>

\* How much of buffer b fwd_sock_send sends to u.
Writable(u, b) == Least(BufLen(b), OutSize - unread[u])

\* send to a connection that was reset: EPIPE, with a signal that nobody
\* handles, if the client had closed its side before, and an error otherwise.
SendKills(u, b) == BufLen(b) > 0 /\ u \in rst \cap eof
SendFails(u, b) == IF BufLen(b) > 0 /\ u \in rst THEN u \notin eof
                   ELSE Writable(u, b) = 0

\* Sending and what it does to the queue of the socket.
Send(u, b) ==
  /\ unread' = [unread EXCEPT ![u] = @ + Writable(u, b)]
  /\ got' = [got EXCEPT ![u] = @ \o Front(b.data, Writable(u, b))]

\* The process ends by SIGPIPE.
Killed == /\ st' = "KILLED" /\ pc' = "loop"
          /\ UNCHANGED <<flush, loop, buf, in, unread, got, client, fault>>

\* Variant: the buffer is cleared.
RefreshedIfFull_Clears(b) ==
  IF 4 * BufLeft(b, Size) <= Size THEN EmptyBuffer ELSE b

\* After sending, the unread bytes move to the front if little room is left: a
\* quarter of the size, whose `>> 2' in whole numbers is the same as here.
RefreshedIfFull(b) ==
  IF 4 * BufLeft(b, Size) <= Size THEN Refreshed(b) ELSE b

\* user_event_write when nothing could be sent.
WriteFails ==
  LET u == Current.fd  p == Peer[u] IN
  /\ pc = "write" /\ SendFails(u, buf[p])
  /\ buf' = [buf EXCEPT ![p] = RefreshedIfFull(@)]
  /\ pc' = "fail"
  /\ UNCHANGED <<st, flush, loop, in, unread, got, client, fault>>

WriteKills ==
  /\ pc = "write"
  /\ SendKills(Current.fd, buf[Peer[Current.fd]])
  /\ Killed

\* Variant: the peer is not asked to read again.
EventsAfterWrite_Alone(e, u, own, other) ==
  IF BufLen(other) > 0 THEN e
  ELSE IF BufLeft(own, Size) > 0 THEN EventSet(e, u, {"R"})
                                 ELSE EventCancel(e, u)

\* The events after the buffer `other' of the peer was sent to u: u has
\* nothing to write any more when it is empty, and the peer has room to read.
EventsAfterWrite(e, u, own, other) ==
  LET e1 == IF BufLen(other) > 0 THEN e
            ELSE IF BufLeft(own, Size) > 0 THEN EventSet(e, u, {"R"})
                                           ELSE EventCancel(e, u)
  IN EventSet(e1, Peer[u], IF BufLen(own) = 0 THEN {"R"} ELSE Flag)

\* user_event_write when something was sent.
WriteSome ==
  LET u == Current.fd  p == Peer[u]
      other == RefreshedIfFull(Drained(buf[p], Writable(u, buf[p])))
  IN
  /\ pc = "write" /\ ~SendFails(u, buf[p]) /\ ~SendKills(u, buf[p])
  /\ Send(u, buf[p])
  /\ buf' = [buf EXCEPT ![p] = other]
  /\ loop' = EventsAfterWrite(loop, u, buf[u], other)
  /\ pc' = "loop"
  /\ UNCHANGED <<st, flush, in, client, fault>>

\* Variant: without fwd_buffer_clear.
LastBuffer_Kept(own, other) == Stored(other, own.data)

\* The buffer of the peer, `other', is cleared and gets what is in `own'.
LastBuffer(own, other) == Stored(EmptyBuffer, own.data)

\* err_out of user_event_est: what the user sent last is copied into the
\* buffer of its peer, which is flushed from now on (user_st_clean).
FailFlush ==
  LET u == Current.fd  p == Peer[u]
      e == EventCancel(EventCancel(loop, u), p)
  IN
  /\ pc = "fail" /\ BufLen(buf[u]) > 0
  /\ st' = "CLEAN" /\ flush' = p /\ pc' = "loop"
  /\ buf' = [buf EXCEPT ![p] = LastBuffer(buf[u], @)]
  /\ loop' = EventSet(e, p, {"W"})
  /\ UNCHANGED <<in, unread, got, client, fault>>

\* err_out of user_event_est: there is nothing left of the user.
FailShutdown ==
  /\ pc = "fail" /\ BufLen(buf[Current.fd]) = 0
  /\ Shutdown(loop)
  /\ UNCHANGED <<unread, got, client, fault>>

-----------------------------------------------------------------------------
(* user_event_clean: the last bytes.                                       *)

FlushSome ==
  LET u == flush  b == Refreshed(Drained(buf[u], Writable(u, buf[u]))) IN
  /\ pc = "flush" /\ ~SendFails(u, buf[u]) /\ ~SendKills(u, buf[u])
  /\ Send(u, buf[u])
  /\ IF BufLen(b) > 0
     THEN /\ buf' = [buf EXCEPT ![u] = b]
          /\ pc' = "loop"
          /\ UNCHANGED <<st, flush, loop, in>>
     ELSE Shutdown(loop)
  /\ UNCHANGED <<client, fault>>

FlushFails ==
  /\ pc = "flush" /\ SendFails(flush, buf[flush])
  /\ Shutdown(loop)
  /\ UNCHANGED <<unread, got, client, fault>>

FlushKills ==
  /\ pc = "flush" /\ SendKills(flush, buf[flush])
  /\ Killed

\* sess_timeout_est after two minutes without traffic, sess_timeout_clean and
\* user_timeout_clean.
TimesOut ==
  /\ st \in {"EST", "CLEAN"} /\ pc = "loop" /\ BatchDone(loop)
  /\ Shutdown(loop)
  /\ fault' = TRUE
  /\ UNCHANGED <<unread, got, client>>

-----------------------------------------------------------------------------
(* Clients.                                                                *)

Alive(u) == st \in {"EST", "CLEAN"} /\ u \notin rst

ClientSends(u) ==
  /\ Alive(u) /\ u \notin eof /\ sent[u] < Limit
  /\ sent' = [sent EXCEPT ![u] = @ + 1]
  /\ in' = [in EXCEPT ![u] = Append(@, <<u, sent[u] + 1>>)]
  /\ loop' = Wake(loop, u, {"R"})
  /\ UNCHANGED <<st, flush, pc, buf, unread, got, eof, rst, fault>>

ClientEnds(u) ==
  /\ Alive(u) /\ u \notin eof
  /\ eof' = eof \cup {u}
  /\ loop' = Wake(loop, u, {"R"})
  /\ UNCHANGED <<st, flush, pc, buf, in, unread, got, sent, rst, fault>>

ClientResets(u) ==
  /\ Alive(u) /\ u \in Resetting
  /\ rst' = rst \cup {u} /\ fault' = TRUE
  /\ loop' = Wake(loop, u, Condition)
  /\ UNCHANGED <<st, flush, pc, buf, in, unread, got, sent, eof>>

\* Room in a send queue that was full is reported.
ClientReads(u) ==
  /\ Alive(u) /\ unread[u] > 0
  /\ unread' = [unread EXCEPT ![u] = @ - 1]
  /\ loop' = IF unread[u] = OutSize THEN Wake(loop, u, {"W"}) ELSE loop
  /\ UNCHANGED <<st, flush, pc, buf, in, got, client, fault>>

-----------------------------------------------------------------------------

Handler == \/ EventSkip \/ EventError \/ EventBegin
           \/ ReadEnds \/ ReadSome
           \/ WriteFails \/ WriteKills \/ WriteSome
           \/ FailFlush \/ FailShutdown
           \/ FlushSome \/ FlushFails \/ FlushKills

\* Nothing more happens once the process is gone.
Gone == st = "KILLED" /\ UNCHANGED vars

Next ==
  \/ EpollWait \/ Handler \/ TimesOut \/ Gone
  \/ \E u \in User : ClientSends(u) \/ ClientEnds(u) \/ ClientResets(u)
                     \/ ClientReads(u)

Spec == Init /\ [][Next]_vars

\* The loop goes on, and clients read what is sent to them.
Fairness == /\ WF_vars(EpollWait \/ Handler)
            /\ \A u \in User : WF_vars(ClientReads(u))

FairSpec == Spec /\ Fairness

-----------------------------------------------------------------------------
(* Properties.                                                             *)

\* The users whose bytes are still passed on, and what each of them has sent
\* and its peer was not given yet.
Served == CASE st = "EST" -> User
            [] st = "CLEAN" -> {Peer[flush]}
            [] OTHER -> {}

Flow == [u \in User |->
           CASE st = "EST" -> buf[u].data \o in[u]
             [] st = "CLEAN" /\ u # flush -> buf[flush].data
             [] OTHER -> <<>>]

Pipe == INSTANCE FwdPipe WITH served <- Served, gone <- eof \cup rst,
                              flow <- Flow

\* The relay is the pipe of FwdPipe: every byte is delivered once and in order,
\* and without a fault the session only goes down when the words of a user who
\* has ended are delivered.
IsPipe == Pipe!Spec

\* Between two handlers, an established user is registered for reading exactly
\* when its buffer has room, and for writing exactly when its peer's buffer has
\* something for it: what one handler does to the registration of both users
\* leaves neither of them out, nor asks for an event that the assertion of
\* fwd_user.c:300 or the end of user_event_write would not stand.
Wanted(u) == {f \in Flag : \/ f = "R" /\ BufLeft(buf[u], Size) > 0
                           \/ f = "W" /\ BufLen(buf[Peer[u]]) > 0}

RegisteredRight ==
  st = "EST" /\ pc = "loop" => \A u \in User : loop.flags[u] = Wanted(u)

\* The entries of the batch that are still to be handled; the current one is
\* until its handler ends.
Pending(i) == loop.cur < i \/ (loop.cur = i /\ pc # "loop")

\* Events are edge-triggered, so what is there and was not reported must be on
\* the ready list, or it is never reported: every condition that a user is
\* registered for is announced or about to be handled.
NoLostEdge ==
  st # "KILLED" =>
    \A u \in User : \A c \in Reported(loop, u, Conditions(u)) :
      \/ u \in loop.ready
      \/ \E i \in DOMAIN loop.batch :
           Pending(i) /\ loop.batch[i].fd = u /\ c \in loop.batch[i].ev

\* A handler may free both users while an event of one of them is further on
\* in the batch: what is left of the batch only has sockets that are still
\* registered.
NoStaleEntry ==
  \A i \in DOMAIN loop.batch :
    loop.cur < i /\ loop.batch[i].fd # None
      => st \in {"EST", "CLEAN", "KILLED"} /\ Registered(loop, loop.batch[i].fd)

-----------------------------------------------------------------------------
(* The invariant behind the safety properties.                             *)

\* What users send along with their register message does not fill their
\* buffer; otherwise they start registered for reading with no room.
RoomForAll == \A e \in Early : Request + e < Size

\* Where the loop is agrees with the status of the session.
Control ==
  /\ loop.cur <= Len(loop.batch)
  /\ st = "CLEAN" => flush \in User
  /\ st = "EST" => flush = None
  /\ pc # "loop" => /\ loop.cur \in DOMAIN loop.batch
                    /\ Current.fd \in User /\ "E" \notin Current.ev
  /\ pc \in {"read", "write", "fail"} => st = "EST"
  /\ pc = "read" => "R" \in Current.ev
  /\ pc = "write" => "W" \in Current.ev
  /\ pc = "flush" => st = "CLEAN" /\ Current.fd = flush /\ "W" \in Current.ev

\* What the users are registered for.
Registration ==
  /\ st = "EST" /\ pc # "fail" => \A u \in User : loop.flags[u] = Wanted(u)
  /\ st = "CLEAN" => /\ BufLen(buf[flush]) > 0
                     /\ loop.flags[flush] = {"W"}
                     /\ loop.flags[Peer[flush]] = {}
  /\ st = "DOWN" => \A u \in User : loop.flags[u] = {}

\* No socket is twice in a batch.
Distinct ==
  \A i, j \in DOMAIN loop.batch :
    i # j /\ loop.batch[i].fd = loop.batch[j].fd => loop.batch[i].fd = None

\* What was reported of u can still be done: a handler only adds room to the
\* buffer of its peer, and words to its own.
Doable(u, ev) ==
  /\ "E" \in ev => u \in rst
  /\ "W" \in ev => unread[u] < OutSize \/ u \in rst
  /\ st = "EST" /\ "W" \in ev => BufLen(buf[Peer[u]]) > 0
  /\ st = "EST" /\ "R" \in ev => BufLeft(buf[u], Size) > 0
  /\ st = "CLEAN" => u = flush /\ "R" \notin ev

Entries ==
  st # "KILLED" =>
    /\ \A i \in DOMAIN loop.batch :
         loop.cur < i /\ loop.batch[i].fd # None =>
           loop.batch[i].ev # {} /\ Doable(loop.batch[i].fd, loop.batch[i].ev)
    /\ pc = "read" => Doable(Current.fd, Current.ev)
    /\ pc \in {"write", "flush"} => Doable(Current.fd, {"W"})

\* A handler that fails has met an end: the words of its user are all read,
\* or there was a fault.
Ended ==
  /\ pc = "fail" => LET u == Current.fd IN
                    u \in eof \cup rst /\ (in[u] = <<>> \/ fault)
  /\ rst # {} => fault

Base == TypeOK /\ Control /\ Registration /\ Distinct /\ Entries
        /\ NoStaleEntry /\ Ended

\* What is left to do of entry i in its handler: a user that writes has done
\* its reading.
ToHandle(i, c) ==
  \/ loop.cur < i
  \/ loop.cur = i /\ pc \in {"read", "fail"}
  \/ loop.cur = i /\ pc \in {"write", "flush"} /\ c = "W"

\* NoLostEdge, also in the middle of a handler.
Told ==
  st # "KILLED" =>
    \A u \in User : \A c \in Reported(loop, u, Conditions(u)) :
      \/ u \in loop.ready
      \/ \E i \in DOMAIN loop.batch :
           ToHandle(i, c) /\ loop.batch[i].fd = u /\ c \in loop.batch[i].ev

IInv == Base /\ Told

-----------------------------------------------------------------------------
(* Liveness.                                                               *)

\* What a user sends reaches its peer, or the session ends.
Drains == \A u \in User : Flow[u] # <<>> ~> Flow[u] = <<>>

\* When one client closes its connection, the session ends.
EndIsSeen == \A u \in User : u \in eof ~> st \in {"DOWN", "KILLED"}

=============================================================================
