---------------------------- MODULE FwdCmProofs -----------------------------
(***************************************************************************)
(* Proofs about FwdCm: its safety invariants hold for any numbers of file  *)
(* descriptors, buffers and queues.                                        *)
(***************************************************************************)
EXTENDS FwdCm, SequenceTheorems, TLAPS

-----------------------------------------------------------------------------
(* Types.                                                                  *)

EventRecord == [fd : Num, reg : BOOLEAN, flags : SUBSET Flag,
                epoll : [Num -> SUBSET Flag], ready : BOOLEAN]
Owners == [Num -> {"free", "cm", "main", "child"}]
OutBuffer == {b \in Buffer(Message) : BufLeft(b, OutSize) >= 0}

\* 0 is no number, and the rooms are numbers greater than 0.
LEMMA Numbers ==
  /\ 0 \notin Num
  /\ OutSize \in Nat /\ OutSize > 0
  /\ SendRoom \in Nat /\ SendRoom > 0
  /\ MaxTicket \in Nat /\ MaxTicket > 0
  BY NumAssumption, RoomAssumption

\* What TypeOK says of the variables that are records.
LEMMA TypeFacts ==
  ASSUME TypeOK
  PROVE  /\ ev \in EventRecord /\ owner \in Owners /\ out \in OutBuffer
         /\ ev.fd \in Num /\ ev.epoll \in [Num -> SUBSET Flag]
  BY DEF TypeOK, EventRecord, Owners, OutBuffer

-----------------------------------------------------------------------------
(* Events.                                                                 *)

\* fwd_event_add keeps the number, and only registers sockets that are open.
LEMMA EventSetProps ==
  ASSUME NEW e \in EventRecord, NEW f \in {Flag, {"R"}}, NEW own \in Owners
  PROVE  LET d == EventSet(e, f, own) IN
         /\ d \in EventRecord /\ d.fd = e.fd
         /\ \A n \in Num : own[n] = "free" /\ e.epoll[n] = {} => d.epoll[n] = {}
         /\ e.reg /\ e.flags = f => d = e
         /\ e.reg /\ e.epoll[e.fd] = e.flags /\ e.flags # {} =>
              d.reg /\ d.flags = f /\ d.epoll[e.fd] = f
         /\ ~e.reg /\ own[e.fd] = "cm" /\ e.epoll[e.fd] = {} =>
              d.reg /\ d.flags = f /\ d.epoll[e.fd] = f
<1> DEFINE d == EventSet(e, f, own)
           g == [e EXCEPT !.reg = TRUE, !.flags = f, !.epoll[e.fd] = f,
                          !.ready = e.ready \/ own[e.fd] = "cm"]
<1>1. /\ e.fd \in Num /\ e.epoll \in [Num -> SUBSET Flag] /\ e.reg \in BOOLEAN
      /\ f \subseteq Flag /\ f # {}
  BY DEF EventRecord, Flag
<1>2. /\ g \in EventRecord /\ g.fd = e.fd /\ g.reg = TRUE /\ g.flags = f
      /\ g.epoll = [e.epoll EXCEPT ![e.fd] = f]
  BY <1>1 DEF EventRecord
<1>3. d = IF (e.reg /\ e.flags = f) \/ ~CtlWorks(e, own) THEN e ELSE g
  BY DEF EventSet
<1> HIDE DEF g, d
<1>4. /\ d \in EventRecord /\ d.fd = e.fd
      /\ e.reg /\ e.flags = f => d = e
  BY <1>2, <1>3
<1>5. ASSUME NEW n \in Num, own[n] = "free", e.epoll[n] = {}
      PROVE  d.epoll[n] = {}
  BY <1>1, <1>2, <1>3, <1>5 DEF CtlWorks
<1>6. ASSUME e.reg, e.epoll[e.fd] = e.flags, e.flags # {}
      PROVE  d.reg /\ d.flags = f /\ d.epoll[e.fd] = f
  BY <1>1, <1>2, <1>3, <1>6 DEF CtlWorks
<1>7. ASSUME ~e.reg, own[e.fd] = "cm", e.epoll[e.fd] = {}
      PROVE  d.reg /\ d.flags = f /\ d.epoll[e.fd] = f
  BY <1>1, <1>2, <1>3, <1>7 DEF CtlWorks
<1>8. QED
  BY <1>4, <1>5, <1>6, <1>7 DEF d

\* The same for reading alone.
LEMMA SetReadProps ==
  ASSUME NEW e \in EventRecord, NEW own \in Owners
  PROVE  LET d == EventSet(e, {"R"}, own) IN
         /\ d.fd = e.fd
         /\ e.reg /\ e.epoll[e.fd] = e.flags /\ e.flags # {} =>
              d.reg /\ d.flags = {"R"} /\ d.epoll[e.fd] = {"R"}
<1>1. {"R"} \in {Flag, {"R"}}
  OBVIOUS
<1>2. QED
  BY <1>1, EventSetProps, Zenon

\* fwd_event_del leaves the event without a registration.
LEMMA EventDelProps ==
  ASSUME NEW e \in EventRecord
  PROVE  LET d == EventDel(e) IN
         /\ d \in EventRecord /\ d.reg = FALSE
         /\ \A n \in Num : e.epoll[n] = {} => d.epoll[n] = {}
<1> DEFINE g == [e EXCEPT !.reg = FALSE, !.flags = {}, !.epoll[e.fd] = {},
                          !.ready = e.ready /\ e.fd # sock]
<1>1. e.fd \in Num /\ e.epoll \in [Num -> SUBSET Flag] /\ e.reg \in BOOLEAN
  BY DEF EventRecord
<1>2. /\ g \in EventRecord /\ g.reg = FALSE
      /\ g.epoll = [e.epoll EXCEPT ![e.fd] = {}]
  BY <1>1 DEF EventRecord
<1>3. EventDel(e) = IF ~e.reg THEN e ELSE g
  BY DEF EventDel
<1> HIDE DEF g
<1>4. QED
  BY <1>1, <1>2, <1>3

\* Only ready changes when conditions come up.
LEMMA WakeProps ==
  ASSUME ev \in EventRecord, NEW c, Wake(c)
  PROVE  /\ ev' \in EventRecord /\ ev'.fd = ev.fd /\ ev'.reg = ev.reg
         /\ ev'.flags = ev.flags /\ ev'.epoll = ev.epoll
  BY DEF Wake, EventRecord

-----------------------------------------------------------------------------
(* Buffers.                                                                *)

\* Messages are stored behind those that are there.
LEMMA StoredProps ==
  ASSUME NEW b \in OutBuffer, NEW s \in Seq(Message),
         Len(s) <= BufLeft(b, OutSize)
  PROVE  LET d == Stored(b, s) IN
         /\ d \in OutBuffer /\ d.trash = b.trash
         /\ BufLen(d) = BufLen(b) + Len(s)
         /\ BufLen(b) > 0 => d.data[1] = b.data[1]
         /\ BufLen(b) = 0 /\ Len(s) > 0 => d.data[1] = s[1]
<1>1. /\ b.trash \in Nat /\ b.data \in Seq(Message) /\ Len(b.data) \in Nat
      /\ Len(s) \in Nat /\ b \in [trash : Nat, data : Seq(Message)]
  BY LenProperties DEF OutBuffer, Buffer
<1>2. /\ b.data \o s \in Seq(Message)
      /\ Len(b.data \o s) = Len(b.data) + Len(s)
      /\ Len(b.data) > 0 => (b.data \o s)[1] = b.data[1]
      /\ Len(b.data) = 0 /\ Len(s) > 0 => (b.data \o s)[1] = s[1]
  BY <1>1, ConcatProperties
<1>3. ASSUME NEW x \in Seq(Message)
      PROVE  LET d == [b EXCEPT !.data = x] IN
             d.trash = b.trash /\ d.data = x /\ d \in Buffer(Message)
  BY <1>1 DEF Buffer
<1>4. /\ Stored(b, s).trash = b.trash /\ Stored(b, s).data = b.data \o s
      /\ Stored(b, s) \in Buffer(Message)
  <2>1. PICK x : x = b.data \o s
    OBVIOUS
  <2>2. Stored(b, s) = [b EXCEPT !.data = x] /\ x \in Seq(Message)
    BY <1>2, <2>1 DEF Stored
  <2>3. QED
    BY <1>3, <2>1, <2>2
<1>5. BufLeft(Stored(b, s), OutSize) >= 0
  <2>1. BufLeft(b, OutSize) = OutSize - b.trash - Len(b.data)
    BY DEF BufLeft
  <2>2. BufLeft(Stored(b, s), OutSize) = OutSize - b.trash - Len(b.data \o s)
    BY <1>4 DEF BufLeft
  <2>3. QED
    BY <1>1, <1>2, <2>1, <2>2, Numbers
<1>6. QED
  BY <1>1, <1>2, <1>4, <1>5 DEF OutBuffer, BufLen

\* A packed message leaves something to be sent, whether it fits or not.
LEMMA PackedProps ==
  ASSUME NEW b \in OutBuffer, BufLen(b) = 0 => b.trash = 0,
         NEW m \in Message
  PROVE  LET d == Packed(b, m) IN
         /\ d \in OutBuffer /\ BufLen(d) > 0
         /\ BufLen(b) > 0 => d.data[1] = b.data[1]
         /\ BufLen(b) = 0 => d.data[1] = m
<1>1. /\ <<m>> \in Seq(Message) /\ Len(<<m>>) = 1 /\ <<m>>[1] = m
      /\ b.trash \in Nat /\ Len(b.data) \in Nat
      /\ BufLeft(b, OutSize) = OutSize - b.trash - Len(b.data)
  BY LenProperties DEF OutBuffer, Buffer, BufLeft
<1>2. CASE BufLeft(b, OutSize) > 0
  <2>1. PICK s : s = <<m>>
    OBVIOUS
  <2>2. Packed(b, m) = Stored(b, s)
    BY <1>2, <2>1 DEF Packed
  <2>3. s \in Seq(Message) /\ Len(s) = 1 /\ s[1] = m
    BY <1>1, <2>1
  <2>4. Len(s) <= BufLeft(b, OutSize)
    BY <1>1, <1>2, <2>3, Numbers
  <2>5. BufLen(b) \in Nat
    BY <1>1 DEF BufLen
  <2>6. /\ Stored(b, s) \in OutBuffer
        /\ BufLen(Stored(b, s)) = BufLen(b) + Len(s)
        /\ BufLen(b) > 0 => Stored(b, s).data[1] = b.data[1]
        /\ BufLen(b) = 0 /\ Len(s) > 0 => Stored(b, s).data[1] = s[1]
    BY <2>3, <2>4, StoredProps, Zenon
  <2>7. QED
    BY <2>2, <2>3, <2>5, <2>6
<1>3. CASE ~(BufLeft(b, OutSize) > 0)
  <2>1. Packed(b, m) = b
    BY <1>3 DEF Packed
  <2>2. BufLen(b) > 0
    BY <1>1, <1>3, Numbers DEF BufLen
  <2>3. QED
    BY <2>1, <2>2
<1>4. QED
  BY <1>2, <1>3

\* So do the answers to the tickets, if there are any.
LEMMA AnsweredProps ==
  ASSUME NEW b \in OutBuffer, BufLen(b) = 0 => b.trash = 0,
         tickets \in Nat
  PROVE  LET d == Answered(b) IN
         /\ d \in OutBuffer /\ d.trash = b.trash
         /\ tickets > 0 => BufLen(d) > 0
         /\ tickets = 0 => BufLen(d) = BufLen(b)
         /\ BufLen(b) > 0 => BufLen(d) > 0 /\ d.data[1] = b.data[1]
<1> DEFINE n == Least(tickets, BufLeft(b, OutSize))
           s == [i \in 1 .. n |-> "TICKET_NEW"]
<1>1. /\ b.trash \in Nat /\ Len(b.data) \in Nat
      /\ BufLeft(b, OutSize) = OutSize - b.trash - Len(b.data)
      /\ BufLeft(b, OutSize) >= 0
  BY LenProperties DEF OutBuffer, Buffer, BufLeft
<1>2. /\ n \in Nat /\ n <= BufLeft(b, OutSize)
      /\ tickets = 0 => n = 0
      /\ tickets > 0 => n > 0 \/ BufLen(b) > 0
  BY <1>1, Numbers DEF Least, BufLen
<1> HIDE DEF n
<1>3. s \in Seq(Message) /\ Len(s) = n
  BY <1>2 DEF Message
<1>4. Answered(b) = Stored(b, s)
  BY DEF Answered, n
<1> HIDE DEF s
<1>5. QED
  BY <1>1, <1>2, <1>3, <1>4, StoredProps DEF BufLen

\* What is left when k messages are sent.
LEMMA SentProps ==
  ASSUME NEW b \in OutBuffer, BufLen(b) = 0 => b.trash = 0,
         queued \in 0 .. SendRoom
  PROVE  LET k == Sendable(b)  left == Drained(b, k)
             d == IF BufLen(left) = 0 THEN Refreshed(left) ELSE left IN
         /\ k \in Nat /\ k <= BufLen(b) /\ queued + k \in 0 .. SendRoom
         /\ d \in OutBuffer /\ BufLen(d) = BufLen(left)
         /\ BufLen(d) = 0 => d.trash = 0
         /\ BufLen(left) > 0 => BufLen(b) > 0
         /\ k = 0 => BufLen(left) = BufLen(b) /\ left.data = b.data
                     /\ d.data = b.data
<1> DEFINE k == Sendable(b)  left == Drained(b, k)
<1>1. /\ b.trash \in Nat /\ Len(b.data) \in Nat /\ b.data \in Seq(Message)
      /\ BufLeft(b, OutSize) = OutSize - b.trash - Len(b.data)
      /\ BufLeft(b, OutSize) >= 0 /\ BufLen(b) = Len(b.data)
  BY LenProperties DEF OutBuffer, Buffer, BufLeft, BufLen
<1>2. k \in Nat /\ k <= Len(b.data) /\ queued + k \in 0 .. SendRoom
  BY <1>1, Numbers DEF Sendable, Least
<1> HIDE DEF k
<1>3. /\ Rest(b.data, k) \in Seq(Message)
      /\ Len(Rest(b.data, k)) = Len(b.data) - k
      /\ k = 0 => Rest(b.data, k) = b.data
  <2>1. \A i \in k + 1 .. Len(b.data) : b.data[i] \in Message
    BY <1>1, <1>2, ElementOfSeq
  <2>2. /\ Rest(b.data, k) \in Seq(Message)
        /\ Len(Rest(b.data, k)) = Len(b.data) - k
    BY <1>1, <1>2, <2>1, SubSeqProperties DEF Rest
  <2>3. k = 0 => Rest(b.data, k) = b.data
    BY <1>1, SubSeqFull DEF Rest
  <2>4. QED
    BY <2>2, <2>3
<1>4. /\ left = [trash |-> b.trash + k, data |-> Rest(b.data, k)]
      /\ left.trash = b.trash + k /\ left.data = Rest(b.data, k)
      /\ BufLen(left) = Len(b.data) - k
  BY <1>3 DEF Drained, BufLen
<1>5. /\ Refreshed(left) = [trash |-> 0, data |-> Rest(b.data, k)]
      /\ Refreshed(left).trash = 0
      /\ Refreshed(left).data = Rest(b.data, k)
  BY <1>4 DEF Refreshed
<1> HIDE DEF left
<1>6. left \in OutBuffer /\ Refreshed(left) \in OutBuffer
  BY SMTT(20), <1>1, <1>2, <1>3, <1>4, <1>5, Numbers DEF OutBuffer, Buffer, BufLeft
<1>7. BufLen(Refreshed(left)) = BufLen(left)
  BY <1>4, <1>5 DEF BufLen
<1>8. QED
  BY <1>1, <1>2, <1>3, <1>4, <1>5, <1>6, <1>7 DEF k, left

-----------------------------------------------------------------------------
(* The loss of the connection.                                             *)

\* cm_st_err: whatever the state was, the next connection starts from scratch.
LEMMA LostStep ==
  ASSUME IInv, NEW e \in EventRecord,
         \A n \in Num : owner[n] = "free" => e.epoll[n] = {}, Lost(e)
  PROVE  IInv'
<1> USE DEF IInv
<1> DEFINE d == EventDel(e)
           g == [n \in Num |-> IF n = sock THEN {} ELSE d.epoll[n]]
<1>1. /\ st' = "ERR" /\ sock' = 0 /\ timer' = TRUE /\ pend' = NoEvent
      /\ out' = EmptyBuffer /\ fired' = {} /\ conn' = "none"
      /\ tickets' = 0 /\ queued' = 0 /\ first' = "none"
      /\ owner' = [n \in Num |-> IF n = sock THEN "free" ELSE owner[n]]
      /\ ev' = [d EXCEPT !.epoll = g, !.ready = FALSE]
  BY DEF Lost
<1>2. /\ d \in EventRecord /\ d.reg = FALSE
      /\ \A n \in Num : owner[n] = "free" => d.epoll[n] = {}
  BY EventDelProps
<1> HIDE DEF d
<1>3. g \in [Num -> SUBSET Flag]
      /\ \A n \in Num : n = sock \/ owner[n] = "free" => g[n] = {}
  BY <1>2 DEF EventRecord
<1> HIDE DEF g
<1>4. ev' \in EventRecord /\ ev'.reg = FALSE /\ ev'.epoll = g
  BY <1>1, <1>2, <1>3 DEF EventRecord
<1>5. owner' \in Owners
  BY <1>1, TypeFacts DEF Owners
<1>6. /\ out' \in OutBuffer /\ out'.data = <<>> /\ out'.trash = 0
      /\ BufLen(out') = 0
  <2>1. <<>> \in Seq(Message) /\ Len(<<>>) = 0
    OBVIOUS
  <2>2. QED
    BY <1>1, <2>1, Numbers
       DEF EmptyBuffer, OutBuffer, Buffer, BufLeft, BufLen
<1>7. TypeOK'
  BY <1>1, <1>4, <1>5, <1>6, Numbers
     DEF TypeOK, EventRecord, Owners, OutBuffer, NoEvent
<1>8. EventInv'
  BY <1>1, <1>3, <1>4 DEF EventInv
<1>9. OutInv'
  BY <1>1, <1>6 DEF OutInv
<1>10. RegFirst' /\ RetryPending'
  BY <1>1 DEF RegFirst, RetryPending
<1>11. OwnSocket'
  BY <1>1, Numbers DEF OwnSocket
<1>12. QED
  BY <1>7, <1>8, <1>9, <1>10, <1>11

\* The event itself is one that may be lost.
LEMMA LostHere ==
  ASSUME IInv, Lost(ev)
  PROVE  IInv'
  BY LostStep, TypeFacts DEF IInv, EventInv

\* EPOLLERR or EPOLLHUP.
LEMMA EventErrorStep ==
  ASSUME IInv, EventError
  PROVE  IInv'
<1>1. /\ EventDel(ev) \in EventRecord
      /\ \A n \in Num : owner[n] = "free" => EventDel(ev).epoll[n] = {}
  BY EventDelProps, TypeFacts DEF IInv, EventInv
<1>2. QED
  BY <1>1, LostStep DEF EventError

-----------------------------------------------------------------------------
(* Timers.                                                                 *)

\* A new connection: the event is registered for it, unless a ticket timed out
\* before.
LEMMA TimeoutErrStep ==
  ASSUME IInv, TimeoutErr
  PROVE  IInv'
<1> USE DEF IInv
<1>1. PICK n \in Free :
        /\ st' = "INIT" /\ sock' = n /\ timer' = TRUE
        /\ owner' = [owner EXCEPT ![n] = "cm"]
        /\ ev' = SetEvent(ev, n, owner')
  BY DEF TimeoutErr
<1>2. /\ st = "ERR" /\ timer /\ conn' = "connecting"
      /\ UNCHANGED <<pend, out, tickets, queued, first, fired>>
  BY DEF TimeoutErr
<1>3. n \in Num /\ n # 0 /\ owner[n] = "free" /\ ev.epoll[n] = {}
  BY Numbers DEF Free, EventInv
<1>4. owner' \in Owners /\ owner'[n] = "cm"
      /\ \A m \in Num \ {n} : owner'[m] = owner[m]
  BY <1>1, <1>3, TypeFacts DEF Owners
<1> DEFINE e == [ev EXCEPT !.fd = n, !.ready = FALSE]
<1>5. /\ e \in EventRecord /\ e.fd = n /\ e.reg = ev.reg
      /\ e.epoll = ev.epoll
  BY <1>3, TypeFacts DEF EventRecord
<1>6. ev' = EventSet(e, Flag, owner')
  BY <1>1 DEF SetEvent
<1> HIDE DEF e
<1>7. /\ ev' \in EventRecord /\ ev'.fd = n
      /\ \A m \in Num : owner'[m] = "free" => ev'.epoll[m] = {}
  <2>1. \A m \in Num : owner'[m] = "free" => e.epoll[m] = {}
    BY <1>4, <1>5 DEF EventInv
  <2>2. Flag # {}
    BY DEF Flag
  <2>3. QED
    BY SMTT(20), <1>4, <1>5, <1>6, <2>1, <2>2, EventSetProps
<1>8. "ERR" \notin fired => ev'.reg /\ ev'.flags = Flag /\ ev'.epoll[n] = Flag
  <2>1. Flag # {}
    BY DEF Flag
  <2>2. "ERR" \notin fired => ~e.reg
    BY <1>2, <1>5 DEF EventInv
  <2>3. e.epoll[e.fd] = {} /\ owner'[e.fd] = "cm"
    BY <1>3, <1>4, <1>5
  <2>4. QED
    BY <1>4, <1>5, <1>6, <2>1, <2>2, <2>3, EventSetProps
<1>9. TypeOK'
  BY <1>1, <1>2, <1>3, <1>4, <1>7 DEF TypeOK, EventRecord, Owners, OutBuffer
<1>10. EventInv'
  BY <1>1, <1>2, <1>3, <1>7, <1>8 DEF EventInv
<1>11. OutInv' /\ RegFirst' /\ RetryPending'
  BY <1>1, <1>2 DEF OutInv, RegFirst, RetryPending
<1>12. OwnSocket'
  BY <1>1, <1>2, <1>3, <1>4, Numbers DEF OwnSocket, RetryPending
<1>13. QED
  BY <1>9, <1>10, <1>11, <1>12

\* cm_timeout_run in ST_CM_INIT.
LEMMA TimeoutInitStep ==
  ASSUME IInv, TimeoutInit
  PROVE  IInv'
<1>1. /\ st = "INIT" /\ timer' = FALSE
      /\ UNCHANGED <<st, sock, ev, pend, out, owner, conn, tickets, queued,
                     first, fired>>
  BY DEF TimeoutInit, net
<1>2. QED
  BY <1>1
     DEF IInv, TypeOK, EventInv, OutInv, RegFirst, RetryPending, OwnSocket

\* A message is packed, and the event set: heartbeats and fired tickets.
LEMMA PackStep ==
  ASSUME IInv, st # "KILLED", NEW m \in Message, out' = Packed(out, m),
         ev' = EventSet(ev, Flag, owner),
         \/ st = "EST" /\ fired' = fired
         \/ fired' = fired \cup ({st} \ {"EST"}),
         UNCHANGED <<st, sock, pend, timer, owner, conn, tickets, queued,
                     first>>
  PROVE  IInv'
<1> USE DEF IInv
<1>1. Flag # {} /\ "R" \in Flag
  BY DEF Flag
<1>2. /\ ev \in EventRecord /\ owner \in Owners /\ out \in OutBuffer
      /\ BufLen(out) = 0 => out.trash = 0
  BY TypeFacts DEF OutInv
<1>3. /\ out' \in OutBuffer /\ BufLen(out') > 0
      /\ BufLen(out) > 0 => out'.data[1] = out.data[1]
  BY <1>2, PackedProps
<1>4. /\ ev' \in EventRecord /\ ev'.fd = ev.fd
      /\ \A n \in Num : owner[n] = "free" => ev'.epoll[n] = {}
  BY <1>1, <1>2, EventSetProps DEF EventInv
<1>5. ASSUME st \in {"INIT", "EST"}, "ERR" \notin fired
      PROVE  /\ ev'.reg /\ ev'.fd = sock /\ ev'.flags = Flag
             /\ ev'.epoll[sock] = Flag
  <2>1. /\ ev.reg /\ ev.fd = sock /\ ev.epoll[ev.fd] = ev.flags
        /\ ev.flags # {}
    BY <1>1, <1>5 DEF EventInv
  <2>2. QED
    BY <1>1, <1>2, <2>1, EventSetProps
<1>6. fired' \subseteq {"INIT", "ERR"}
  <2>1. st \in {"INIT", "EST", "ERR"} /\ fired \subseteq {"INIT", "ERR"}
    BY DEF TypeOK
  <2>2. QED
    BY <2>1
<1>7. TypeOK'
  BY <1>3, <1>4, <1>6 DEF TypeOK, EventRecord, Owners, OutBuffer
<1>8. EventInv'
  <2>1. "ERR" \notin fired' => "ERR" \notin fired /\ st # "ERR"
    BY DEF EventInv
  <2>2. QED
    BY <1>3, <1>4, <1>5, <2>1 DEF EventInv
<1>9. OutInv'
  <2>1. fired' = {} => fired = {} /\ st \notin {"INIT", "ERR"}
    OBVIOUS
  <2>2. BufLen(out') # 0
    BY <1>3
  <2>3. QED
    BY <1>3, <2>1, <2>2 DEF OutInv
<1>10. RegFirst'
  BY DEF RegFirst
<1>11. RetryPending' /\ OwnSocket'
  BY DEF RetryPending, OwnSocket
<1>12. QED
  BY <1>7, <1>8, <1>9, <1>10, <1>11

LEMMA TimeoutEstStep ==
  ASSUME IInv, TimeoutEst
  PROVE  IInv'
<1>1. "HEARTBEAT" \in Message
  BY DEF Message
<1>2. QED
  BY <1>1, PackStep DEF TimeoutEst, net

LEMMA TicketFiredStep ==
  ASSUME IInv, TicketFired
  PROVE  IInv'
<1>1. "TICKET_FIRED" \in Message
  BY DEF Message
<1>2. QED
  BY <1>1, PackStep DEF TicketFired, Idle, net

-----------------------------------------------------------------------------
(* cm_event_cb.                                                            *)

\* epoll_wait reports an event.
LEMMA EpollWaitStep ==
  ASSUME IInv, EpollWait
  PROVE  IInv'
<1> USE DEF IInv
<1>1. PICK n \in Num : EpollReports(n)
  BY DEF EpollWait
<1>2. PICK c \in Reports(n) : pend' = [fd |-> n, ev |-> c]
  BY <1>1 DEF EpollReports
<1>3. UNCHANGED <<st, sock, timer, out, owner, conn, tickets, queued, first,
                  fired>>
  BY <1>1 DEF EpollReports, net
<1>4. c \subseteq Condition
  <2>1. ev.epoll[n] \cup {"E"} \subseteq Condition
    BY TypeFacts DEF Condition
  <2>2. QED
    BY <2>1 DEF Reports
<1>5. /\ ev' \in EventRecord /\ ev'.fd = ev.fd /\ ev'.reg = ev.reg
      /\ ev'.flags = ev.flags /\ ev'.epoll = ev.epoll
  <2>1. ev' = [ev EXCEPT !.ready = ev.ready /\ n # sock]
    BY <1>1 DEF EpollReports
  <2>2. QED
    BY <2>1, TypeFacts DEF EventRecord
<1>6. TypeOK'
  BY <1>2, <1>3, <1>4, <1>5 DEF TypeOK, EventRecord
<1>7. EventInv'
  BY <1>3, <1>5 DEF EventInv
<1>8. OutInv' /\ RegFirst' /\ RetryPending' /\ OwnSocket'
  BY <1>3 DEF OutInv, RegFirst, RetryPending, OwnSocket
<1>9. QED
  BY <1>6, <1>7, <1>8

\* What cm_st_est starts from, alone or behind cm_st_init: the register message
\* is there unless it was sent, and the event fits what is to be sent.
EstEvent == IF st = "INIT" THEN EventSet(ev, Flag, owner) ELSE ev
EstOut == IF st = "INIT" THEN Packed(out, "REG") ELSE out

LEMMA EstStart ==
  ASSUME IInv, st \in {"INIT", "EST"}
  PROVE  /\ EstEvent \in EventRecord
         /\ \A n \in Num : owner[n] = "free" => EstEvent.epoll[n] = {}
         /\ "ERR" \notin fired =>
              /\ EstEvent.reg /\ EstEvent.fd = sock
              /\ EstEvent.epoll[sock] = EstEvent.flags
              /\ EstEvent.flags = IF BufLen(EstOut) > 0 THEN Flag ELSE {"R"}
         /\ EstOut \in OutBuffer
         /\ BufLen(EstOut) = 0 => EstOut.trash = 0
         /\ fired = {} /\ first = "none" =>
              BufLen(EstOut) > 0 /\ EstOut.data[1] = "REG"
<1> USE DEF IInv
<1>1. /\ ev \in EventRecord /\ owner \in Owners /\ out \in OutBuffer
      /\ BufLen(out) = 0 => out.trash = 0
      /\ \A n \in Num : owner[n] = "free" => ev.epoll[n] = {}
  BY TypeFacts DEF OutInv, EventInv
<1>2. CASE st = "EST"
  <2>1. EstEvent = ev /\ EstOut = out
    BY <1>2 DEF EstEvent, EstOut
  <2>2. QED
    BY <1>1, <1>2, <2>1 DEF EventInv, OutInv
<1>3. CASE st = "INIT"
  <2>1. EstEvent = EventSet(ev, Flag, owner) /\ EstOut = Packed(out, "REG")
    BY <1>3 DEF EstEvent, EstOut
  <2>2. /\ EstOut \in OutBuffer /\ BufLen(EstOut) > 0
        /\ BufLen(out) = 0 => EstOut.data[1] = "REG"
    <3>1. "REG" \in Message
      BY DEF Message
    <3>2. QED
      BY <1>1, <2>1, <3>1, PackedProps
  <2>3. /\ EstEvent \in EventRecord
        /\ \A n \in Num : owner[n] = "free" => EstEvent.epoll[n] = {}
        /\ ev.reg /\ ev.flags = Flag => EstEvent = ev
    BY <1>1, <2>1, EventSetProps
  <2>4. "ERR" \notin fired =>
          /\ ev.reg /\ ev.fd = sock /\ ev.epoll[sock] = ev.flags
          /\ ev.flags = Flag
    BY <1>3 DEF EventInv
  <2>5. fired = {} => BufLen(out) = 0
    BY <1>3 DEF OutInv
  <2>6. QED
    BY <2>2, <2>3, <2>4, <2>5
<1>4. QED
  BY <1>2, <1>3

\* cm_st_est sends.
LEMMA EstWritesStep ==
  ASSUME IInv, st \in {"INIT", "EST"}, EstWrites(EstEvent, EstOut)
  PROVE  IInv'
<1> USE DEF IInv
<1> DEFINE e == EstEvent  b == EstOut
           k == Sendable(b)  left == Drained(b, k)
<1>1. /\ queued' = queued + k
      /\ first' = IF first = "none" /\ k > 0 THEN b.data[1] ELSE first
      /\ out' = IF BufLen(left) = 0 THEN Refreshed(left) ELSE left
      /\ ev' = AfterSend(e, left)
      /\ st' = "EST" /\ pend' = NoEvent
      /\ UNCHANGED <<sock, timer, owner, conn, tickets, fired>>
  BY DEF EstWrites
<1>2. /\ e \in EventRecord /\ b \in OutBuffer /\ owner \in Owners
      /\ BufLen(b) = 0 => b.trash = 0
      /\ \A n \in Num : owner[n] = "free" => e.epoll[n] = {}
      /\ "ERR" \notin fired =>
              /\ e.reg /\ e.fd = sock /\ e.epoll[sock] = e.flags
              /\ e.flags = IF BufLen(b) > 0 THEN Flag ELSE {"R"}
      /\ fired = {} /\ first = "none" => BufLen(b) > 0 /\ b.data[1] = "REG"
  BY EstStart, TypeFacts
<1>3. queued \in 0 .. SendRoom
  BY DEF TypeOK
<1> HIDE DEF e, b
<1>4. /\ k \in Nat /\ k <= BufLen(b) /\ queued' \in 0 .. SendRoom
      /\ out' \in OutBuffer /\ BufLen(out') = BufLen(left)
      /\ BufLen(out') = 0 => out'.trash = 0
      /\ BufLen(left) > 0 => BufLen(b) > 0
      /\ k = 0 => BufLen(left) = BufLen(b) /\ out'.data = b.data
  BY <1>1, <1>2, <1>3, SentProps
<1>5. /\ BufLen(b) \in Nat /\ BufLen(left) \in Nat
      /\ BufLen(b) > 0 => b.data[1] \in Message
  <2>1. b.data \in Seq(Message) /\ out'.data \in Seq(Message)
    BY <1>2, <1>4 DEF OutBuffer, Buffer
  <2>2. BufLen(b) = Len(b.data) /\ BufLen(left) = Len(out'.data)
    BY <1>4 DEF BufLen
  <2>3. QED
    BY <2>1, <2>2, LenProperties, ElementOfSeq
<1> HIDE DEF left, k
<1>6. /\ ev' \in EventRecord /\ ev'.fd = e.fd
      /\ \A n \in Num : owner[n] = "free" => ev'.epoll[n] = {}
  BY <1>1, <1>2, EventSetProps DEF AfterSend
<1>7. "ERR" \notin fired =>
        /\ ev'.reg /\ ev'.fd = sock /\ ev'.epoll[sock] = ev'.flags
        /\ ev'.flags = IF BufLen(left) > 0 THEN Flag ELSE {"R"}
  <2>1. CASE BufLen(left) = 0
    <3>1. ev' = EventSet(e, {"R"}, owner)
      BY <1>1, <2>1 DEF AfterSend
    <3>2. "ERR" \notin fired =>
            e.reg /\ e.fd = sock /\ e.epoll[e.fd] = e.flags /\ e.flags # {}
      BY <1>2 DEF Flag
    <3>3. /\ ev'.fd = e.fd
          /\ e.reg /\ e.epoll[e.fd] = e.flags /\ e.flags # {} =>
               ev'.reg /\ ev'.flags = {"R"} /\ ev'.epoll[e.fd] = {"R"}
      BY <1>2, <3>1, SetReadProps
    <3>4. QED
      BY SMTT(20), <2>1, <3>2, <3>3
  <2>2. CASE BufLen(left) > 0
    BY <1>1, <1>2, <1>4, <2>2 DEF AfterSend
  <2>3. QED
    BY <1>5, <2>1, <2>2
<1>8. first' \in Message \cup {"none"}
  BY <1>1, <1>4, <1>5 DEF TypeOK
<1>9. TypeOK'
  <2>1. pend' \in [fd : Num \cup {0}, ev : SUBSET Condition]
    BY <1>1 DEF NoEvent
  <2>2. QED
    BY <1>1, <1>4, <1>6, <1>8, <2>1 DEF TypeOK, EventRecord, OutBuffer
<1>10. EventInv'
  BY <1>1, <1>4, <1>6, <1>7 DEF EventInv
<1>11. OutInv'
  <2>1. ASSUME fired = {}, first' = "none"
        PROVE  BufLen(out') > 0 /\ out'.data[1] = "REG"
    <3>1. first = "none" /\ BufLen(b) > 0 /\ b.data[1] = "REG" /\ k = 0
      BY <1>1, <1>2, <1>4, <1>5, <2>1 DEF RegFirst
    <3>2. QED
      BY <1>4, <3>1
  <2>2. QED
    BY <1>1, <1>4, <2>1 DEF OutInv
<1>12. RegFirst'
  BY <1>1, <1>2 DEF RegFirst
<1>13. RetryPending' /\ OwnSocket'
  BY <1>1 DEF RetryPending, OwnSocket
<1>14. QED
  BY <1>9, <1>10, <1>11, <1>12, <1>13

\* cm_st_est reads.
LEMMA EstReadsStep ==
  ASSUME IInv, st \in {"INIT", "EST"}, EstReads(EstEvent, EstOut)
  PROVE  IInv'
<1> USE DEF IInv
<1> DEFINE e == EstEvent  b == EstOut
<1>1. /\ out' = Answered(b)
      /\ ev' = IF tickets > 0 THEN EventSet(e, Flag, owner) ELSE e
      /\ tickets' = 0 /\ st' = "EST" /\ pend' = NoEvent
      /\ UNCHANGED <<sock, timer, owner, conn, queued, first, fired>>
  BY DEF EstReads
<1>2. /\ e \in EventRecord /\ b \in OutBuffer /\ owner \in Owners
      /\ BufLen(b) = 0 => b.trash = 0
      /\ \A n \in Num : owner[n] = "free" => e.epoll[n] = {}
      /\ "ERR" \notin fired =>
              /\ e.reg /\ e.fd = sock /\ e.epoll[sock] = e.flags
              /\ e.flags = IF BufLen(b) > 0 THEN Flag ELSE {"R"}
      /\ fired = {} /\ first = "none" => BufLen(b) > 0 /\ b.data[1] = "REG"
  BY EstStart, TypeFacts
<1>3. tickets \in Nat /\ 0 \in 0 .. MaxTicket
  BY Numbers DEF TypeOK
<1> HIDE DEF e, b
<1>4. /\ out' \in OutBuffer /\ out'.trash = b.trash
      /\ tickets > 0 => BufLen(out') > 0
      /\ tickets = 0 => BufLen(out') = BufLen(b)
      /\ BufLen(b) > 0 => BufLen(out') > 0 /\ out'.data[1] = b.data[1]
  BY <1>1, <1>2, <1>3, AnsweredProps
<1>5. BufLen(b) \in Nat /\ BufLen(out') \in Nat
  <2>1. b.data \in Seq(Message) /\ out'.data \in Seq(Message)
    BY <1>2, <1>4 DEF OutBuffer, Buffer
  <2>2. QED
    BY <2>1, LenProperties DEF BufLen
<1>6. /\ ev' \in EventRecord /\ ev'.fd = e.fd
      /\ \A n \in Num : owner[n] = "free" => ev'.epoll[n] = {}
  BY <1>1, <1>2, EventSetProps
<1>7. "ERR" \notin fired =>
        /\ ev'.reg /\ ev'.fd = sock /\ ev'.epoll[sock] = ev'.flags
        /\ ev'.flags = IF BufLen(out') > 0 THEN Flag ELSE {"R"}
  <2>1. CASE tickets > 0
    <3>1. ev' = EventSet(e, Flag, owner)
      BY <1>1, <2>1
    <3>2. "ERR" \notin fired =>
            e.reg /\ e.fd = sock /\ e.epoll[e.fd] = e.flags /\ e.flags # {}
      BY <1>2 DEF Flag
    <3>3. QED
      BY <1>2, <1>4, <2>1, <3>1, <3>2, EventSetProps
  <2>2. CASE tickets = 0
    BY <1>1, <1>2, <1>4, <2>2
  <2>3. QED
    BY <1>3, <2>1, <2>2
<1>8. TypeOK'
  <2>1. pend' \in [fd : Num \cup {0}, ev : SUBSET Condition]
    BY <1>1 DEF NoEvent
  <2>2. QED
    BY <1>1, <1>3, <1>4, <1>6, <2>1 DEF TypeOK, EventRecord, OutBuffer
<1>9. EventInv'
  BY <1>1, <1>4, <1>6, <1>7 DEF EventInv
<1>10. OutInv'
  BY <1>1, <1>2, <1>4, <1>5 DEF OutInv
<1>11. RegFirst' /\ RetryPending' /\ OwnSocket'
  BY <1>1 DEF RegFirst, RetryPending, OwnSocket
<1>12. QED
  BY <1>8, <1>9, <1>10, <1>11

\* The signal of send ends the process.
LEMMA EstKillsStep ==
  ASSUME IInv, EstWriteKills(EstEvent, EstOut)
  PROVE  IInv'
<1>1. /\ st' = "KILLED"
      /\ UNCHANGED <<sock, ev, pend, timer, out, owner, conn, tickets, queued,
                     first, fired>>
  BY DEF EstWriteKills, net
<1>2. QED
  BY <1>1
     DEF IInv, TypeOK, EventInv, OutInv, RegFirst, RetryPending, OwnSocket

LEMMA EventInEstStep ==
  ASSUME IInv, EventInEst
  PROVE  IInv'
<1>1. /\ st \in {"INIT", "EST"}
      /\ \/ EstWrites(EstEvent, EstOut) \/ EstWriteFails(EstEvent, EstOut)
         \/ EstWriteKills(EstEvent, EstOut) \/ EstReads(EstEvent, EstOut)
         \/ EstReadFails(EstEvent, EstOut)
  BY DEF EventInEst, EstEvent, EstOut
<1>2. CASE EstWriteFails(EstEvent, EstOut) \/ EstReadFails(EstEvent, EstOut)
  <2>1. Lost(EstEvent)
    BY <1>2 DEF EstWriteFails, EstReadFails
  <2>2. QED
    BY <1>1, <2>1, EstStart, LostStep
<1>3. QED
  BY <1>1, <1>2, EstWritesStep, EstReadsStep, EstKillsStep

LEMMA CallbackStep ==
  ASSUME IInv, Callback
  PROVE  IInv'
  BY EventErrorStep, LostHere, EventInEstStep
     DEF Callback, EventInErr, ConnectFails

-----------------------------------------------------------------------------
(* The manager, and the sockets of users.                                  *)

LEMMA ManagerStep ==
  ASSUME IInv, Manager
  PROVE  IInv'
<1> USE DEF IInv
<1>1. /\ UNCHANGED <<st, sock, pend, timer, out, owner, first, fired>>
      /\ conn # "none"
  BY DEF Manager, ManagerAccepts, ManagerRefuses, ManagerSends, ManagerReads,
         ManagerEnds, ManagerResets
<1>2. /\ ev' \in EventRecord /\ ev'.fd = ev.fd /\ ev'.reg = ev.reg
      /\ ev'.flags = ev.flags /\ ev'.epoll = ev.epoll
  <2>1. (\E c : Wake(c)) \/ ev' = ev
    BY DEF Manager, ManagerAccepts, ManagerRefuses, ManagerSends,
           ManagerReads, ManagerEnds, ManagerResets
  <2>2. QED
    BY <2>1, WakeProps, TypeFacts
<1>3. /\ tickets' \in 0 .. MaxTicket /\ queued' \in 0 .. SendRoom
      /\ conn' \in {"none", "connecting", "failed", "up", "ended", "reset",
                    "broken"}
  BY Numbers DEF TypeOK, Manager, ManagerAccepts, ManagerRefuses,
     ManagerSends, ManagerReads, ManagerEnds, ManagerResets
<1>4. TypeOK'
  BY <1>1, <1>2, <1>3 DEF TypeOK, EventRecord
<1>5. EventInv'
  BY <1>1, <1>2 DEF EventInv
<1>6. OutInv' /\ RegFirst' /\ RetryPending' /\ OwnSocket'
  BY <1>1 DEF OutInv, RegFirst, RetryPending, OwnSocket
<1>7. QED
  BY <1>4, <1>5, <1>6

LEMMA UsersStep ==
  ASSUME IInv, Users
  PROVE  IInv'
<1> USE DEF IInv
<1>1. UNCHANGED <<st, sock, pend, timer, out, conn, tickets, queued, first,
                  fired>>
  BY DEF Users, net
<1>2. PICK n \in Num : UserTakes(n) \/ UserMoves(n) \/ UserLeaves(n)
  BY DEF Users
<1>3. /\ owner' \in Owners /\ owner[n] # "cm" /\ owner'[n] # "cm"
      /\ \A m \in Num \ {n} : owner'[m] = owner[m]
      /\ owner'[n] = "free" => UserLeaves(n)
  BY <1>2, TypeFacts
     DEF UserTakes, UserMoves, UserLeaves, Free, Owners
<1>4. n # sock
  BY <1>3 DEF OwnSocket
<1>5. /\ ev' \in EventRecord /\ ev'.fd = ev.fd /\ ev'.reg = ev.reg
      /\ ev'.flags = ev.flags
      /\ \A m \in Num \ {n} : ev'.epoll[m] = ev.epoll[m]
      /\ UserLeaves(n) => ev'.epoll[n] = {}
  BY <1>2, TypeFacts
     DEF UserTakes, UserMoves, UserLeaves, EventRecord
<1>6. TypeOK'
  BY <1>1, <1>3, <1>5 DEF TypeOK, EventRecord, Owners
<1>7. EventInv'
  BY <1>1, <1>3, <1>4, <1>5 DEF EventInv, TypeOK
<1>8. OwnSocket'
  BY <1>1, <1>3, <1>4 DEF OwnSocket
<1>9. OutInv' /\ RegFirst' /\ RetryPending'
  BY <1>1 DEF OutInv, RegFirst, RetryPending
<1>10. QED
  BY <1>6, <1>7, <1>8, <1>9

-----------------------------------------------------------------------------
(* The invariant.                                                          *)

\* fwd_cm_start registers the socket it connects.
LEMMA InitIInv ==
  ASSUME Init
  PROVE  IInv
<1>1. PICK n \in Num :
        /\ sock = n
        /\ owner = [m \in Num |-> IF m = n THEN "cm" ELSE "free"]
        /\ ev = SetEvent([fd |-> n, reg |-> FALSE, flags |-> {},
                          epoll |-> [m \in Num |-> {}], ready |-> FALSE],
                         n, owner)
  BY DEF Init
<1>2. /\ st = "INIT" /\ timer = TRUE /\ n # 0
      /\ pend = NoEvent /\ out = EmptyBuffer /\ fired = {}
      /\ conn = "connecting" /\ tickets = 0 /\ queued = 0 /\ first = "none"
  BY Numbers DEF Init
<1> DEFINE e0 == [fd |-> n, reg |-> FALSE, flags |-> {},
                  epoll |-> [m \in Num |-> {}], ready |-> FALSE]
           e == [e0 EXCEPT !.fd = n, !.ready = FALSE]
<1>3. /\ e \in EventRecord /\ e.fd = n /\ ~e.reg
      /\ e.epoll = [m \in Num |-> {}]
  BY <1>2 DEF EventRecord
<1>4. ev = EventSet(e, Flag, owner)
  BY <1>1 DEF SetEvent
<1> HIDE DEF e, e0
<1>5. owner \in Owners /\ owner[n] = "cm"
  BY <1>1, <1>2 DEF Owners
<1>6. /\ ev \in EventRecord /\ ev.fd = n /\ ev.reg
      /\ ev.flags = Flag /\ ev.epoll[n] = Flag
      /\ \A m \in Num : owner[m] = "free" => ev.epoll[m] = {}
  <2>1. \A m \in Num : e.epoll[m] = {}
    BY <1>3
  <2>2. QED
    BY <1>2, <1>3, <1>4, <1>5, <2>1, EventSetProps
<1>7. out \in OutBuffer /\ out.trash = 0 /\ BufLen(out) = 0
  <2>1. <<>> \in Seq(Message) /\ Len(<<>>) = 0
    OBVIOUS
  <2>2. QED
    BY <1>2, <2>1, Numbers
       DEF EmptyBuffer, OutBuffer, Buffer, BufLeft, BufLen
<1>8. TypeOK
  <2>1. pend \in [fd : Num \cup {0}, ev : SUBSET Condition]
    BY <1>2 DEF NoEvent
  <2>2. 0 \in 0 .. MaxTicket /\ 0 \in 0 .. SendRoom
    BY Numbers
  <2>3. sock \in Num
    BY <1>1
  <2>4. QED
    BY <1>2, <1>5, <1>6, <1>7, <2>1, <2>2, <2>3
       DEF TypeOK, EventRecord, Owners, OutBuffer
<1>9. EventInv /\ OutInv
  BY <1>1, <1>2, <1>6, <1>7 DEF EventInv, OutInv
<1>10. RegFirst /\ RetryPending /\ OwnSocket
  BY <1>1, <1>2 DEF RegFirst, RetryPending, OwnSocket
<1>11. QED
  BY <1>8, <1>9, <1>10 DEF IInv

\* Every step of the loop, the manager and the users preserves it.
LEMMA NextIInv ==
  ASSUME IInv, [Next]_vars
  PROVE  IInv'
<1>1. CASE Loop
  BY <1>1, EpollWaitStep, CallbackStep DEF Loop
<1>2. CASE UNCHANGED vars
  BY <1>2
     DEF vars, net, IInv, TypeOK, EventInv, OutInv, RegFirst, RetryPending,
         OwnSocket
<1>3. CASE TimeoutErrFails \/ Gone
  BY <1>2, <1>3 DEF TimeoutErrFails, Gone
<1>4. QED
  BY <1>1, <1>2, <1>3, TimeoutErrStep, TimeoutInitStep, TimeoutEstStep,
     TicketFiredStep, ManagerStep, UsersStep DEF Next

-----------------------------------------------------------------------------
(* The theorems.                                                           *)

\* IInv is an invariant of the connection to the connection manager, for any
\* numbers of descriptors and any sizes of its buffer and of the send queue.
THEOREM Invariance == Spec => []IInv
<1>1. Init => IInv
  BY InitIInv
<1>2. IInv /\ [Next]_vars => IInv'
  BY NextIInv
<1>3. QED
  BY <1>1, <1>2, PTL DEF Spec

\* The variables keep their types; in particular nothing is packed past the end
\* of buf_out.
THEOREM TypeCorrect == Spec => []TypeOK
<1>1. IInv => TypeOK
  BY DEF IInv
<1>2. QED
  BY <1>1, Invariance, PTL

\* A connection is watched for what it needs, unless a ticket timed out while
\* there was none.
THEOREM AlwaysWatched == Spec => []Watched
<1>1. IInv => Watched
  BY DEF IInv, EventInv, Watched
<1>2. QED
  BY <1>1, Invariance, PTL

\* The register message is the first one of every connection, unless a ticket
\* timed out before it.
THEOREM RegistersFirst == Spec => []RegFirst
<1>1. IInv => RegFirst
  BY DEF IInv
<1>2. QED
  BY <1>1, Invariance, PTL

\* Without a connection the retry timer is set.
THEOREM AlwaysRetried == Spec => []RetryPending
<1>1. IInv => RetryPending
  BY DEF IInv
<1>2. QED
  BY <1>1, Invariance, PTL

\* fwd_cm.sock is the number of its own socket, or 0.
THEOREM SocketIsOwn == Spec => []OwnSocket
<1>1. IInv => OwnSocket
  BY DEF IInv
<1>2. QED
  BY <1>1, Invariance, PTL

=============================================================================
