--------------------------- MODULE FwdRelayProofs ---------------------------
(***************************************************************************)
(* Proofs about FwdRelay, for buffers and send queues of any size and any  *)
(* number of bytes: what the users are registered for, that no entry of a  *)
(* batch is stale and no edge-triggered event is lost, and that the relay  *)
(* implements the pipe of FwdPipe.                                         *)
(***************************************************************************)
EXTENDS FwdRelay, SequenceTheorems, FiniteSetTheorems, TLAPS

-----------------------------------------------------------------------------
(* Sequences.                                                              *)

\* A sequence is cut in two.
LEMMA CutProps ==
  ASSUME NEW S, NEW s \in Seq(S), NEW k \in 0 .. Len(s)
  PROVE  /\ Front(s, k) \in Seq(S) /\ Len(Front(s, k)) = k
         /\ Rest(s, k) \in Seq(S) /\ Len(Rest(s, k)) = Len(s) - k
         /\ Front(s, k) \o Rest(s, k) = s
<1>1. Len(s) \in Nat /\ \A i \in 1 .. Len(s) : s[i] \in S
  BY ElementOfSeq
<1>2. Front(s, k) \in Seq(S) /\ Len(Front(s, k)) = k
  BY <1>1, SubSeqProperties DEF Front
<1>3. Rest(s, k) \in Seq(S) /\ Len(Rest(s, k)) = Len(s) - k
  BY <1>1, SubSeqProperties DEF Rest
<1>4. Front(s, k) \o Rest(s, k) = s
  <2>1. 1 \in 1 .. Len(s) + 1 /\ k \in 1 - 1 .. Len(s) /\ Len(s) \in k .. Len(s)
    BY <1>1
  <2>2. SubSeq(s, 1, k) \o SubSeq(s, k + 1, Len(s)) = SubSeq(s, 1, Len(s))
    BY ONLY <2>1, ConcatAdjacentSubSeq, s \in Seq(S)
  <2>3. QED
    BY <2>2, SubSeqFull DEF Front, Rest
<1>5. QED
  BY <1>2, <1>3, <1>4

\* Bytes move from the front of t to the end of s: together they stay.
LEMMA MoveProps ==
  ASSUME NEW S, NEW s \in Seq(S), NEW t \in Seq(S), NEW k \in 0 .. Len(t)
  PROVE  (s \o Front(t, k)) \o Rest(t, k) = s \o t
<1>1. Front(t, k) \in Seq(S) /\ Rest(t, k) \in Seq(S)
      /\ Front(t, k) \o Rest(t, k) = t
  BY CutProps
<1>2. (s \o Front(t, k)) \o Rest(t, k) = s \o (Front(t, k) \o Rest(t, k))
  <2>1. PICK f, g : f = Front(t, k) /\ g = Rest(t, k)
    OBVIOUS
  <2>2. f \in Seq(S) /\ g \in Seq(S)
    BY <1>1, <2>1
  <2>3. (s \o f) \o g = s \o (f \o g)
    BY <2>2, ConcatAssociative, SMTT(30)
  <2>4. QED
    BY <2>1, <2>3
<1>3. QED
  BY <1>1, <1>2

\* The first k elements of s \o t are those of s, if it has so many.
LEMMA CutOfConcat ==
  ASSUME NEW S, NEW s \in Seq(S), NEW t \in Seq(S), NEW k \in 1 .. Len(s)
  PROVE  /\ SubSeq(s \o t, 1, k) = Front(s, k)
         /\ SubSeq(s \o t, k + 1, Len(s \o t)) = Rest(s, k) \o t
         /\ k \in 1 .. Len(s \o t)
<1>1. Len(s) \in Nat /\ Len(t) \in Nat /\ s \o t \in Seq(S)
      /\ Len(s \o t) = Len(s) + Len(t)
  BY ConcatProperties, LenProperties
<1>2. SubSeq(s \o t, 1, k) = Front(s, k)
  BY <1>1, SubSeqOfConcat1 DEF Front
<1> DEFINE a == SubSeq(s \o t, k + 1, Len(s \o t))
           b == Rest(s, k) \o t
<1>3. \A i \in 1 .. Len(s) + Len(t) :
        (s \o t)[i] = IF i <= Len(s) THEN s[i] ELSE t[i - Len(s)]
  BY ConcatProperties
<1>4. a \in Seq(S) /\ Len(a) = Len(s) + Len(t) - k
      /\ \A i \in 1 .. Len(s) + Len(t) - k : a[i] = (s \o t)[k + i]
  <2>1. \A i \in k + 1 .. Len(s \o t) : (s \o t)[i] \in S
    BY <1>1, ElementOfSeq
  <2>2. QED
    BY <1>1, <2>1, SubSeqProperties
<1>5. Rest(s, k) \in Seq(S) /\ Len(Rest(s, k)) = Len(s) - k
      /\ \A i \in 1 .. Len(s) - k : Rest(s, k)[i] = s[k + i]
  <2>1. \A i \in k + 1 .. Len(s) : s[i] \in S
    BY <1>1, ElementOfSeq
  <2>2. QED
    BY <1>1, <2>1, SubSeqProperties DEF Rest
<1>6. b \in Seq(S) /\ Len(b) = Len(s) + Len(t) - k
      /\ \A i \in 1 .. Len(s) + Len(t) - k :
           b[i] = IF i <= Len(s) - k THEN s[k + i] ELSE t[i - (Len(s) - k)]
  <2>1. /\ b \in Seq(S) /\ Len(b) = (Len(s) - k) + Len(t)
        /\ \A i \in 1 .. (Len(s) - k) + Len(t) :
             b[i] = IF i <= Len(s) - k THEN Rest(s, k)[i]
                    ELSE t[i - (Len(s) - k)]
    <3> DEFINE r == Rest(s, k)
    <3>1. r \in Seq(S) /\ Len(r) = Len(s) - k
      BY <1>5
    <3> HIDE DEF r
    <3>2. /\ r \o t \in Seq(S) /\ Len(r \o t) = Len(r) + Len(t)
          /\ \A i \in 1 .. Len(r) + Len(t) :
               (r \o t)[i] = IF i <= Len(r) THEN r[i] ELSE t[i - Len(r)]
      BY <3>1, ConcatProperties
    <3>3. QED
      BY <3>1, <3>2 DEF r
  <2> HIDE DEF b
  <2>2. (Len(s) - k) + Len(t) = Len(s) + Len(t) - k
    BY <1>1
  <2>3. ASSUME NEW i \in 1 .. Len(s) + Len(t) - k
        PROVE  b[i] = IF i <= Len(s) - k THEN s[k + i]
                      ELSE t[i - (Len(s) - k)]
    <3>1. i \in 1 .. (Len(s) - k) + Len(t)
      BY <2>2
    <3>2. b[i] = IF i <= Len(s) - k THEN Rest(s, k)[i]
                 ELSE t[i - (Len(s) - k)]
      BY <2>1, <3>1
    <3>3. CASE i <= Len(s) - k
      <4>1. i \in 1 .. Len(s) - k
        BY <1>1, <3>3
      <4>2. QED
        BY <1>5, <3>2, <3>3, <4>1
    <3>4. QED
      BY <3>2, <3>3
  <2>4. QED
    BY <2>1, <2>2, <2>3
<1>7. \A i \in 1 .. Len(a) : a[i] = b[i]
  <2> HIDE DEF a, b
  <2> SUFFICES ASSUME NEW i \in 1 .. Len(a) PROVE a[i] = b[i]
    OBVIOUS
  <2>1. i \in 1 .. Len(s) + Len(t) - k /\ k + i \in 1 .. Len(s) + Len(t)
    BY <1>1, <1>4
  <2>2. a[i] = IF k + i <= Len(s) THEN s[k + i] ELSE t[k + i - Len(s)]
    BY <1>3, <1>4, <2>1
  <2>3. k + i - Len(s) = i - (Len(s) - k) /\ (k + i <= Len(s) <=> i <= Len(s) - k)
    BY <1>1, <2>1
  <2>4. QED
    BY <1>6, <2>1, <2>2, <2>3
<1>8. a = b
  <2> HIDE DEF a, b
  <2>1. QED
    BY <1>4, <1>6, <1>7, SeqEqual
<1>9. k \in 1 .. Len(s \o t)
  <2> HIDE DEF a, b
  <2>1. QED
    BY <1>1
<1>10. QED
  BY <1>2, <1>8, <1>9

\* Bytes are appended behind.
LEMMA AppendOfConcat ==
  ASSUME NEW S, NEW s \in Seq(S), NEW t \in Seq(S), NEW b \in S
  PROVE  s \o Append(t, b) = Append(s \o t, b)
<1>1. Append(t, b) = t \o <<b>> /\ s \o t \in Seq(S) /\ <<b>> \in Seq(S)
  BY AppendIsConcat, ConcatProperties
<1>2. Append(s \o t, b) = (s \o t) \o <<b>>
  <2>1. PICK c : c = s \o t
    OBVIOUS
  <2>2. Append(c, b) = c \o <<b>>
    BY <1>1, <2>1, AppendIsConcat
  <2>3. QED
    BY <2>1, <2>2
<1>3. (s \o t) \o <<b>> = s \o (t \o <<b>>)
  BY <1>1, ConcatAssociative
<1>4. QED
  BY <1>1, <1>2, <1>3

-----------------------------------------------------------------------------
(* Users and events.                                                       *)

LEMMA PeerProps ==
  /\ None \notin User
  /\ \A u \in User : /\ Peer[u] \in User /\ Peer[u] # u /\ Peer[Peer[u]] = u
                     /\ User = {u, Peer[u]}
BY UserAssumption DEF User, Peer

\* The entries of a batch.
Entry == [fd : User \cup {None}, ev : SUBSET Condition]

\* The loops that FwdEvent works on.
LEMMA LoopType ==
  ASSUME NEW e
  PROVE  e \in Loop(User, None) <=>
           e \in [flags : [User -> SUBSET Flag], ready : SUBSET User,
                  batch : Seq(Entry), cur : Nat]
BY DEF Loop, Entry

\* epoll's ready list is all that an event changes.
LEMMA WakeProps ==
  ASSUME NEW e \in Loop(User, None), NEW u \in User, NEW c
  PROVE  /\ Wake(e, u, c) \in Loop(User, None)
         /\ Wake(e, u, c).flags = e.flags
         /\ Wake(e, u, c).batch = e.batch
         /\ Wake(e, u, c).cur = e.cur
BY DEF Loop, Wake

\* The next entry.
LEMMA AdvanceProps ==
  ASSUME NEW e \in Loop(User, None)
  PROVE  /\ Advance(e) \in Loop(User, None)
         /\ Advance(e).flags = e.flags
         /\ Advance(e).ready = e.ready
         /\ Advance(e).batch = e.batch
         /\ Advance(e).cur = e.cur + 1
BY DEF Loop, Advance

\* fwd_event_add changes what one socket is registered for.
LEMMA AddProps ==
  ASSUME NEW e \in Loop(User, None), NEW u \in User, NEW f \in SUBSET Flag
  PROVE  LET r == EventSet(e, u, f) IN
         /\ r \in Loop(User, None)
         /\ r.flags = [e.flags EXCEPT ![u] = f]
         /\ r.batch = e.batch
         /\ r.cur = e.cur
<1> DEFINE d == [e EXCEPT !.flags[u] = f]
<1>1. d \in Loop(User, None) /\ d.flags = [e.flags EXCEPT ![u] = f]
      /\ d.batch = e.batch /\ d.cur = e.cur
  BY DEF Loop
<1>2. CASE e.flags[u] = f
  <2>1. EventSet(e, u, f) = e
    BY <1>2 DEF EventSet, EventAdd
  <2>2. e.flags = [e.flags EXCEPT ![u] = f]
    BY <1>2 DEF Loop
  <2>3. QED
    BY <2>1, <2>2
<1>3. CASE e.flags[u] # f
  <2>1. EventSet(e, u, f) = Wake(d, u, Conditions(u))
    BY <1>3 DEF EventSet, EventAdd
  <2> HIDE DEF d
  <2>2. QED
    BY <1>1, <2>1, WakeProps
<1>4. QED
  BY <1>2, <1>3

\* fwd_event_del: the socket is not registered any more, nor in what is left of
\* the batch if it was registered; the rest of the batch stays.
LEMMA DelProps ==
  ASSUME NEW e \in Loop(User, None), NEW u \in User
  PROVE  LET r == EventCancel(e, u) IN
         /\ r \in Loop(User, None)
         /\ r.flags = [e.flags EXCEPT ![u] = {}]
         /\ r.cur = e.cur
         /\ Len(r.batch) = Len(e.batch)
         /\ DOMAIN r.batch = DOMAIN e.batch
         /\ \A i \in DOMAIN e.batch :
              /\ r.batch[i].ev = e.batch[i].ev
              /\ r.batch[i].fd = IF e.flags[u] # {} /\ i > e.cur
                                    /\ e.batch[i].fd = u
                                 THEN None ELSE e.batch[i].fd
<1>1. CASE e.flags[u] = {}
  <2>1. EventCancel(e, u) = e
    BY <1>1 DEF EventCancel, EventDel, Registered
  <2>2. e.flags = [e.flags EXCEPT ![u] = {}]
    BY <1>1 DEF Loop
  <2>3. QED
    BY <1>1, <2>1, <2>2
<1>2. CASE e.flags[u] # {}
  <2> DEFINE b == [i \in DOMAIN e.batch |->
                     IF i > e.cur /\ e.batch[i].fd = u
                     THEN [e.batch[i] EXCEPT !.fd = None] ELSE e.batch[i]]
             r == EventCancel(e, u)
  <2>1. r = [e EXCEPT !.flags[u] = {}, !.ready = @ \ {u}, !.batch = b]
    BY <1>2 DEF EventCancel, EventDel, Registered
  <2>2. e.batch \in Seq(Entry) /\ Len(e.batch) \in Nat
        /\ DOMAIN e.batch = 1 .. Len(e.batch)
    BY LoopType
  <2>3. \A i \in DOMAIN e.batch : e.batch[i] \in Entry
    BY <2>2
  <2>4. \A i \in DOMAIN e.batch : b[i] \in Entry
    BY <2>3 DEF Entry
  <2>5. b \in Seq(Entry) /\ Len(b) = Len(e.batch) /\ DOMAIN b = DOMAIN e.batch
    <3>1. b \in [1 .. Len(e.batch) -> Entry]
      BY <2>2, <2>4
    <3> HIDE DEF b
    <3>2. b \in Seq(Entry)
      BY <2>2, <3>1
    <3>3. QED
      BY <2>2, <3>1, <3>2
  <2>6. \A i \in DOMAIN e.batch :
          /\ b[i].ev = e.batch[i].ev
          /\ b[i].fd = IF i > e.cur /\ e.batch[i].fd = u THEN None
                       ELSE e.batch[i].fd
    BY <2>3 DEF Entry
  <2> HIDE DEF b
  <2>7. /\ r \in Loop(User, None) /\ r.flags = [e.flags EXCEPT ![u] = {}]
        /\ r.batch = b /\ r.cur = e.cur
    <3> HIDE DEF r
    <3>1. e \in [flags : [User -> SUBSET Flag], ready : SUBSET User,
                 batch : Seq(Entry), cur : Nat]
      BY LoopType
    <3>2. r \in [flags : [User -> SUBSET Flag], ready : SUBSET User,
                 batch : Seq(Entry), cur : Nat]
      BY <2>1, <2>5, <3>1
    <3>3. QED
      BY <2>1, <3>1, <3>2, LoopType
  <2> HIDE DEF r
  <2>8. QED
    BY <1>2, <2>5, <2>6, <2>7 DEF r
<1>3. QED
  BY <1>1, <1>2

\* Every entry that is left of the batch is registered.
Live(e) ==
  \A i \in DOMAIN e.batch :
    i > e.cur /\ e.batch[i].fd # None => e.flags[e.batch[i].fd] # {}

\* Both users leave the loop: nothing is left of the batch.
LEMMA CancelBothProps ==
  ASSUME NEW e \in Loop(User, None), NEW u \in User, NEW p \in User, u # p,
         Live(e)
  PROVE  LET r == EventCancel(EventCancel(e, u), p) IN
         /\ r \in Loop(User, None)
         /\ \A v \in User : r.flags[v] = {}
         /\ r.cur = e.cur
         /\ Len(r.batch) = Len(e.batch) /\ DOMAIN r.batch = DOMAIN e.batch
         /\ \A i \in DOMAIN e.batch :
              /\ r.batch[i].fd \in {e.batch[i].fd, None}
              /\ i > e.cur => r.batch[i].fd = None
<1> DEFINE d == EventCancel(e, u)
           r == EventCancel(d, p)
<1>1. /\ d \in Loop(User, None)
      /\ d.flags = [e.flags EXCEPT ![u] = {}]
      /\ d.cur = e.cur
      /\ Len(d.batch) = Len(e.batch) /\ DOMAIN d.batch = DOMAIN e.batch
      /\ \A i \in DOMAIN e.batch :
           /\ d.batch[i].ev = e.batch[i].ev
           /\ d.batch[i].fd = IF e.flags[u] # {} /\ i > e.cur
                                 /\ e.batch[i].fd = u
                              THEN None ELSE e.batch[i].fd
  BY DelProps
<1> HIDE DEF d
<1>d. d \in Loop(User, None)
  BY <1>1
<1>2. /\ r \in Loop(User, None)
      /\ r.flags = [d.flags EXCEPT ![p] = {}]
      /\ r.cur = d.cur
      /\ Len(r.batch) = Len(d.batch) /\ DOMAIN r.batch = DOMAIN d.batch
      /\ \A i \in DOMAIN d.batch :
           /\ r.batch[i].ev = d.batch[i].ev
           /\ r.batch[i].fd = IF d.flags[p] # {} /\ i > d.cur
                                 /\ d.batch[i].fd = p
                              THEN None ELSE d.batch[i].fd
  BY <1>d, DelProps
<1> HIDE DEF r
<1>3. e.flags \in [User -> SUBSET Flag] /\ User = {u, p}
      /\ \A i \in DOMAIN e.batch : e.batch[i].fd \in User \cup {None}
  <2>1. e.flags \in [User -> SUBSET Flag] /\ e.batch \in Seq(Entry)
    BY LoopType
  <2>2. User = {u, p}
    BY DEF User
  <2>3. \A i \in DOMAIN e.batch : e.batch[i] \in Entry
    BY <2>1
  <2>4. QED
    BY <2>1, <2>2, <2>3 DEF Entry
<1>4. \A v \in User : r.flags[v] = {}
  <2>1. r.flags = [[e.flags EXCEPT ![u] = {}] EXCEPT ![p] = {}]
    BY <1>1, <1>2
  <2>2. QED
    BY <1>3, <2>1
<1>5. \A i \in DOMAIN e.batch : r.batch[i].fd \in {e.batch[i].fd, None}
  BY <1>1, <1>2
<1>6. ASSUME NEW i \in DOMAIN e.batch, i > e.cur PROVE r.batch[i].fd = None
  <2>1. CASE e.batch[i].fd = u
    <3>1. e.flags[u] # {}
      BY <1>6, <2>1, <1>3, PeerProps DEF Live
    <3>2. d.batch[i].fd = None
      BY <1>1, <1>6, <2>1, <3>1
    <3>3. QED
      BY <1>1, <1>2, <3>2
  <2>2. CASE e.batch[i].fd = p
    <3>1. e.flags[p] # {} /\ d.flags[p] # {}
      BY <1>1, <1>6, <2>2, <1>3, PeerProps DEF Live
    <3>2. d.batch[i].fd = p
      BY <1>1, <2>2
    <3>3. QED
      BY <1>1, <1>2, <1>6, <3>1, <3>2
  <2>3. CASE e.batch[i].fd = None
    BY <1>1, <1>2, <2>3
  <2>4. QED
    BY <1>3, <2>1, <2>2, <2>3
<1>7. QED
  BY <1>1, <1>2, <1>4, <1>5, <1>6 DEF r, d

-----------------------------------------------------------------------------
(* The invariant is inductive.                                             *)

\* What the type invariant says of the parts of the state.
LEMMA TypeFacts ==
  ASSUME TypeOK
  PROVE  /\ loop.flags \in [User -> SUBSET Flag]
         /\ loop.batch \in Seq(Entry)
         /\ loop.cur \in Nat /\ Len(loop.batch) \in Nat
         /\ DOMAIN loop.batch = 1 .. Len(loop.batch)
         /\ \A i \in DOMAIN loop.batch :
              /\ loop.batch[i].fd \in User \cup {None}
              /\ loop.batch[i].ev \in SUBSET Condition
         /\ \A u \in User :
              /\ buf[u] \in Buffer(Byte)
              /\ buf[u].data \in Seq(Byte) /\ Len(buf[u].data) \in Nat
              /\ buf[u].trash \in Nat
              /\ Size - buf[u].trash - Len(buf[u].data) >= 0
              /\ in[u] \in Seq(Byte) /\ Len(in[u]) \in Nat
              /\ unread[u] \in Nat /\ unread[u] <= OutSize
         /\ Size \in Nat /\ OutSize \in Nat
<1>1. loop \in [flags : [User -> SUBSET Flag], ready : SUBSET User,
                batch : Seq(Entry), cur : Nat]
  BY LoopType DEF TypeOK
<1>2. loop.flags \in [User -> SUBSET Flag] /\ loop.batch \in Seq(Entry)
      /\ loop.cur \in Nat
  BY <1>1
<1>3. Len(loop.batch) \in Nat /\ DOMAIN loop.batch = 1 .. Len(loop.batch)
      /\ \A i \in DOMAIN loop.batch : loop.batch[i] \in Entry
  BY <1>2
<1>4. \A i \in DOMAIN loop.batch :
        /\ loop.batch[i].fd \in User \cup {None}
        /\ loop.batch[i].ev \in SUBSET Condition
  BY <1>3 DEF Entry
<1>5. ASSUME NEW u \in User
      PROVE  /\ buf[u] \in Buffer(Byte)
             /\ buf[u].data \in Seq(Byte) /\ Len(buf[u].data) \in Nat
             /\ buf[u].trash \in Nat
             /\ Size - buf[u].trash - Len(buf[u].data) >= 0
  BY DEF TypeOK, Buffer, BufLeft
<1>6. ASSUME NEW u \in User
      PROVE  /\ in[u] \in Seq(Byte) /\ Len(in[u]) \in Nat
             /\ unread[u] \in Nat /\ unread[u] <= OutSize
  BY OutAssumption DEF TypeOK
<1>7. QED
  BY <1>2, <1>3, <1>4, <1>5, <1>6, SizeAssumption, OutAssumption

LEMMA LeftType ==
  ASSUME TypeOK, NEW u \in User
  PROVE  /\ BufLeft(buf[u], Size) \in Nat
         /\ BufLen(buf[u]) \in Nat
         /\ BufLen(buf[u]) <= Size
<1>1. /\ buf[u].trash \in Nat /\ Len(buf[u].data) \in Nat
      /\ Size - buf[u].trash - Len(buf[u].data) >= 0 /\ Size \in Nat
  BY TypeFacts
<1>2. QED
  BY <1>1 DEF BufLeft, BufLen

\* Reading: as much is taken from the queue as there is room for.
LEMMA ReadProps ==
  ASSUME TypeOK, NEW u \in User
  PROVE  LET k == Readable(u)
             own == Stored(buf[u], Front(in[u], k))
         IN
         /\ k \in 0 .. Len(in[u])
         /\ k <= BufLeft(buf[u], Size)
         /\ k < BufLeft(buf[u], Size) => k = Len(in[u])
         /\ own \in Buffer(Byte)
         /\ own.data = buf[u].data \o Front(in[u], k)
         /\ BufLen(own) = BufLen(buf[u]) + k
         /\ BufLeft(own, Size) = BufLeft(buf[u], Size) - k
         /\ Rest(in[u], k) \in Seq(Byte)
         /\ k = Len(in[u]) => Rest(in[u], k) = <<>>
<1> DEFINE k == Readable(u)
           f == Front(in[u], k)
           own == Stored(buf[u], f)
<1>1. /\ buf[u] \in [trash : Nat, data : Seq(Byte)]
      /\ buf[u].data \in Seq(Byte) /\ Len(buf[u].data) \in Nat
      /\ buf[u].trash \in Nat
      /\ Size - buf[u].trash - Len(buf[u].data) >= 0
      /\ in[u] \in Seq(Byte) /\ Len(in[u]) \in Nat /\ Size \in Nat
  BY TypeFacts DEF Buffer
<1>2. /\ k \in 0 .. Len(in[u]) /\ k <= BufLeft(buf[u], Size)
      /\ k < BufLeft(buf[u], Size) => k = Len(in[u])
  BY <1>1 DEF Readable, Least, BufLeft
<1> HIDE DEF k
<1>3. /\ f \in Seq(Byte) /\ Len(f) = k
      /\ Rest(in[u], k) \in Seq(Byte) /\ Len(Rest(in[u], k)) = Len(in[u]) - k
  BY <1>1, <1>2, CutProps
<1> HIDE DEF f
<1>4. buf[u].data \o f \in Seq(Byte)
      /\ Len(buf[u].data \o f) = Len(buf[u].data) + k
  BY <1>1, <1>3, ConcatProperties
<1>5. own \in Buffer(Byte) /\ own.data = buf[u].data \o f
      /\ own.trash = buf[u].trash
  BY <1>1, <1>4 DEF Stored, Buffer
<1> HIDE DEF own
<1>6. BufLen(own) = BufLen(buf[u]) + k
      /\ BufLeft(own, Size) = BufLeft(buf[u], Size) - k
  BY <1>1, <1>2, <1>4, <1>5 DEF BufLen, BufLeft
<1>7. k = Len(in[u]) => Rest(in[u], k) = <<>>
  BY <1>1, <1>3, EmptySeq
<1>8. QED
  BY <1>2, <1>3, <1>5, <1>6, <1>7 DEF own, f, k

\* Moving the unread bytes to the front leaves room.
LEMMA RefreshProps ==
  ASSUME NEW b \in Buffer(Byte), BufLeft(b, Size) >= 0
  PROVE  LET r == RefreshedIfFull(b) IN
         /\ r \in Buffer(Byte) /\ r.data = b.data
         /\ BufLeft(r, Size) >= BufLeft(b, Size)
         /\ Len(b.data) < Size => BufLeft(r, Size) > 0
<1>1. b.trash \in Nat /\ b.data \in Seq(Byte) /\ Len(b.data) \in Nat
      /\ Size \in Nat
  BY SizeAssumption DEF Buffer
<1>3. Refreshed(b) \in Buffer(Byte) /\ Refreshed(b).data = b.data
      /\ Refreshed(b).trash = 0
  BY DEF Refreshed, Buffer
<1>4. CASE 4 * BufLeft(b, Size) <= Size
  <2>1. RefreshedIfFull(b) = Refreshed(b)
    BY <1>4 DEF RefreshedIfFull
  <2>2. QED
    BY <1>1, <1>3, <2>1 DEF BufLeft
<1>5. CASE ~(4 * BufLeft(b, Size) <= Size)
  <2>1. RefreshedIfFull(b) = b
    BY <1>5 DEF RefreshedIfFull
  <2>2. BufLeft(b, Size) > 0
    BY <1>1, <1>5 DEF BufLeft
  <2>3. QED
    BY <1>1, <2>1, <2>2 DEF BufLeft
<1>6. QED
  BY <1>4, <1>5

\* Sending: a part of the bytes of the buffer b goes to u.
LEMMA SendProps ==
  ASSUME TypeOK, NEW u \in User, NEW b \in Buffer(Byte), BufLeft(b, Size) >= 0
  PROVE  LET k == Writable(u, b)
             d == Drained(b, k)
         IN
         /\ k \in 0 .. Len(b.data) /\ k <= OutSize - unread[u]
         /\ d \in Buffer(Byte) /\ d.data = Rest(b.data, k)
         /\ Len(d.data) = Len(b.data) - k
         /\ BufLeft(d, Size) = BufLeft(b, Size)
         /\ Len(b.data) > 0 /\ unread[u] < OutSize => k > 0
         /\ unread[u] + k \in 0 .. OutSize
         /\ Front(b.data, k) \in Seq(Byte)
<1> DEFINE k == Writable(u, b)
           d == Drained(b, k)
<1>1. /\ b.trash \in Nat /\ b.data \in Seq(Byte) /\ Len(b.data) \in Nat
      /\ Size \in Nat
  BY SizeAssumption DEF Buffer
<1>2. unread[u] \in Nat /\ unread[u] <= OutSize /\ OutSize \in Nat
  BY TypeFacts
<1>3. /\ k \in 0 .. Len(b.data) /\ k <= OutSize - unread[u]
      /\ Len(b.data) > 0 /\ unread[u] < OutSize => k > 0
      /\ unread[u] + k \in 0 .. OutSize
  <2>1. PICK n, m : n = Len(b.data) /\ m = unread[u]
    OBVIOUS
  <2>2. k = IF n <= OutSize - m THEN n ELSE OutSize - m
    BY <2>1 DEF Writable, Least, BufLen
  <2> HIDE DEF k
  <2>3. n \in Nat /\ m \in Nat /\ m <= OutSize /\ OutSize \in Nat
    BY <1>1, <1>2, <2>1
  <2>4. k \in 0 .. n /\ k <= OutSize - m
    BY ONLY <2>2, <2>3
  <2>5. m + k \in 0 .. OutSize
    BY ONLY <2>3, <2>4
  <2>6. n > 0 /\ m < OutSize => k > 0
    BY ONLY <2>2, <2>3
  <2>7. QED
    BY <2>1, <2>4, <2>5, <2>6
<1> HIDE DEF k
<1>4. /\ Rest(b.data, k) \in Seq(Byte) /\ Len(Rest(b.data, k)) = Len(b.data) - k
      /\ Front(b.data, k) \in Seq(Byte)
  BY <1>1, <1>3, CutProps
<1>5. d \in Buffer(Byte) /\ d.data = Rest(b.data, k) /\ d.trash = b.trash + k
  BY <1>1, <1>3, <1>4 DEF Drained, Buffer
<1> HIDE DEF d
<1>6. BufLeft(d, Size) = BufLeft(b, Size)
  BY <1>1, <1>3, <1>4, <1>5 DEF BufLeft
<1>7. QED
  BY <1>3, <1>4, <1>5, <1>6 DEF d, k

\* What registering and cancelling leave alone of a batch.
SameBatch(r, e) ==
  /\ r \in Loop(User, None)
  /\ r.cur = e.cur
  /\ Len(r.batch) = Len(e.batch) /\ DOMAIN r.batch = DOMAIN e.batch
  /\ \A i \in DOMAIN e.batch :
       /\ r.batch[i].ev = e.batch[i].ev
       /\ r.batch[i].fd # e.batch[i].fd => i > e.cur /\ r.batch[i].fd = None

LEMMA SameBatchAdd ==
  ASSUME NEW e \in Loop(User, None), NEW u \in User, NEW f \in SUBSET Flag
  PROVE  /\ SameBatch(EventSet(e, u, f), e)
         /\ EventSet(e, u, f).flags = [e.flags EXCEPT ![u] = f]
         /\ EventSet(e, u, f) \in Loop(User, None)
BY AddProps DEF SameBatch

LEMMA SameBatchDel ==
  ASSUME NEW e \in Loop(User, None), NEW u \in User
  PROVE  /\ SameBatch(EventCancel(e, u), e)
         /\ EventCancel(e, u).flags = [e.flags EXCEPT ![u] = {}]
         /\ EventCancel(e, u) \in Loop(User, None)
<1> DEFINE r == EventCancel(e, u)
<1>1. /\ r \in Loop(User, None)
      /\ r.flags = [e.flags EXCEPT ![u] = {}]
      /\ r.cur = e.cur
      /\ Len(r.batch) = Len(e.batch)
      /\ DOMAIN r.batch = DOMAIN e.batch
      /\ \A i \in DOMAIN e.batch :
           /\ r.batch[i].ev = e.batch[i].ev
           /\ r.batch[i].fd = IF e.flags[u] # {} /\ i > e.cur
                                 /\ e.batch[i].fd = u
                              THEN None ELSE e.batch[i].fd
  BY DelProps
<1> HIDE DEF r
<1>2. SameBatch(r, e)
  BY <1>1 DEF SameBatch
<1>3. QED
  BY <1>1, <1>2 DEF r

LEMMA SameBatchTrans ==
  ASSUME NEW e, NEW d, NEW r, SameBatch(d, e), SameBatch(r, d)
  PROVE  SameBatch(r, e)
BY DEF SameBatch

\* A registration for reading if r, and for writing if w.
Want(r, w) == {f \in Flag : (f = "R" /\ r) \/ (f = "W" /\ w)}

LEMMA WantProps ==
  ASSUME NEW r, NEW w
  PROVE  /\ Want(r, w) \in SUBSET Flag
         /\ r /\ w => Want(r, w) = Flag
         /\ ~r /\ w => Want(r, w) = {"W"}
         /\ r /\ ~w => Want(r, w) = {"R"}
         /\ ~r /\ ~w => Want(r, w) = {}
         /\ Want(r, w) # {} <=> r \/ w
BY DEF Want, Flag

LEMMA WantAll ==
  ASSUME NEW r, NEW w, w
  PROVE  Want(r, w) = Want(r, TRUE)
BY DEF Want

\* The events after reading: what is wanted of both users.
LEMMA AfterReadProps ==
  ASSUME TypeOK, NEW u \in User, NEW own, NEW other,
         loop.flags[u] = Want(TRUE, BufLen(other) > 0)
  PROVE  LET r == EventsAfterRead(loop, u, own, other) IN
         /\ SameBatch(r, loop)
         /\ r.flags[u] = Want(BufLeft(own, Size) # 0, BufLen(other) > 0)
         /\ r.flags[Peer[u]] = Want(BufLeft(other, Size) # 0, TRUE)
<1> DEFINE p == Peer[u]
           full == BufLeft(own, Size) = 0
           some == BufLen(other) > 0
           e1 == IF ~full THEN loop
                 ELSE IF some THEN EventSet(loop, u, {"W"})
                              ELSE EventCancel(loop, u)
           g == IF BufLeft(other, Size) = 0 THEN {"W"} ELSE Flag
           r == EventSet(e1, p, g)
<1>1. r = EventsAfterRead(loop, u, own, other)
  BY DEF EventsAfterRead
<1>2. loop \in Loop(User, None) /\ loop.flags \in [User -> SUBSET Flag]
  BY TypeFacts DEF TypeOK
<1>3. /\ SameBatch(e1, loop) /\ e1 \in Loop(User, None)
      /\ e1.flags = [loop.flags EXCEPT ![u] = Want(~full, some)]
  <2>1. CASE ~full
    <3>1. e1 = loop
      BY <2>1
    <3>2. Want(~full, some) = loop.flags[u]
      BY <2>1
    <3>3. loop.flags = [loop.flags EXCEPT ![u] = loop.flags[u]]
      BY <1>2
    <3>4. QED
      BY <1>2, <3>1, <3>2, <3>3 DEF SameBatch
  <2>2. CASE full /\ some
    <3>1. e1 = EventSet(loop, u, {"W"})
      BY <2>2
    <3>2. {"W"} = Want(~full, some) /\ {"W"} \in SUBSET Flag
      BY <2>2, WantProps DEF Flag
    <3>3. QED
      BY <1>2, <3>1, <3>2, SameBatchAdd
  <2>3. CASE full /\ ~some
    <3>1. e1 = EventCancel(loop, u)
      BY <2>3
    <3>2. {} = Want(~full, some)
      BY <2>3, WantProps
    <3>3. QED
      BY <1>2, <3>1, <3>2, SameBatchDel
  <2>4. QED
    BY <2>1, <2>2, <2>3
<1> HIDE DEF e1
<1>4. p \in User /\ p # u /\ g \in SUBSET Flag
      /\ g = Want(BufLeft(other, Size) # 0, TRUE)
  BY PeerProps, WantProps DEF Flag
<1> HIDE DEF p, g
<1>5. e1 \in Loop(User, None) /\ p \in User /\ g \in SUBSET Flag
  BY <1>3, <1>4
<1>6. SameBatch(r, e1) /\ r.flags = [e1.flags EXCEPT ![p] = g]
  BY <1>5, SameBatchAdd
<1> HIDE DEF r
<1>7. SameBatch(r, loop)
  BY <1>3, <1>6, SameBatchTrans
<1>8. r.flags = [[loop.flags EXCEPT ![u] = Want(~full, some)] EXCEPT ![p] = g]
  BY <1>3, <1>6
<1>9. r.flags[u] = Want(~full, some) /\ r.flags[p] = g
  BY <1>2, <1>4, <1>8
<1>10. QED
  BY <1>1, <1>4, <1>7, <1>9 DEF p

\* The events after sending, likewise.
LEMMA AfterWriteProps ==
  ASSUME TypeOK, NEW u \in User, NEW own, NEW other,
         loop.flags[u] = Want(BufLeft(own, Size) > 0, TRUE)
  PROVE  LET r == EventsAfterWrite(loop, u, own, other) IN
         /\ SameBatch(r, loop)
         /\ r.flags[u] = Want(BufLeft(own, Size) > 0, BufLen(other) > 0)
         /\ r.flags[Peer[u]] = Want(TRUE, BufLen(own) # 0)
<1> DEFINE p == Peer[u]
           room == BufLeft(own, Size) > 0
           some == BufLen(other) > 0
           e1 == IF some THEN loop
                 ELSE IF room THEN EventSet(loop, u, {"R"})
                              ELSE EventCancel(loop, u)
           g == IF BufLen(own) = 0 THEN {"R"} ELSE Flag
           r == EventSet(e1, p, g)
<1>1. r = EventsAfterWrite(loop, u, own, other)
  BY DEF EventsAfterWrite
<1>2. loop \in Loop(User, None) /\ loop.flags \in [User -> SUBSET Flag]
  BY TypeFacts DEF TypeOK
<1>3. /\ SameBatch(e1, loop) /\ e1 \in Loop(User, None)
      /\ e1.flags = [loop.flags EXCEPT ![u] = Want(room, some)]
  <2>1. CASE some
    <3>1. e1 = loop
      BY <2>1
    <3>2. Want(room, some) = Want(room, TRUE)
      <4> HIDE DEF room, some
      <4>1. QED
        BY <2>1, WantAll
    <3>3. loop.flags = [loop.flags EXCEPT ![u] = loop.flags[u]]
      BY <1>2
    <3>4. Want(room, some) = loop.flags[u]
      BY <3>2
    <3>5. QED
      BY <1>2, <3>1, <3>3, <3>4 DEF SameBatch
  <2>2. CASE ~some /\ room
    <3>1. e1 = EventSet(loop, u, {"R"})
      BY <2>2
    <3>2. {"R"} = Want(room, some) /\ {"R"} \in SUBSET Flag
      BY <2>2, WantProps DEF Flag
    <3> DEFINE d == EventSet(loop, u, {"R"})
    <3>3. /\ SameBatch(d, loop) /\ d \in Loop(User, None)
          /\ d.flags = [loop.flags EXCEPT ![u] = {"R"}]
      BY <1>2, <3>2, SameBatchAdd
    <3> HIDE DEF d, e1, room, some
    <3>4. e1 = d
      BY <3>1 DEF d
    <3>5. QED
      BY <3>2, <3>3, <3>4
  <2>3. CASE ~some /\ ~room
    <3>1. e1 = EventCancel(loop, u)
      BY <2>3
    <3>2. {} = Want(room, some)
      BY <2>3, WantProps
    <3>3. QED
      BY <1>2, <3>1, <3>2, SameBatchDel
  <2>4. QED
    BY <2>1, <2>2, <2>3
<1> HIDE DEF e1
<1>4. p \in User /\ p # u /\ g \in SUBSET Flag
      /\ g = Want(TRUE, BufLen(own) # 0)
  BY PeerProps, WantProps DEF Flag
<1> HIDE DEF p, g
<1>5. e1 \in Loop(User, None) /\ p \in User /\ g \in SUBSET Flag
  BY <1>3, <1>4
<1>6. SameBatch(r, e1) /\ r.flags = [e1.flags EXCEPT ![p] = g]
  BY <1>5, SameBatchAdd
<1> HIDE DEF r
<1>7. SameBatch(r, loop)
  BY <1>3, <1>6, SameBatchTrans
<1>8. r.flags = [[loop.flags EXCEPT ![u] = Want(room, some)] EXCEPT ![p] = g]
  BY <1>3, <1>6
<1>9. r.flags[u] = Want(room, some) /\ r.flags[p] = g
  BY <1>2, <1>4, <1>8
<1>10. QED
  BY <1>1, <1>4, <1>7, <1>9 DEF p

\* An entry without a socket is skipped.
LEMMA EventSkipStep ==
  ASSUME Base, EventSkip
  PROVE  Base'
<1> USE DEF Base, client
<1>0. TypeOK
  OBVIOUS
<1>a. /\ loop' \in Loop(User, None) /\ loop'.flags = loop.flags
      /\ loop'.batch = loop.batch /\ loop'.cur = loop.cur + 1
      /\ loop.cur + 1 \in DOMAIN loop.batch
  BY <1>0, AdvanceProps, TypeFacts DEF EventSkip, TypeOK, Control, BatchDone
<1>1. TypeOK'
  BY TypeFacts, PeerProps, <1>a DEF EventSkip, TypeOK
<1>2. Control'
  BY TypeFacts, PeerProps, <1>a DEF EventSkip, TypeOK, Control, Current
<1>3. Registration'
  BY TypeFacts, PeerProps, <1>a DEF EventSkip, Registration, Wanted, Control
<1>4. Distinct'
  BY TypeFacts, PeerProps, <1>a DEF EventSkip, Distinct
<1>5. Entries'
  BY TypeFacts, PeerProps, <1>a DEF EventSkip, Entries, Doable, Control,
     Current
<1>6. NoStaleEntry'
  BY TypeFacts, PeerProps, <1>a DEF EventSkip, NoStaleEntry, Registered
<1>7. Ended'
  BY TypeFacts, PeerProps, <1>a DEF EventSkip, Ended, Control, Current
<1>8. QED
  BY <1>1, <1>2, <1>3, <1>4, <1>5, <1>6, <1>7

\* A handler begins.
LEMMA EventBeginStep ==
  ASSUME Base, EventBegin
  PROVE  Base'
<1> USE DEF Base, client
<1>0. TypeOK
  OBVIOUS
<1>a. /\ loop' \in Loop(User, None) /\ loop'.flags = loop.flags
      /\ loop'.batch = loop.batch /\ loop'.cur = loop.cur + 1
      /\ loop.cur + 1 \in DOMAIN loop.batch
  BY <1>0, AdvanceProps, TypeFacts DEF EventBegin, TypeOK, Control, BatchDone
<1>x. PICK x : x = loop.batch[loop.cur + 1]
  OBVIOUS
<1>b. /\ Current' = x /\ x.fd \in User /\ st \in {"EST", "CLEAN"}
      /\ "E" \notin x.ev /\ x.ev # {} /\ x.ev \subseteq Flag
      /\ Doable(x.fd, x.ev)
  <2>1. Current' = x /\ x.fd # None /\ "E" \notin x.ev /\ st # "KILLED"
    BY <1>a, <1>x DEF EventBegin, Current
  <2>2. x.fd \in User /\ x.ev \subseteq Flag
    BY <1>0, <1>a, <1>x, <2>1, TypeFacts DEF Condition
  <2>3. loop.cur < loop.cur + 1
    BY <1>0, TypeFacts
  <2>4. QED
    BY <1>a, <1>x, <2>1, <2>2, <2>3 DEF Entries, NoStaleEntry
<1>1. TypeOK'
  BY TypeFacts, PeerProps, <1>a DEF EventBegin, TypeOK
<1>2. Control'
  <2>1. pc' = IF x.fd = flush THEN "flush"
              ELSE IF "R" \in x.ev THEN "read" ELSE "write"
    BY <1>x DEF EventBegin
  <2>2. st' = st /\ flush' = flush
    BY DEF EventBegin
  <2>3. st = "EST" => x.fd # flush
    BY <1>b, PeerProps DEF Control
  <2>4. st = "CLEAN" => x.fd = flush /\ "W" \in x.ev
    BY <1>b DEF Doable, Flag
  <2>5. "R" \notin x.ev => "W" \in x.ev
    BY <1>b DEF Flag
  <2>6. QED
    BY <1>0, <1>a, <1>b, <2>1, <2>2, <2>3, <2>4, <2>5, TypeFacts DEF Control
<1>3. Registration'
  BY TypeFacts, PeerProps, <1>a DEF EventBegin, Registration, Wanted, Control
<1>4. Distinct'
  BY TypeFacts, PeerProps, <1>a DEF EventBegin, Distinct
<1>5. Entries'
  <2>1. /\ st' = st /\ rst' = rst /\ unread' = unread /\ buf' = buf
        /\ flush' = flush
    BY DEF EventBegin
  <2>2. \A i \in DOMAIN loop'.batch : loop'.cur < i /\ loop'.batch[i].fd # None
          => loop'.batch[i].ev # {}
             /\ Doable(loop.batch[i].fd, loop.batch[i].ev)'
    BY <1>0, <1>a, <2>1, TypeFacts DEF Entries, Doable, EventBegin
  <2>3. Doable(x.fd, x.ev)' /\ ("W" \in x.ev => Doable(x.fd, {"W"})')
    BY <1>b, <2>1 DEF Doable
  <2>4. QED
    BY <1>b, <1>2, <2>2, <2>3 DEF Entries, Control
<1>6. NoStaleEntry'
  BY TypeFacts, PeerProps, <1>a DEF EventBegin, NoStaleEntry, Registered
<1>7. Ended'
  BY TypeFacts, PeerProps, <1>a DEF EventBegin, Ended, Control, Current
<1>8. QED
  BY <1>1, <1>2, <1>3, <1>4, <1>5, <1>6, <1>7

\* The end of file or an error is met: what came before it is stored.
LEMMA ReadEndsStep ==
  ASSUME Base, ReadEnds
  PROVE  Base'
<1> USE DEF Base, client
<1>0. TypeOK
  OBVIOUS
<1>u. PICK u : u = Current.fd
  OBVIOUS
<1>v. /\ u \in User /\ st = "EST" /\ loop.cur \in DOMAIN loop.batch
      /\ loop.batch[loop.cur].fd = u
  BY <1>u DEF ReadEnds, Control, Current
<1> DEFINE k == Readable(u)
           own == Stored(buf[u], Front(in[u], k))
<1>k. /\ BufLeft(buf[u], Size) > 0 /\ RecvEnds(u)
      /\ k = Len(in[u])
      /\ own \in Buffer(Byte) /\ BufLeft(own, Size) >= 0
      /\ Rest(in[u], k) = <<>>
      /\ BufLen(own) >= BufLen(buf[u])
  <2>1. BufLeft(buf[u], Size) > 0
    BY <1>u, <1>v DEF ReadEnds, Entries, Doable, Control
  <2>2. RecvEnds(u)
    BY <1>u, <2>1 DEF ReadEnds
  <2>3. k = Len(in[u])
    BY <1>0, <1>v, <2>2, ReadProps DEF RecvEnds, RecvEmpty
  <2>4. /\ own \in Buffer(Byte) /\ BufLen(own) = BufLen(buf[u]) + k
        /\ BufLeft(own, Size) = BufLeft(buf[u], Size) - k
        /\ k <= BufLeft(buf[u], Size) /\ Rest(in[u], k) = <<>>
    BY <1>0, <1>v, <2>3, ReadProps
  <2>5. BufLen(buf[u]) \in Nat /\ BufLeft(buf[u], Size) \in Int /\ k \in Nat
    BY SMTT(20), <1>0, <1>v, <2>3, TypeFacts DEF BufLen, BufLeft
  <2>6. QED
    <3> HIDE DEF k, own
    <3>1. QED
      BY <2>1, <2>2, <2>3, <2>4, <2>5
<1>f. /\ buf' = [buf EXCEPT ![u] = own] /\ in' = [in EXCEPT ![u] = <<>>]
      /\ pc' = "fail"
      /\ UNCHANGED <<st, flush, loop, unread, got, sent, eof, rst, fault>>
  BY <1>u, <1>k DEF ReadEnds, Stored
<1> HIDE DEF k, own
<1>1. TypeOK'
  <2>1. buf' \in [User -> Buffer(Byte)]
    BY <1>0, <1>v, <1>k, <1>f DEF TypeOK
  <2>2. \A v \in User : BufLeft(buf'[v], Size) >= 0
    BY <1>0, <1>v, <1>k, <1>f DEF TypeOK
  <2>3. in' \in [User -> Seq(Byte)]
    BY <1>0, <1>v, <1>f, EmptySeq DEF TypeOK
  <2>4. QED
    BY <1>0, <1>f, <2>1, <2>2, <2>3 DEF TypeOK
<1>2. Control'
  BY <1>u, <1>v, <1>f DEF ReadEnds, Control, Current
<1>3. Registration'
  BY <1>v, <1>f DEF Registration
<1>4. Distinct'
  BY <1>f DEF Distinct
<1>5. Entries'
  <2>1. ASSUME NEW i \in DOMAIN loop.batch, loop.cur < i,
               loop.batch[i].fd # None
        PROVE  loop.batch[i].ev # {} /\ Doable(loop.batch[i].fd, loop.batch[i].ev)'
    <3>1. loop.batch[i].fd # u /\ loop.batch[i].fd \in User
      BY <1>0, <1>v, <2>1, TypeFacts DEF Distinct
    <3>2. Doable(loop.batch[i].fd, loop.batch[i].ev)
      BY <1>v, <2>1 DEF Entries
    <3>3. \A v \in User : BufLen(buf[v]) > 0 => BufLen(buf'[v]) > 0
      BY <1>0, <1>k, <1>f, TypeFacts DEF TypeOK, BufLen, Buffer
    <3>4. QED
      BY <1>v, <1>f, <2>1, <3>1, <3>2, <3>3, PeerProps DEF Doable, Entries
  <2>2. QED
    BY <1>f, <2>1 DEF Entries
<1>6. NoStaleEntry'
  BY <1>f DEF NoStaleEntry, Registered
<1>7. Ended'
  <2>1. Current' = Current
    BY <1>f DEF Current
  <2>2. in'[u] = <<>>
    BY <1>0, <1>v, <1>f DEF TypeOK
  <2>3. QED
    BY <1>u, <1>k, <1>f, <2>1, <2>2 DEF Ended, RecvEnds
<1>8. QED
  BY <1>1, <1>2, <1>3, <1>4, <1>5, <1>6, <1>7

\* A registration between two handlers.
LEMMA WantedIs ==
  ASSUME NEW u \in User
  PROVE  Wanted(u) = Want(BufLeft(buf[u], Size) > 0, BufLen(buf[Peer[u]]) > 0)
BY DEF Wanted, Want

\* What a batch needs when only the registrations and the buffers change: the
\* entries behind the current one belong to the peer of its user.
LEMMA SameBatchStep ==
  ASSUME Base, st = "EST", NEW u \in User, NEW r,
         loop.cur \in DOMAIN loop.batch, loop.batch[loop.cur].fd = u,
         SameBatch(r, loop)
  PROVE  /\ \A i, j \in DOMAIN r.batch :
              i # j /\ r.batch[i].fd = r.batch[j].fd => r.batch[i].fd = None
         /\ \A i \in DOMAIN r.batch : r.cur < i /\ r.batch[i].fd # None =>
              /\ i \in DOMAIN loop.batch /\ loop.cur < i
              /\ r.batch[i].ev = loop.batch[i].ev
              /\ r.batch[i].fd = Peer[u] /\ loop.batch[i].fd = Peer[u]
              /\ r.batch[i].ev # {}
              /\ Doable(Peer[u], r.batch[i].ev)
         /\ r.cur \in DOMAIN r.batch /\ r.cur <= Len(r.batch)
         /\ r.batch[r.cur].fd = u
         /\ r.batch[r.cur].ev = loop.batch[loop.cur].ev
         /\ r \in Loop(User, None)
<1>0. TypeOK
  BY DEF Base
<1>1. \A i, j \in DOMAIN r.batch :
        i # j /\ r.batch[i].fd = r.batch[j].fd => r.batch[i].fd = None
  BY DEF SameBatch, Base, Distinct
<1>2. ASSUME NEW i \in DOMAIN r.batch, r.cur < i, r.batch[i].fd # None
      PROVE  /\ i \in DOMAIN loop.batch /\ loop.cur < i
             /\ r.batch[i].ev = loop.batch[i].ev
             /\ r.batch[i].fd = Peer[u] /\ loop.batch[i].fd = Peer[u]
             /\ r.batch[i].ev # {}
             /\ Doable(Peer[u], r.batch[i].ev)
  <2>1. i \in DOMAIN loop.batch /\ loop.cur < i
        /\ r.batch[i].ev = loop.batch[i].ev /\ r.batch[i].fd = loop.batch[i].fd
    BY <1>2 DEF SameBatch
  <2>2. i # loop.cur
    BY <1>0, <2>1, TypeFacts
  <2>3. loop.batch[i].fd # u /\ loop.batch[i].fd \in User
    BY <1>0, <1>2, <2>1, <2>2, TypeFacts, PeerProps DEF Base, Distinct
  <2>4. loop.batch[i].fd = Peer[u]
    BY <2>3, PeerProps
  <2>5. loop.batch[i].ev # {} /\ Doable(loop.batch[i].fd, loop.batch[i].ev)
    BY <1>2, <2>1 DEF Base, Entries
  <2>6. QED
    BY <2>1, <2>4, <2>5
<1>3. /\ r.cur \in DOMAIN r.batch /\ r.cur <= Len(r.batch)
      /\ r.batch[r.cur].ev = loop.batch[loop.cur].ev
      /\ r \in Loop(User, None)
  BY DEF SameBatch, Base, Control
<1>4. r.batch[r.cur].fd = u
  <2>1. ~(loop.cur > loop.cur)
    BY <1>0, TypeFacts
  <2>2. QED
    BY <2>1 DEF SameBatch
<1>5. QED
  BY <1>1, <1>2, <1>3, <1>4

\* Something is read.
LEMMA ReadSomeStep ==
  ASSUME Base, ReadSome
  PROVE  Base'
<1> USE DEF client
<1>0. TypeOK
  BY DEF Base
<1>u. PICK u : u = Current.fd
  OBVIOUS
<1>v. /\ u \in User /\ st = "EST" /\ loop.cur \in DOMAIN loop.batch
      /\ loop.batch[loop.cur].fd = u /\ pc = "read"
      /\ Doable(u, loop.batch[loop.cur].ev) /\ "R" \in loop.batch[loop.cur].ev
      /\ "E" \notin loop.batch[loop.cur].ev
  BY <1>u DEF ReadSome, Base, Control, Current, Entries
<1>p. PICK p : p = Peer[u]
  OBVIOUS
<1>q. p \in User /\ p # u /\ Peer[p] = u /\ User = {u, p}
  BY <1>v, <1>p, PeerProps
<1> DEFINE k == Readable(u)
           own == Stored(buf[u], Front(in[u], k))
           r == EventsAfterRead(loop, u, own, buf[p])
<1>k. /\ own \in Buffer(Byte) /\ BufLeft(own, Size) >= 0
      /\ BufLen(own) > 0 /\ Rest(in[u], k) \in Seq(Byte)
      /\ BufLeft(buf[u], Size) > 0
  <2>1. /\ own \in Buffer(Byte) /\ BufLen(own) = BufLen(buf[u]) + k
        /\ BufLeft(own, Size) = BufLeft(buf[u], Size) - k
        /\ k <= BufLeft(buf[u], Size) /\ Rest(in[u], k) \in Seq(Byte)
        /\ k \in 0 .. Len(in[u])
    BY <1>0, <1>v, ReadProps
  <2>2. BufLen(buf[u]) \in Nat /\ BufLeft(buf[u], Size) \in Int /\ k \in Int
    <3> HIDE DEF k, own
    <3>1. k \in Int
      BY <2>1
    <3>2. QED
      BY <1>0, <1>v, <3>1, LeftType
  <2>3. k > 0
    BY <1>u DEF ReadSome
  <2>4. BufLeft(buf[u], Size) > 0
    BY <1>v DEF Doable
  <2>5. QED
    <3> HIDE DEF k, own
    <3>1. QED
      BY <2>1, <2>2, <2>3, <2>4
<1>f. /\ buf' = [buf EXCEPT ![u] = own]
      /\ in' = [in EXCEPT ![u] = Rest(in[u], k)]
      /\ loop' = r
      /\ pc' = IF "W" \in loop.batch[loop.cur].ev THEN "write" ELSE "loop"
      /\ UNCHANGED <<st, flush, unread, got, sent, eof, rst, fault>>
  BY <1>u, <1>p DEF ReadSome, AfterRead, Current
<1> HIDE DEF k, own
<1>r. /\ SameBatch(r, loop)
      /\ r.flags[u] = Want(BufLeft(own, Size) # 0, BufLen(buf[p]) > 0)
      /\ r.flags[p] = Want(BufLeft(buf[p], Size) # 0, TRUE)
  <2>1. loop.flags[u] = Want(BufLeft(buf[u], Size) > 0, BufLen(buf[p]) > 0)
    BY <1>v, <1>p, WantedIs DEF Base, Registration
  <2>2. loop.flags[u] = Want(TRUE, BufLen(buf[p]) > 0)
    BY <1>k, <2>1 DEF Want
  <2>3. /\ SameBatch(r, loop)
        /\ r.flags[u] = Want(BufLeft(own, Size) # 0, BufLen(buf[p]) > 0)
        /\ r.flags[Peer[u]] = Want(BufLeft(buf[p], Size) # 0, TRUE)
    <3>1. PICK o, t : o = own /\ t = buf[p]
      OBVIOUS
    <3>2. loop.flags[u] = Want(TRUE, BufLen(t) > 0)
      BY <2>2, <3>1
    <3> DEFINE q == EventsAfterRead(loop, u, o, t)
    <3>3. /\ SameBatch(q, loop)
          /\ q.flags[u] = Want(BufLeft(o, Size) # 0, BufLen(t) > 0)
          /\ q.flags[Peer[u]] = Want(BufLeft(t, Size) # 0, TRUE)
      <4>1. u \in User
        BY <1>v
      <4>2. QED
        BY <1>0, <4>1, <3>2, AfterReadProps, Zenon
    <3>4. QED
      BY <3>1, <3>3
  <2>4. QED
    BY <1>p, <2>3
<1> HIDE DEF r
<1>b. /\ buf'[u] = own /\ buf'[p] = buf[p]
  BY <1>0, <1>v, <1>q, <1>f DEF TypeOK
<1>s. /\ \A i, j \in DOMAIN r.batch :
           i # j /\ r.batch[i].fd = r.batch[j].fd => r.batch[i].fd = None
      /\ \A i \in DOMAIN r.batch : r.cur < i /\ r.batch[i].fd # None =>
           /\ r.batch[i].fd = p /\ r.batch[i].ev # {}
           /\ Doable(p, r.batch[i].ev)
      /\ r.cur \in DOMAIN r.batch /\ r.cur <= Len(r.batch)
      /\ r.batch[r.cur].fd = u
      /\ r.batch[r.cur].ev = loop.batch[loop.cur].ev
      /\ r \in Loop(User, None)
  BY <1>v, <1>p, <1>r, SameBatchStep
<1>1. TypeOK'
  <2>1. buf' \in [User -> Buffer(Byte)]
    BY <1>0, <1>v, <1>k, <1>f DEF TypeOK
  <2>2. \A v \in User : BufLeft(buf'[v], Size) >= 0
    BY <1>0, <1>v, <1>k, <1>f DEF TypeOK
  <2>3. in' \in [User -> Seq(Byte)]
    BY <1>0, <1>v, <1>k, <1>f DEF TypeOK
  <2>4. QED
    BY <1>0, <1>f, <1>s, <2>1, <2>2, <2>3 DEF TypeOK
<1>2. Control'
  BY <1>v, <1>f, <1>s DEF Base, Control, Current
<1>3. Registration'
  <2>1. r.flags[u] = Wanted(u)'
    <3>1. BufLeft(own, Size) # 0 <=> BufLeft(own, Size) > 0
      BY <1>k, SizeAssumption DEF BufLeft, Buffer
    <3>2. QED
      BY <1>b, <1>p, <1>r, <3>1 DEF Want, Wanted
  <2>2. r.flags[p] = Wanted(p)'
    <3>1. BufLeft(buf[p], Size) # 0 <=> BufLeft(buf[p], Size) > 0
      BY <1>0, <1>q, LeftType
    <3>2. QED
      BY <1>b, <1>k, <1>q, <1>r, <3>1 DEF Want, Wanted
  <2>3. QED
    BY <1>v, <1>q, <1>f, <2>1, <2>2 DEF Registration
<1>4. Distinct'
  BY <1>f, <1>s DEF Distinct
<1>5. Entries'
  <2>1. \A ev : Doable(p, ev) => Doable(p, ev)'
    BY <1>v, <1>q, <1>b, <1>k, <1>f DEF Doable
  <2>2. "W" \in loop.batch[loop.cur].ev => Doable(u, {"W"})'
    BY <1>v, <1>p, <1>b, <1>f DEF Doable
  <2>3. \A i \in DOMAIN r.batch : r.cur < i /\ r.batch[i].fd # None =>
          r.batch[i].ev # {} /\ r.batch[i].fd = p
    BY <1>s
  <2>4. \A i \in DOMAIN r.batch : r.cur < i /\ r.batch[i].fd # None =>
          Doable(p, loop.batch[i].ev)'
    BY <1>f, <1>s, <2>1
  <2>5. QED
    BY <1>f, <1>s, <2>2, <2>3, <2>4 DEF Entries, Current, Doable
<1>6. NoStaleEntry'
  <2>1. r.flags[p] # {}
    BY <1>r, WantProps
  <2>2. QED
    BY <1>v, <1>f, <1>s, <2>1 DEF NoStaleEntry, Registered
<1>7. Ended'
  BY <1>f DEF Base, Ended
<1>8. QED
  BY <1>1, <1>2, <1>3, <1>4, <1>5, <1>6, <1>7 DEF Base

\* Nothing could be sent: the connection was reset.
LEMMA WriteFailsStep ==
  ASSUME Base, WriteFails
  PROVE  Base'
<1> USE DEF client
<1>0. TypeOK
  BY DEF Base
<1>u. PICK u : u = Current.fd
  OBVIOUS
<1>v. /\ u \in User /\ st = "EST" /\ loop.cur \in DOMAIN loop.batch
      /\ loop.batch[loop.cur].fd = u /\ pc = "write"
      /\ Doable(u, {"W"}) /\ "E" \notin loop.batch[loop.cur].ev
  BY <1>u DEF WriteFails, Base, Control, Current, Entries
<1>p. PICK p : p = Peer[u]
  OBVIOUS
<1>q. p \in User /\ p # u /\ Peer[p] = u /\ User = {u, p}
  BY <1>v, <1>p, PeerProps
<1> DEFINE b == RefreshedIfFull(buf[p])
<1>k. /\ buf[p] \in Buffer(Byte) /\ BufLeft(buf[p], Size) >= 0
      /\ b \in Buffer(Byte) /\ b.data = buf[p].data
      /\ BufLeft(b, Size) >= BufLeft(buf[p], Size)
      /\ BufLeft(b, Size) \in Int /\ BufLeft(buf[p], Size) \in Int
  <2>1. buf[p] \in Buffer(Byte) /\ BufLeft(buf[p], Size) >= 0
    BY <1>0, <1>q DEF TypeOK
  <2>2. b \in Buffer(Byte) /\ b.data = buf[p].data
        /\ BufLeft(b, Size) >= BufLeft(buf[p], Size)
    BY <2>1, RefreshProps
  <2> HIDE DEF b
  <2>3. BufLeft(b, Size) \in Int /\ BufLeft(buf[p], Size) \in Int
    BY <2>1, <2>2, SizeAssumption DEF BufLeft, Buffer
  <2>4. QED
    BY <2>1, <2>2, <2>3
<1>f. /\ buf' = [buf EXCEPT ![p] = b] /\ pc' = "fail"
      /\ UNCHANGED <<st, flush, loop, in, unread, got, sent, eof, rst, fault>>
  BY <1>u, <1>p DEF WriteFails
<1> HIDE DEF b
<1>b. buf'[u] = buf[u] /\ buf'[p] = b
  BY <1>0, <1>q, <1>v, <1>f DEF TypeOK
<1>e. u \in rst
  <2>1. BufLen(buf[p]) > 0 /\ (unread[u] < OutSize \/ u \in rst)
    BY <1>v, <1>p DEF Doable
  <2>2. SendFails(u, buf[p])
    BY <1>u, <1>p DEF WriteFails
  <2>3. CASE u \notin rst
    <3>1. Writable(u, buf[p]) = 0
      BY <2>2, <2>3 DEF SendFails
    <3>2. Len(buf[p].data) > 0 /\ unread[u] < OutSize
      BY <2>1, <2>3 DEF BufLen
    <3>3. Writable(u, buf[p]) > 0
      BY <1>0, <1>v, <1>k, <3>2, SendProps, Zenon
    <3>4. QED
      BY <3>1, <3>3
  <2>4. QED
    BY <2>3
<1>1. TypeOK'
  <2>1. buf' \in [User -> Buffer(Byte)]
    BY <1>0, <1>q, <1>k, <1>f DEF TypeOK
  <2>2. \A v \in User : BufLeft(buf'[v], Size) >= 0
    BY <1>0, <1>q, <1>k, <1>b DEF TypeOK
  <2>3. QED
    BY <1>0, <1>f, <2>1, <2>2 DEF TypeOK
<1>2. Control'
  BY <1>v, <1>f DEF Base, Control, Current
<1>3. Registration'
  BY <1>v, <1>f DEF Registration
<1>4. Distinct'
  BY <1>f DEF Base, Distinct
<1>5. Entries'
  <2>1. \A v \in User : \A ev : Doable(v, ev) => Doable(v, ev)'
    BY <1>v, <1>q, <1>k, <1>b, <1>f DEF Doable, BufLen
  <2>2. ASSUME NEW i \in DOMAIN loop.batch, loop.cur < i,
               loop.batch[i].fd # None
        PROVE  loop.batch[i].ev # {}
               /\ Doable(loop.batch[i].fd, loop.batch[i].ev)'
    <3>1. loop.batch[i].ev # {} /\ Doable(loop.batch[i].fd, loop.batch[i].ev)
      BY <1>v, <2>2 DEF Base, Entries
    <3>2. loop.batch[i].fd \in User
      BY <1>0, <2>2, TypeFacts
    <3>3. QED
      BY <1>f, <2>1, <3>1, <3>2
  <2>3. QED
    BY <1>f, <2>2 DEF Entries
<1>6. NoStaleEntry'
  BY <1>f DEF Base, NoStaleEntry, Registered
<1>7. Ended'
  <2>1. Current' = Current
    BY <1>f DEF Current
  <2>2. QED
    BY <1>u, <1>e, <1>f, <2>1 DEF Base, Ended
<1>8. QED
  BY <1>1, <1>2, <1>3, <1>4, <1>5, <1>6, <1>7 DEF Base

\* The process is gone.
LEMMA KilledStep ==
  ASSUME Base, Killed
  PROVE  Base'
<1> USE DEF Killed, client
<1>1. TypeOK'
  BY DEF Base, TypeOK
<1>2. Control'
  BY DEF Base, Control
<1>3. Registration' /\ Distinct' /\ Entries' /\ Ended'
  BY DEF Base, Registration, Distinct, Entries, Ended
<1>4. NoStaleEntry'
  BY DEF Base, NoStaleEntry, Registered
<1>5. QED
  BY <1>1, <1>2, <1>3, <1>4 DEF Base

\* Something is sent.
LEMMA WriteSomeStep ==
  ASSUME Base, WriteSome
  PROVE  Base'
<1> USE DEF client
<1>0. TypeOK
  BY DEF Base
<1>u. PICK u : u = Current.fd
  OBVIOUS
<1>v. /\ u \in User /\ st = "EST" /\ loop.cur \in DOMAIN loop.batch
      /\ loop.batch[loop.cur].fd = u /\ pc = "write"
      /\ Doable(u, {"W"})
  BY <1>u DEF WriteSome, Base, Control, Current, Entries
<1>p. PICK p : p = Peer[u]
  OBVIOUS
<1>q. p \in User /\ p # u /\ Peer[p] = u /\ User = {u, p}
  BY <1>v, <1>p, PeerProps
<1> DEFINE k == Writable(u, buf[p])
           d == Drained(buf[p], k)
           b == RefreshedIfFull(d)
           r == EventsAfterWrite(loop, u, buf[u], b)
<1>k. /\ b \in Buffer(Byte) /\ BufLeft(b, Size) > 0
      /\ BufLen(buf[p]) > 0
      /\ unread[u] + k \in 0 .. OutSize
      /\ Front(buf[p].data, k) \in Seq(Byte)
  <2>1. buf[p] \in Buffer(Byte) /\ BufLeft(buf[p], Size) >= 0
        /\ Len(buf[p].data) \in Nat /\ Len(buf[p].data) <= Size
        /\ BufLen(buf[p]) > 0
    BY <1>0, <1>q, <1>v, <1>p, LeftType DEF TypeOK, BufLen, Doable
  <2>2. /\ k \in 0 .. Len(buf[p].data)
        /\ d \in Buffer(Byte)
        /\ Len(d.data) = Len(buf[p].data) - k
        /\ BufLeft(d, Size) = BufLeft(buf[p], Size)
        /\ unread[u] + k \in 0 .. OutSize
        /\ Front(buf[p].data, k) \in Seq(Byte)
    BY <1>0, <1>v, <2>1, SendProps, Zenon
  <2>3. k > 0
    <3>1. k # 0
      BY <1>u, <1>p, <2>1 DEF WriteSome, SendFails, SendKills, Writable
    <3> HIDE DEF k
    <3>2. QED
      BY <2>1, <2>2, <3>1
  <2> HIDE DEF k, d
  <2>4. BufLeft(d, Size) >= 0 /\ Len(d.data) < Size
    BY <2>1, <2>2, <2>3, SizeAssumption
  <2>5. b \in Buffer(Byte) /\ BufLeft(b, Size) > 0
    BY <2>2, <2>4, RefreshProps, Zenon
  <2>6. QED
    BY <2>1, <2>2, <2>5
<1>f. /\ buf' = [buf EXCEPT ![p] = b]
      /\ unread' = [unread EXCEPT ![u] = unread[u] + k]
      /\ got' = [got EXCEPT ![u] = got[u] \o Front(buf[p].data, k)]
      /\ loop' = r /\ pc' = "loop"
      /\ UNCHANGED <<st, flush, in, sent, eof, rst, fault>>
  BY <1>u, <1>p DEF WriteSome, Send
<1> HIDE DEF k, d, b
<1>r. /\ SameBatch(r, loop)
      /\ r.flags[u] = Want(BufLeft(buf[u], Size) > 0, BufLen(b) > 0)
      /\ r.flags[p] = Want(TRUE, BufLen(buf[u]) # 0)
  <2>1. loop.flags[u] = Want(BufLeft(buf[u], Size) > 0, BufLen(buf[p]) > 0)
    BY <1>v, <1>p, WantedIs DEF Base, Registration
  <2>2. loop.flags[u] = Want(BufLeft(buf[u], Size) > 0, TRUE)
    BY <1>k, <2>1, WantAll
  <2>3. PICK o, t : o = buf[u] /\ t = b
    OBVIOUS
  <2>4. loop.flags[u] = Want(BufLeft(o, Size) > 0, TRUE)
    BY <2>2, <2>3
  <2> DEFINE q == EventsAfterWrite(loop, u, o, t)
  <2>5. /\ SameBatch(q, loop)
        /\ q.flags[u] = Want(BufLeft(o, Size) > 0, BufLen(t) > 0)
        /\ q.flags[Peer[u]] = Want(TRUE, BufLen(o) # 0)
    <3>1. u \in User
      BY <1>v
    <3>2. QED
      BY <1>0, <3>1, <2>4, AfterWriteProps, Zenon
  <2>6. QED
    BY <1>p, <2>3, <2>5
<1> HIDE DEF r
<1>b. /\ buf'[p] = b /\ buf'[u] = buf[u] /\ unread'[p] = unread[p]
  BY <1>0, <1>v, <1>q, <1>f DEF TypeOK
<1>s. /\ \A i, j \in DOMAIN r.batch :
           i # j /\ r.batch[i].fd = r.batch[j].fd => r.batch[i].fd = None
      /\ \A i \in DOMAIN r.batch : r.cur < i /\ r.batch[i].fd # None =>
           /\ r.batch[i].fd = p /\ r.batch[i].ev # {}
           /\ Doable(p, r.batch[i].ev)
      /\ r.cur \in DOMAIN r.batch /\ r.cur <= Len(r.batch)
      /\ r \in Loop(User, None)
  BY <1>v, <1>p, <1>r, SameBatchStep
<1>1. TypeOK'
  <2>1. buf' \in [User -> Buffer(Byte)]
    BY <1>0, <1>q, <1>k, <1>f DEF TypeOK
  <2>2. \A v \in User : BufLeft(buf'[v], Size) >= 0
    <3>1. BufLeft(b, Size) \in Int
      BY <1>k, SizeAssumption DEF BufLeft, Buffer
    <3>2. QED
      BY <1>0, <1>q, <1>k, <1>b, <3>1 DEF TypeOK
  <2>3. unread' \in [User -> 0 .. OutSize]
    BY <1>0, <1>v, <1>k, <1>f DEF TypeOK
  <2>4. got' \in [User -> Seq(Byte)]
    <3>1. got[u] \o Front(buf[p].data, k) \in Seq(Byte)
      BY <1>0, <1>v, <1>k, ConcatProperties DEF TypeOK
    <3>2. QED
      BY <1>0, <1>f, <3>1 DEF TypeOK
  <2>5. QED
    BY <1>0, <1>f, <1>s, <2>1, <2>2, <2>3, <2>4 DEF TypeOK
<1>2. Control'
  BY <1>v, <1>f, <1>s DEF Base, Control
<1>3. Registration'
  <2>1. r.flags[u] = Wanted(u)'
    BY <1>b, <1>p, <1>r DEF Want, Wanted
  <2>2. r.flags[p] = Wanted(p)'
    <3>1. BufLen(buf[u]) # 0 <=> BufLen(buf[u]) > 0
      BY <1>0, <1>v, LeftType
    <3>2. QED
      BY <1>b, <1>k, <1>q, <1>r, <3>1 DEF Want, Wanted
  <2>3. QED
    BY <1>v, <1>q, <1>f, <2>1, <2>2 DEF Registration
<1>4. Distinct'
  BY <1>f, <1>s DEF Distinct
<1>5. Entries'
  <2>1. \A ev : Doable(p, ev) => Doable(p, ev)'
    BY <1>v, <1>q, <1>b, <1>k, <1>f DEF Doable
  <2>2. \A i \in DOMAIN r.batch : r.cur < i /\ r.batch[i].fd # None =>
          /\ r.batch[i].ev # {} /\ r.batch[i].fd = p
          /\ Doable(p, loop.batch[i].ev)'
    BY <1>f, <1>s, <2>1
  <2>3. QED
    BY <1>f, <2>2 DEF Entries, Doable
<1>6. NoStaleEntry'
  <2>1. r.flags[p] # {}
    BY <1>r, WantProps
  <2>2. QED
    BY <1>v, <1>f, <1>s, <2>1 DEF NoStaleEntry, Registered
<1>7. Ended'
  BY <1>f DEF Base, Ended
<1>8. QED
  BY <1>1, <1>2, <1>3, <1>4, <1>5, <1>6, <1>7 DEF Base

\* What is left of the batch is registered.
LEMMA LiveLoop ==
  ASSUME Base
  PROVE  Live(loop)
<1>0. TypeOK
  BY DEF Base
<1>1. QED
  BY <1>0, TypeFacts DEF Base, NoStaleEntry, Registered, Live

\* fwd_session_shutdown in any loop that could be this one.
LEMMA ShutdownStep ==
  ASSUME Base, NEW e \in Loop(User, None), Live(e), e.cur <= Len(e.batch),
         \A i, j \in DOMAIN e.batch :
           i # j /\ e.batch[i].fd = e.batch[j].fd => e.batch[i].fd = None,
         Shutdown(e), UNCHANGED client,
         unread' \in [User -> 0 .. OutSize], got' \in [User -> Seq(Byte)],
         fault' \in BOOLEAN, fault => fault'
  PROVE  Base'
<1> USE DEF client
<1>0. TypeOK
  BY DEF Base
<1> DEFINE r == EventCancel(EventCancel(e, User1), User2)
<1>r. /\ r \in Loop(User, None)
      /\ \A v \in User : r.flags[v] = {}
      /\ r.cur = e.cur
      /\ Len(r.batch) = Len(e.batch) /\ DOMAIN r.batch = DOMAIN e.batch
      /\ \A i \in DOMAIN e.batch :
           /\ r.batch[i].fd \in {e.batch[i].fd, None}
           /\ i > e.cur => r.batch[i].fd = None
  <2>1. PICK u, p : u = User1 /\ p = User2
    OBVIOUS
  <2>2. u \in User /\ p \in User /\ u # p
    BY <2>1, UserAssumption DEF User
  <2> DEFINE q == EventCancel(EventCancel(e, u), p)
  <2>3. /\ q \in Loop(User, None)
        /\ \A v \in User : q.flags[v] = {}
        /\ q.cur = e.cur
        /\ Len(q.batch) = Len(e.batch) /\ DOMAIN q.batch = DOMAIN e.batch
        /\ \A i \in DOMAIN e.batch :
             /\ q.batch[i].fd \in {e.batch[i].fd, None}
             /\ i > e.cur => q.batch[i].fd = None
    <3>1. u \in User
      BY <2>2
    <3>2. p \in User
      BY <2>2
    <3>3. u # p
      BY <2>2
    <3>4. QED
      BY ONLY <3>1, <3>2, <3>3, e \in Loop(User, None), Live(e),
              CancelBothProps
  <2>4. QED
    BY <2>1, <2>3
<1>f. /\ st' = "DOWN" /\ flush' = None /\ pc' = "loop" /\ loop' = r
      /\ buf' = [u \in User |-> EmptyBuffer]
      /\ in' = [u \in User |-> <<>>]
  BY DEF Shutdown
<1> HIDE DEF r
<1>c. e.cur \in Nat /\ r.cur \in Nat
  BY <1>r, LoopType
<1>1. TypeOK'
  <2>1. /\ buf' \in [User -> Buffer(Byte)]
        /\ \A u \in User : BufLeft(buf'[u], Size) >= 0
    BY <1>f, EmptySeq, SizeAssumption DEF EmptyBuffer, Buffer, BufLeft
  <2>2. in' \in [User -> Seq(Byte)]
    BY <1>f, EmptySeq
  <2>3. QED
    BY <1>0, <1>r, <1>f, <2>1, <2>2 DEF TypeOK
<1>2. Control'
  BY <1>f, <1>r DEF Control
<1>3. Registration'
  BY <1>f, <1>r DEF Registration
<1>4. Distinct'
  BY <1>f, <1>r DEF Distinct
<1>n. \A i \in DOMAIN r.batch : r.cur < i => r.batch[i].fd = None
  <2>1. DOMAIN r.batch \subseteq Int
    <3>1. r.batch \in Seq(Entry)
      BY <1>r, LoopType
    <3>2. QED
      BY <3>1
  <2>2. QED
    BY <1>r, <1>c, <2>1
<1>5. Entries'
  BY <1>f, <1>n DEF Entries
<1>6. NoStaleEntry'
  BY <1>f, <1>n DEF NoStaleEntry
<1>7. Ended'
  BY <1>f DEF Base, Ended
<1>8. QED
  BY <1>1, <1>2, <1>3, <1>4, <1>5, <1>6, <1>7 DEF Base

\* The same from the loop as it is.
LEMMA ShutdownHere ==
  ASSUME Base, Shutdown(loop), UNCHANGED client,
         unread' \in [User -> 0 .. OutSize], got' \in [User -> Seq(Byte)],
         fault' \in BOOLEAN, fault => fault'
  PROVE  Base'
<1>1. /\ loop \in Loop(User, None) /\ loop.cur <= Len(loop.batch)
      /\ \A i, j \in DOMAIN loop.batch :
           i # j /\ loop.batch[i].fd = loop.batch[j].fd
             => loop.batch[i].fd = None
  BY DEF Base, TypeOK, Control, Distinct
<1>2. Live(loop)
  BY LiveLoop
<1>3. QED
  BY <1>1, <1>2, ShutdownStep

\* An error was reported.
LEMMA EventErrorStep ==
  ASSUME Base, EventError
  PROVE  Base'
<1>0. TypeOK
  BY DEF Base
<1>x. PICK x : x = loop.batch[loop.cur + 1]
  OBVIOUS
<1> DEFINE d == Advance(loop)
           e == EventCancel(d, x.fd)
<1>1. loop.cur + 1 \in DOMAIN loop.batch
  BY <1>0, TypeFacts DEF EventError, Base, Control, BatchDone
<1>2. x.fd \in User
  BY <1>0, <1>x, <1>1, TypeFacts DEF EventError
<1>3. /\ d \in Loop(User, None) /\ d.flags = loop.flags
      /\ d.batch = loop.batch /\ d.cur = loop.cur + 1
  BY <1>0, AdvanceProps DEF TypeOK
<1> HIDE DEF d
<1>4. /\ e \in Loop(User, None)
      /\ e.flags = [d.flags EXCEPT ![x.fd] = {}]
      /\ e.cur = d.cur
      /\ Len(e.batch) = Len(d.batch)
      /\ DOMAIN e.batch = DOMAIN d.batch
      /\ \A i \in DOMAIN d.batch :
           /\ e.batch[i].ev = d.batch[i].ev
           /\ e.batch[i].fd = IF d.flags[x.fd] # {} /\ i > d.cur
                                 /\ d.batch[i].fd = x.fd
                              THEN None ELSE d.batch[i].fd
  <2>1. d \in Loop(User, None)
    BY <1>3
  <2>2. QED
    BY <1>2, <2>1, DelProps, Zenon
<1> HIDE DEF e
<1>5. e.cur <= Len(e.batch)
  BY <1>0, <1>1, <1>3, <1>4, TypeFacts
<1>6. \A i, j \in DOMAIN e.batch :
        i # j /\ e.batch[i].fd = e.batch[j].fd => e.batch[i].fd = None
  BY <1>3, <1>4 DEF Base, Distinct
<1>7. Live(e)
  <2> SUFFICES ASSUME NEW i \in DOMAIN e.batch, i > e.cur,
                      e.batch[i].fd # None
               PROVE  e.flags[e.batch[i].fd] # {}
    BY DEF Live
  <2>1. i \in DOMAIN loop.batch /\ i > loop.cur /\ i # loop.cur + 1
    BY <1>0, <1>3, <1>4, TypeFacts
  <2>2. loop.batch[i].fd # x.fd
    BY <1>x, <1>1, <1>2, <2>1, PeerProps DEF Base, Distinct
  <2>3. e.batch[i].fd = loop.batch[i].fd
    BY <1>3, <1>4, <2>1, <2>2
  <2>4. loop.flags[loop.batch[i].fd] # {} /\ loop.batch[i].fd \in User
    BY <1>0, <2>1, <2>3, LiveLoop, TypeFacts DEF Live
  <2>5. loop.flags \in [User -> SUBSET Flag]
    BY <1>0, TypeFacts
  <2>6. QED
    BY <1>2, <1>3, <1>4, <2>2, <2>3, <2>4, <2>5
<1>8. /\ Shutdown(e) /\ UNCHANGED client
      /\ unread' \in [User -> 0 .. OutSize] /\ got' \in [User -> Seq(Byte)]
      /\ fault' \in BOOLEAN /\ (fault => fault')
  BY <1>0, <1>x DEF EventError, e, d, TypeOK, client
<1>9. e \in Loop(User, None)
  BY <1>4
<1>10. QED
  BY <1>5, <1>6, <1>7, <1>8, <1>9, ShutdownStep

\* Nothing is left of the user.
LEMMA FailShutdownStep ==
  ASSUME Base, FailShutdown
  PROVE  Base'
<1>1. /\ Shutdown(loop) /\ UNCHANGED client
      /\ unread' \in [User -> 0 .. OutSize] /\ got' \in [User -> Seq(Byte)]
      /\ fault' \in BOOLEAN /\ (fault => fault')
  BY DEF FailShutdown, Base, TypeOK, client
<1>2. QED
  BY <1>1, ShutdownHere

LEMMA FlushFailsStep ==
  ASSUME Base, FlushFails
  PROVE  Base'
<1>1. /\ Shutdown(loop) /\ UNCHANGED client
      /\ unread' \in [User -> 0 .. OutSize] /\ got' \in [User -> Seq(Byte)]
      /\ fault' \in BOOLEAN /\ (fault => fault')
  BY DEF FlushFails, Base, TypeOK, client
<1>2. QED
  BY <1>1, ShutdownHere

LEMMA TimesOutStep ==
  ASSUME Base, TimesOut
  PROVE  Base'
<1>1. /\ Shutdown(loop) /\ UNCHANGED client
      /\ unread' \in [User -> 0 .. OutSize] /\ got' \in [User -> Seq(Byte)]
      /\ fault' \in BOOLEAN /\ (fault => fault')
  BY DEF TimesOut, Base, TypeOK, client
<1>2. QED
  BY <1>1, ShutdownHere

\* The last words of u are all that the buffer of its peer holds.
LEMMA LastProps ==
  ASSUME TypeOK, NEW u \in User, NEW other
  PROVE  LET b == LastBuffer(buf[u], other) IN
         /\ b \in Buffer(Byte) /\ b.data = buf[u].data
         /\ BufLeft(b, Size) >= 0
<1>1. /\ buf[u].data \in Seq(Byte) /\ Len(buf[u].data) \in Nat
      /\ buf[u].trash \in Nat /\ Size \in Nat
      /\ Size - buf[u].trash - Len(buf[u].data) >= 0
  BY TypeFacts
<1>2. <<>> \o buf[u].data = buf[u].data
  BY <1>1, ConcatEmptySeq
<1>3. LastBuffer(buf[u], other) = [trash |-> 0, data |-> buf[u].data]
  BY <1>2 DEF LastBuffer, Stored, EmptyBuffer
<1>4. QED
  BY <1>1, <1>3 DEF Buffer, BufLeft

\* The peer is flushed from now on.
LEMMA FailFlushStep ==
  ASSUME Base, FailFlush
  PROVE  Base'
<1> USE DEF client
<1>0. TypeOK
  BY DEF Base
<1>u. PICK u : u = Current.fd
  OBVIOUS
<1>v. u \in User /\ st = "EST"
  BY <1>u DEF FailFlush, Base, Control
<1>p. PICK p : p = Peer[u]
  OBVIOUS
<1>q. p \in User /\ p # u /\ Peer[p] = u /\ User = {u, p}
  BY <1>v, <1>p, PeerProps
<1> DEFINE b == LastBuffer(buf[u], buf[p])
           e == EventCancel(EventCancel(loop, u), p)
           r == EventSet(e, p, {"W"})
<1>f. /\ st' = "CLEAN" /\ flush' = p /\ pc' = "loop"
      /\ buf' = [buf EXCEPT ![p] = b] /\ loop' = r
      /\ UNCHANGED <<in, unread, got, sent, eof, rst, fault>>
      /\ BufLen(buf[u]) > 0
  BY <1>u, <1>p DEF FailFlush
<1>b. /\ b \in Buffer(Byte) /\ BufLeft(b, Size) >= 0
      /\ BufLen(b) = BufLen(buf[u])
  BY <1>0, <1>v, LastProps DEF BufLen
<1> HIDE DEF b
<1>e. /\ e \in Loop(User, None)
      /\ \A v \in User : e.flags[v] = {}
      /\ e.cur = loop.cur
      /\ Len(e.batch) = Len(loop.batch) /\ DOMAIN e.batch = DOMAIN loop.batch
      /\ \A i \in DOMAIN loop.batch :
           /\ e.batch[i].fd \in {loop.batch[i].fd, None}
           /\ i > loop.cur => e.batch[i].fd = None
  <2>1. loop \in Loop(User, None) /\ Live(loop)
    BY <1>0, LiveLoop DEF TypeOK
  <2>2. QED
    BY ONLY <1>v, <1>q, <2>1, CancelBothProps
<1> HIDE DEF e
<1>r. /\ r \in Loop(User, None)
      /\ r.flags = [e.flags EXCEPT ![p] = {"W"}]
      /\ r.batch = e.batch
      /\ r.cur = e.cur
  <2>1. e \in Loop(User, None) /\ {"W"} \in SUBSET Flag
    BY <1>e DEF Flag
  <2>2. QED
    BY <1>q, <2>1, AddProps
<1> HIDE DEF r
<1>g. r.flags[p] = {"W"} /\ r.flags[u] = {}
  <2>1. e.flags \in [User -> SUBSET Flag]
    BY <1>e, LoopType
  <2>2. QED
    BY <1>v, <1>q, <1>e, <1>r, <2>1
<1>n. \A i \in DOMAIN r.batch : r.cur < i => r.batch[i].fd = None
  BY <1>0, <1>e, <1>r, TypeFacts
<1>1. TypeOK'
  <2>1. /\ buf' \in [User -> Buffer(Byte)]
        /\ \A v \in User : BufLeft(buf'[v], Size) >= 0
    BY <1>0, <1>q, <1>b, <1>f DEF TypeOK
  <2>2. QED
    BY <1>0, <1>q, <1>r, <1>f, <2>1 DEF TypeOK
<1>2. Control'
  BY <1>q, <1>f, <1>e, <1>r DEF Base, Control
<1>3. Registration'
  <2>1. buf'[p] = b
    BY <1>0, <1>q, <1>f DEF TypeOK
  <2>2. QED
    BY <1>q, <1>f, <1>b, <1>g, <2>1 DEF Registration
<1>4. Distinct'
  BY <1>f, <1>e, <1>r DEF Base, Distinct
<1>5. Entries'
  BY <1>f, <1>n DEF Entries
<1>6. NoStaleEntry'
  BY <1>f, <1>n DEF NoStaleEntry
<1>7. Ended'
  BY <1>f DEF Base, Ended
<1>8. QED
  BY <1>1, <1>2, <1>3, <1>4, <1>5, <1>6, <1>7 DEF Base

\* A part of the last words is sent, or all of them and the session is down.
LEMMA FlushSomeStep ==
  ASSUME Base, FlushSome
  PROVE  Base'
<1> USE DEF client
<1>0. TypeOK
  BY DEF Base
<1>v. flush \in User /\ st = "CLEAN" /\ Current.fd = flush
      /\ loop.cur \in DOMAIN loop.batch
  BY DEF FlushSome, Base, Control
<1> DEFINE k == Writable(flush, buf[flush])
           d == Drained(buf[flush], k)
           b == Refreshed(d)
<1>k. /\ d \in Buffer(Byte) /\ BufLeft(d, Size) = BufLeft(buf[flush], Size)
      /\ BufLeft(d, Size) >= 0
      /\ unread[flush] + k \in 0 .. OutSize
      /\ Front(buf[flush].data, k) \in Seq(Byte)
  <2>1. buf[flush] \in Buffer(Byte) /\ BufLeft(buf[flush], Size) >= 0
    BY <1>0, <1>v DEF TypeOK
  <2>2. /\ d \in Buffer(Byte)
        /\ BufLeft(d, Size) = BufLeft(buf[flush], Size)
        /\ unread[flush] + k \in 0 .. OutSize
        /\ Front(buf[flush].data, k) \in Seq(Byte)
    BY <1>0, <1>v, <2>1, SendProps
  <2>3. QED
    BY <2>1, <2>2
<1>f. /\ unread' = [unread EXCEPT ![flush] = unread[flush] + k]
      /\ got' = [got EXCEPT ![flush] =
                   got[flush] \o Front(buf[flush].data, k)]
      /\ IF BufLen(b) > 0
         THEN /\ buf' = [buf EXCEPT ![flush] = b]
              /\ pc' = "loop"
              /\ UNCHANGED <<st, flush, loop, in>>
         ELSE Shutdown(loop)
      /\ UNCHANGED <<sent, eof, rst, fault>>
  BY DEF FlushSome, Send
<1> HIDE DEF k, d
<1>b. b \in Buffer(Byte) /\ BufLeft(b, Size) >= 0
  <2>1. d.trash \in Nat /\ d.data \in Seq(Byte) /\ Len(d.data) \in Nat
        /\ Size \in Nat /\ Size - d.trash - Len(d.data) >= 0
    BY <1>k, SizeAssumption DEF Buffer, BufLeft
  <2>2. b = [trash |-> 0, data |-> d.data]
    BY <1>k DEF Refreshed, Buffer
  <2> HIDE DEF b
  <2>3. QED
    BY <2>1, <2>2 DEF Buffer, BufLeft
<1> HIDE DEF b
<1>t. unread' \in [User -> 0 .. OutSize] /\ got' \in [User -> Seq(Byte)]
  <2>1. unread' \in [User -> 0 .. OutSize]
    BY <1>0, <1>v, <1>k, <1>f DEF TypeOK
  <2>2. got[flush] \o Front(buf[flush].data, k) \in Seq(Byte)
    BY <1>0, <1>v, <1>k, ConcatProperties DEF TypeOK
  <2>3. got' \in [User -> Seq(Byte)]
    BY <1>0, <1>v, <1>f, <2>2 DEF TypeOK
  <2>4. QED
    BY <2>1, <2>3
<1>m. CASE ~(BufLen(b) > 0)
  <2>1. /\ Shutdown(loop) /\ UNCHANGED client
        /\ fault' \in BOOLEAN /\ (fault => fault')
    BY <1>0, <1>f, <1>m DEF TypeOK
  <2>2. QED
    BY <1>t, <2>1, ShutdownHere
<1>l. CASE BufLen(b) > 0
  <2>f. /\ buf' = [buf EXCEPT ![flush] = b] /\ pc' = "loop"
        /\ UNCHANGED <<st, flush, loop, in, sent, eof, rst, fault>>
    BY <1>f, <1>l
  <2>b. buf'[flush] = b
    BY <1>0, <1>v, <2>f DEF TypeOK
  <2>1. TypeOK'
    <3>1. /\ buf' \in [User -> Buffer(Byte)]
          /\ \A v \in User : BufLeft(buf'[v], Size) >= 0
      BY <1>0, <1>v, <1>b, <2>f DEF TypeOK
    <3>2. QED
      BY <1>0, <1>t, <2>f, <3>1 DEF TypeOK
  <2>2. Control'
    BY <2>f DEF Base, Control
  <2>3. Registration'
    BY <1>v, <1>l, <2>f, <2>b DEF Base, Registration
  <2>4. Distinct'
    BY <2>f DEF Base, Distinct
  <2>5. Entries'
    <3>1. ASSUME NEW i \in DOMAIN loop.batch, loop.cur < i
          PROVE  loop.batch[i].fd = None
      <4>1. i # loop.cur
        BY <1>0, <3>1, TypeFacts
      <4>2. loop.batch[i].fd # flush
        BY <1>v, <4>1, PeerProps DEF Base, Distinct, Current
      <4>3. loop.batch[i].fd # None => loop.batch[i].fd = flush
        BY <1>v, <3>1 DEF Base, Entries, Doable
      <4>4. QED
        BY <4>2, <4>3
    <3>2. QED
      BY <2>f, <3>1 DEF Entries
  <2>6. NoStaleEntry'
    BY <2>f DEF Base, NoStaleEntry, Registered
  <2>7. Ended'
    BY <2>f DEF Base, Ended
  <2>8. QED
    BY <2>1, <2>2, <2>3, <2>4, <2>5, <2>6, <2>7 DEF Base
<1>z. QED
  BY <1>l, <1>m

\* What clients do leaves the handlers alone: bytes arrive, a side ends or is
\* reset, or room is made in a send queue.
LEMMA ClientStep ==
  ASSUME Base, UNCHANGED <<st, flush, pc, buf, got>>, st \in {"EST", "CLEAN"},
         loop' \in Loop(User, None),
         loop'.flags = loop.flags, loop'.batch = loop.batch,
         loop'.cur = loop.cur,
         in' \in [User -> Seq(Byte)], sent' \in [User -> 0 .. Limit],
         unread' \in [User -> 0 .. OutSize],
         \A u \in User : unread'[u] <= unread[u],
         eof' \subseteq User, eof \subseteq eof',
         rst' \subseteq User, rst \subseteq rst',
         fault' \in BOOLEAN, fault => fault', rst' # {} => fault',
         pc = "fail" => LET u == Current.fd IN in'[u] = in[u] \/ fault'
  PROVE  Base'
<1>0. TypeOK
  BY DEF Base
<1>c. Current' = Current
  BY DEF Current
<1>1. TypeOK'
  BY <1>0 DEF TypeOK
<1>2. Control'
  BY <1>c DEF Base, Control
<1>3. Registration'
  BY DEF Base, Registration, Wanted
<1>4. Distinct'
  BY DEF Base, Distinct
<1>5. Entries'
  <2>1. ASSUME NEW u \in User, NEW ev, Doable(u, ev)
        PROVE  Doable(u, ev)'
    <3>1. unread[u] < OutSize => unread'[u] < OutSize
      <4>1. unread[u] \in Int /\ unread'[u] \in Int /\ OutSize \in Int
        BY <1>0, <1>1, TypeFacts, OutAssumption DEF TypeOK
      <4>2. unread'[u] <= unread[u]
        OBVIOUS
      <4>3. QED
        BY <4>1, <4>2
    <3>2. QED
      BY <2>1, <3>1 DEF Doable
  <2>2. ASSUME NEW i \in DOMAIN loop.batch, loop.cur < i,
               loop.batch[i].fd # None
        PROVE  loop.batch[i].ev # {}
               /\ Doable(loop.batch[i].fd, loop.batch[i].ev)
               /\ loop.batch[i].fd \in User
    BY <1>0, <2>2, TypeFacts DEF Base, Entries
  <2>3. ASSUME NEW i \in DOMAIN loop'.batch, loop'.cur < i,
               loop'.batch[i].fd # None
        PROVE  loop'.batch[i].ev # {}
               /\ Doable(loop.batch[i].fd, loop.batch[i].ev)'
    <3>1. PICK v, ev : v = loop.batch[i].fd /\ ev = loop.batch[i].ev
      OBVIOUS
    <3>2. v \in User /\ Doable(v, ev) /\ ev # {}
      BY <2>2, <2>3, <3>1
    <3>3. Doable(v, ev)'
      BY <2>1, <3>2
    <3>4. v = loop'.batch[i].fd /\ ev = loop'.batch[i].ev
      BY <3>1
    <3>5. QED
      BY <3>2, <3>3, <3>4
  <2>4. PICK v, ev : v = Current.fd /\ ev = Current.ev
    OBVIOUS
  <2>5. v = Current'.fd /\ ev = Current'.ev
    BY <1>c, <2>4
  <2>6. pc = "read" => Doable(v, ev)'
    BY <2>1, <2>4 DEF Base, Entries, Control
  <2>7. pc \in {"write", "flush"} => Doable(v, {"W"})'
    BY <2>1, <2>4 DEF Base, Entries, Control
  <2>8. QED
    BY <2>3, <2>5, <2>6, <2>7 DEF Entries
<1>6. NoStaleEntry'
  BY DEF Base, NoStaleEntry, Registered
<1>7. Ended'
  BY <1>c DEF Base, Ended
<1>8. QED
  BY <1>1, <1>2, <1>3, <1>4, <1>5, <1>6, <1>7 DEF Base

LEMMA ClientSendsStep ==
  ASSUME Base, NEW u \in User, ClientSends(u)
  PROVE  Base'
<1>0. TypeOK /\ loop \in Loop(User, None)
  BY DEF Base, TypeOK
<1>1. /\ UNCHANGED <<st, flush, pc, buf, got, unread, eof, rst, fault>>
      /\ st \in {"EST", "CLEAN"} /\ u \notin eof /\ u \notin rst
      /\ loop' = Wake(loop, u, {"R"})
      /\ sent' = [sent EXCEPT ![u] = sent[u] + 1] /\ sent[u] < Limit
      /\ in' = [in EXCEPT ![u] = Append(in[u], <<u, sent[u] + 1>>)]
  BY DEF ClientSends, Alive
<1>2. /\ loop' \in Loop(User, None) /\ loop'.flags = loop.flags
      /\ loop'.batch = loop.batch /\ loop'.cur = loop.cur
  BY <1>0, <1>1, WakeProps
<1>3. sent[u] \in 0 .. Limit /\ sent[u] + 1 \in 0 .. Limit
  BY <1>0, <1>1, OutAssumption DEF TypeOK
<1>4. in' \in [User -> Seq(Byte)] /\ sent' \in [User -> 0 .. Limit]
  BY <1>0, <1>1, <1>3 DEF TypeOK, Byte
<1>5. pc = "fail" => in'[Current.fd] = in[Current.fd]
  <2>1. pc = "fail" => Current.fd \in User /\ Current.fd # u
    BY <1>1 DEF Base, Control, Ended
  <2>2. QED
    BY <1>0, <1>1, <2>1 DEF TypeOK
<1>6. \A v \in User : unread'[v] <= unread[v]
  BY <1>0, <1>1, TypeFacts
<1>7. QED
  BY <1>0, <1>1, <1>2, <1>4, <1>5, <1>6, ClientStep DEF TypeOK, Base, Ended

LEMMA ClientEndsStep ==
  ASSUME Base, NEW u \in User, ClientEnds(u)
  PROVE  Base'
<1>0. TypeOK /\ loop \in Loop(User, None)
  BY DEF Base, TypeOK
<1>1. /\ UNCHANGED <<st, flush, pc, buf, got, unread, in, sent, rst, fault>>
      /\ st \in {"EST", "CLEAN"}
      /\ loop' = Wake(loop, u, {"R"}) /\ eof' = eof \cup {u}
  BY DEF ClientEnds, Alive
<1>2. /\ loop' \in Loop(User, None) /\ loop'.flags = loop.flags
      /\ loop'.batch = loop.batch /\ loop'.cur = loop.cur
  BY <1>0, <1>1, WakeProps
<1>3. \A v \in User : unread'[v] <= unread[v]
  BY <1>0, <1>1, TypeFacts
<1>4. QED
  BY <1>0, <1>1, <1>2, <1>3, ClientStep DEF TypeOK, Base, Ended

LEMMA ClientResetsStep ==
  ASSUME Base, NEW u \in User, ClientResets(u)
  PROVE  Base'
<1>0. TypeOK /\ loop \in Loop(User, None)
  BY DEF Base, TypeOK
<1>1. /\ UNCHANGED <<st, flush, pc, buf, got, unread, in, sent, eof>>
      /\ st \in {"EST", "CLEAN"} /\ fault' = TRUE
      /\ loop' = Wake(loop, u, Condition) /\ rst' = rst \cup {u}
  BY DEF ClientResets, Alive
<1>2. /\ loop' \in Loop(User, None) /\ loop'.flags = loop.flags
      /\ loop'.batch = loop.batch /\ loop'.cur = loop.cur
  BY <1>0, <1>1, WakeProps
<1>3. \A v \in User : unread'[v] <= unread[v]
  BY <1>0, <1>1, TypeFacts
<1>4. QED
  BY <1>0, <1>1, <1>2, <1>3, ClientStep DEF TypeOK

LEMMA ClientReadsStep ==
  ASSUME Base, NEW u \in User, ClientReads(u)
  PROVE  Base'
<1>0. TypeOK /\ loop \in Loop(User, None)
  BY DEF Base, TypeOK
<1>1. /\ UNCHANGED <<st, flush, pc, buf, got, in, sent, eof, rst, fault>>
      /\ st \in {"EST", "CLEAN"} /\ unread[u] > 0
      /\ loop' = IF unread[u] = OutSize THEN Wake(loop, u, {"W"}) ELSE loop
      /\ unread' = [unread EXCEPT ![u] = unread[u] - 1]
  BY DEF ClientReads, Alive, client
<1>2. /\ loop' \in Loop(User, None) /\ loop'.flags = loop.flags
      /\ loop'.batch = loop.batch /\ loop'.cur = loop.cur
  BY <1>0, <1>1, WakeProps
<1>3. /\ unread' \in [User -> 0 .. OutSize]
      /\ \A v \in User : unread'[v] <= unread[v]
  <2>1. unread[u] - 1 \in 0 .. OutSize /\ unread[u] - 1 <= unread[u]
    BY <1>0, <1>1, TypeFacts
  <2>2. \A v \in User : unread[v] <= unread[v]
    BY <1>0, TypeFacts
  <2>3. QED
    BY <1>0, <1>1, <2>1, <2>2 DEF TypeOK
<1>4. QED
  BY <1>0, <1>1, <1>2, <1>3, ClientStep DEF TypeOK, Base, Ended

\* The batches of epoll_wait: every socket once, with what is reported of it.
LEMMA BatchesProps ==
  ASSUME TypeOK, NEW r \in Batches(loop, [u \in User |-> Conditions(u)])
  PROVE  /\ r \in Loop(User, None) /\ r.flags = loop.flags /\ r.cur = 0
         /\ Len(r.batch) \in Nat /\ DOMAIN r.batch = 1 .. Len(r.batch)
         /\ \A i \in DOMAIN r.batch :
              /\ r.batch[i].fd \in User /\ r.batch[i].ev # {}
              /\ r.batch[i].ev = Reported(loop, r.batch[i].fd,
                                          Conditions(r.batch[i].fd))
         /\ \A i, j \in DOMAIN r.batch :
              r.batch[i].fd = r.batch[j].fd => i = j
         /\ \A v \in loop.ready : Reported(loop, v, Conditions(v)) # {} =>
              \E i \in DOMAIN r.batch : r.batch[i].fd = v
<1> DEFINE cond == [u \in User |-> Conditions(u)]
           some == {fd \in loop.ready : Reported(loop, fd, cond[fd]) # {}}
           n == Cardinality(some)
<1>1. loop.ready \subseteq User /\ loop.flags \in [User -> SUBSET Flag]
      /\ loop \in [flags : [User -> SUBSET Flag], ready : SUBSET User,
                   batch : Seq(Entry), cur : Nat]
  BY LoopType DEF TypeOK
<1>2. n \in Nat /\ IsFiniteSet(some)
  <2>1. IsFiniteSet({}) /\ IsFiniteSet({User1} \cup {}) /\ IsFiniteSet(User)
    <3>1. IsFiniteSet({})
      BY FS_EmptySet
    <3>2. IsFiniteSet({} \cup {User1})
      BY <3>1, FS_AddElement
    <3>3. IsFiniteSet(({} \cup {User1}) \cup {User2})
      BY <3>2, FS_AddElement
    <3>4. User = ({} \cup {User1}) \cup {User2} /\ {User1} \cup {} = {} \cup {User1}
      BY DEF User
    <3>5. QED
      BY <3>1, <3>2, <3>3, <3>4
  <2>2. some \subseteq User
    BY <1>1
  <2> HIDE DEF some
  <2>3. QED
    BY <2>1, <2>2, FS_Subset, FS_CardinalityType
<1>3. \A fd \in some : fd \in User /\ cond[fd] = Conditions(fd)
                       /\ Reported(loop, fd, Conditions(fd)) # {}
  BY <1>1
<1> DEFINE Of(o) == [i \in 1 .. n |->
                       [fd |-> o[i], ev |-> Reported(loop, o[i], cond[o[i]])]]
<1>4. PICK order \in [1 .. n -> some] :
        /\ \A i, j \in 1 .. n : order[i] = order[j] => i = j
        /\ r = [loop EXCEPT !.ready = {}, !.cur = 0, !.batch = Of(order)]
  BY DEF Batches
<1>m. \A v \in loop.ready : Reported(loop, v, Conditions(v)) # {} => v \in some
  BY <1>1
<1>n. n = Cardinality(some)
  OBVIOUS
<1> HIDE DEF some, n
<1>o. \A v \in some : \E i \in 1 .. n : order[i] = v
  <2>1. order \in Injection(1 .. n, some)
    BY <1>4 DEF Injection, IsInjective
  <2>2. Cardinality(1 .. n) = n
    BY <1>2, FS_Interval
  <2>3. order \in Surjection(1 .. n, some)
    BY <1>2, <1>n, <2>1, <2>2, FS_Injection
  <2>4. QED
    BY <2>3 DEF Surjection
<1>5. \A i \in 1 .. n :
        /\ order[i] \in User /\ cond[order[i]] = Conditions(order[i])
        /\ Reported(loop, order[i], Conditions(order[i])) # {}
  BY <1>3, <1>4
<1> HIDE DEF cond
<1> DEFINE b == Of(order)
<1>6. \A i \in 1 .. n :
        /\ b[i] \in Entry /\ b[i].fd = order[i] /\ b[i].ev # {}
        /\ b[i].ev = Reported(loop, order[i], Conditions(order[i]))
  <2>1. \A u \in User : Reported(loop, u, Conditions(u)) \subseteq Condition
    BY <1>1 DEF Reported, Condition
  <2>2. QED
    BY <1>5, <2>1 DEF Entry
<1>7. b \in [1 .. n -> Entry]
  BY <1>6
<1>8. r = [loop EXCEPT !.ready = {}, !.cur = 0, !.batch = b]
  BY <1>4
<1> HIDE DEF b, Of
<1>9. b \in Seq(Entry) /\ Len(b) = n /\ DOMAIN b = 1 .. n
  BY <1>2, <1>7
<1>10. /\ r.flags = loop.flags /\ r.cur = 0 /\ r.batch = b
       /\ r \in Loop(User, None)
  <2>1. /\ r.flags = loop.flags /\ r.cur = 0 /\ r.batch = b
        /\ r \in [flags : [User -> SUBSET Flag], ready : SUBSET User,
                  batch : Seq(Entry), cur : Nat]
    BY <1>1, <1>8, <1>9
  <2>2. QED
    BY <2>1, LoopType
<1>11. ASSUME NEW v \in loop.ready, Reported(loop, v, Conditions(v)) # {}
       PROVE  \E i \in DOMAIN r.batch : r.batch[i].fd = v
  <2>1. PICK i \in 1 .. n : order[i] = v
    BY <1>11, <1>m, <1>o
  <2>2. QED
    BY <1>6, <1>9, <1>10, <2>1
<1>12. QED
  BY <1>2, <1>4, <1>5, <1>6, <1>9, <1>10, <1>11

\* A new batch.
LEMMA EpollWaitStep ==
  ASSUME Base, EpollWait
  PROVE  Base'
<1> USE DEF client
<1>0. TypeOK
  BY DEF Base
<1>f. /\ UNCHANGED <<st, flush, pc, buf, in, unread, got, sent, eof, rst, fault>>
      /\ st # "KILLED" /\ pc = "loop"
  BY DEF EpollWait
<1>r. /\ loop' \in Loop(User, None) /\ loop'.flags = loop.flags /\ loop'.cur = 0
      /\ Len(loop'.batch) \in Nat /\ DOMAIN loop'.batch = 1 .. Len(loop'.batch)
      /\ \A i \in DOMAIN loop'.batch :
           /\ loop'.batch[i].fd \in User /\ loop'.batch[i].ev # {}
           /\ loop'.batch[i].ev = Reported(loop, loop'.batch[i].fd,
                                           Conditions(loop'.batch[i].fd))
      /\ \A i, j \in DOMAIN loop'.batch :
           loop'.batch[i].fd = loop'.batch[j].fd => i = j
  <2>1. PICK r : r = loop' /\ r \in Batches(loop, [u \in User |-> Conditions(u)])
    BY DEF EpollWait
  <2>2. QED
    BY <1>0, <2>1, BatchesProps
<1>d. ASSUME NEW u \in User, Reported(loop, u, Conditions(u)) # {}
      PROVE  /\ st \in {"EST", "CLEAN"} /\ loop.flags[u] # {}
             /\ Doable(u, Reported(loop, u, Conditions(u)))
  <2> DEFINE ev == Reported(loop, u, Conditions(u))
  <2>1. loop.flags[u] # {}
    BY <1>d DEF Reported, Registered
  <2>2. ev = Conditions(u) \cap (loop.flags[u] \cup {"E"})
    BY <2>1 DEF Reported, Registered
  <2> HIDE DEF ev
  <2>3. /\ "E" \in ev => u \in rst
        /\ "W" \in ev => (unread[u] < OutSize \/ u \in rst)
        /\ "W" \in ev => "W" \in loop.flags[u]
        /\ "R" \in ev => "R" \in loop.flags[u]
    BY <2>2 DEF Conditions
  <2>4. st \in {"EST", "CLEAN"}
    BY <1>0, <1>f, <2>1 DEF Base, Registration, TypeOK
  <2>5. st = "EST" => /\ "W" \in ev => BufLen(buf[Peer[u]]) > 0
                      /\ "R" \in ev => BufLeft(buf[u], Size) > 0
    <3>1. st = "EST" => loop.flags[u] = Wanted(u)
      BY <1>f DEF Base, Registration
    <3>2. QED
      BY <2>3, <3>1 DEF Wanted
  <2>6. st = "CLEAN" => u = flush /\ "R" \notin ev
    <3>1. ASSUME st = "CLEAN"
          PROVE  /\ loop.flags[flush] = {"W"} /\ loop.flags[Peer[flush]] = {}
                 /\ flush \in User
      BY <3>1 DEF Base, Registration, Control
    <3>2. st = "CLEAN" => u = flush
      BY <2>1, <3>1, PeerProps
    <3>3. QED
      BY <2>3, <3>1, <3>2
  <2>7. Doable(u, ev)
    BY <2>3, <2>5, <2>6 DEF Doable
  <2>8. QED
    BY <2>1, <2>4, <2>7 DEF ev
<1>e. ASSUME NEW i \in DOMAIN loop'.batch
      PROVE  /\ st \in {"EST", "CLEAN"} /\ loop.flags[loop'.batch[i].fd] # {}
             /\ Doable(loop'.batch[i].fd, loop'.batch[i].ev)
  <2>1. PICK u : u = loop'.batch[i].fd
    OBVIOUS
  <2>2. u \in User /\ loop'.batch[i].ev = Reported(loop, u, Conditions(u))
        /\ loop'.batch[i].ev # {}
    BY <1>r, <2>1
  <2>3. QED
    BY <1>d, <2>1, <2>2
<1>1. TypeOK'
  BY <1>0, <1>f, <1>r DEF TypeOK
<1>2. Control'
  BY <1>f, <1>r DEF Base, Control
<1>3. Registration'
  BY <1>f, <1>r DEF Base, Registration, Wanted
<1>4. Distinct'
  BY <1>r DEF Distinct
<1>5. Entries'
  <2>1. ASSUME NEW i \in DOMAIN loop'.batch
        PROVE  loop'.batch[i].ev # {}
               /\ Doable(loop.batch[i].fd, loop.batch[i].ev)'
    <3>1. PICK v, ev : v = loop'.batch[i].fd /\ ev = loop'.batch[i].ev
      OBVIOUS
    <3>2. Doable(v, ev)
      BY <1>e, <3>1
    <3>3. Doable(v, ev)'
      BY <1>f, <3>2 DEF Doable
    <3>4. QED
      BY <1>r, <3>1, <3>3
  <2>2. QED
    BY <1>f, <2>1 DEF Entries
<1>6. NoStaleEntry'
  BY <1>f, <1>r, <1>e DEF NoStaleEntry, Registered
<1>7. Ended'
  BY <1>f DEF Base, Ended
<1>8. QED
  BY <1>1, <1>2, <1>3, <1>4, <1>5, <1>6, <1>7 DEF Base

\* Where user_st_established of both users ends.
LEMMA InitBase ==
  ASSUME RoomForAll, Init
  PROVE  Base
<1>u. /\ \A u \in User : sent[u] \in Early /\ sent[u] \in 0 .. Limit
                         /\ sent[u] \in Nat /\ Request + sent[u] < Size
      /\ Size \in Nat /\ Request \in Nat
  BY EarlyAssumption, SizeAssumption, OutAssumption DEF Init, RoomForAll
<1>b. ASSUME NEW u \in User
      PROVE  /\ buf[u] \in Buffer(Byte) /\ BufLeft(buf[u], Size) > 0
             /\ BufLen(buf[u]) > 0
  <2> DEFINE k == sent[u] + (IF Packs(sent[u]) THEN 1 ELSE 0)
             d == [n \in 1 .. k |-> <<u, IF n <= sent[u] THEN n ELSE 0>>]
  <2>1. buf[u] = [trash |-> Request, data |-> d]
    BY DEF Init
  <2>k. k \in Nat /\ k > 0 /\ k <= sent[u] + 1 /\ Request + k < Size
    BY <1>u, SizeAssumption DEF Packs
  <2> HIDE DEF k
  <2>2. d \in [1 .. k -> Byte]
    <3> SUFFICES ASSUME NEW n \in 1 .. k
                 PROVE  <<u, IF n <= sent[u] THEN n ELSE 0>> \in Byte
      OBVIOUS
    <3>1. (IF n <= sent[u] THEN n ELSE 0) \in 0 .. Limit
      BY <1>u, <2>k, OutAssumption
    <3>2. QED
      BY <3>1 DEF Byte
  <2> HIDE DEF d
  <2>3. d \in Seq(Byte) /\ Len(d) = k
    BY <2>k, <2>2
  <2>4. QED
    BY <1>u, <2>k, <2>1, <2>3 DEF Buffer, BufLeft, BufLen
<1>l. /\ loop \in Loop(User, None) /\ loop.flags = [u \in User |-> Flag]
      /\ loop.batch = <<>> /\ loop.cur = 0
  <2>1. loop = [flags |-> [u \in User |-> Flag], ready |-> User,
                batch |-> <<>>, cur |-> 0]
    BY DEF Init, IdleLoop
  <2>2. QED
    BY <2>1 DEF Loop
<1>d. DOMAIN loop.batch = {} /\ Len(loop.batch) = 0
  BY <1>l
<1>1. TypeOK
  <2>1. buf \in [User -> Buffer(Byte)]
    <3>1. DOMAIN buf = User /\ buf = [u \in User |-> buf[u]]
      BY DEF Init
    <3>2. QED
      BY <1>b, <3>1
  <2>2. \A u \in User : BufLeft(buf[u], Size) >= 0
    BY <1>b, <1>u DEF Buffer, BufLeft
  <2>3. /\ in \in [User -> Seq(Byte)] /\ got \in [User -> Seq(Byte)]
        /\ unread \in [User -> 0 .. OutSize]
    BY OutAssumption DEF Init
  <2>4. sent \in [User -> 0 .. Limit]
    BY <1>u DEF Init
  <2>5. QED
    BY <1>l, <2>1, <2>2, <2>3, <2>4 DEF Init, TypeOK
<1>2. Control
  BY <1>l, <1>d DEF Init, Control
<1>3. Registration
  <2>1. ASSUME NEW u \in User PROVE loop.flags[u] = Wanted(u)
    <3>1. BufLeft(buf[u], Size) > 0 /\ BufLen(buf[Peer[u]]) > 0
      BY <1>b, PeerProps
    <3>2. Wanted(u) = Flag
      BY <3>1 DEF Wanted, Flag
    <3>3. QED
      BY <1>l, <3>2
  <2>2. QED
    BY <2>1 DEF Init, Registration
<1>4. Distinct /\ Entries /\ NoStaleEntry /\ Ended
  BY <1>d DEF Init, Distinct, Entries, NoStaleEntry, Ended
<1>5. QED
  BY <1>1, <1>2, <1>3, <1>4 DEF Base

\* Every step keeps the invariant.
LEMMA NextBase ==
  ASSUME Base, [Next]_vars
  PROVE  Base'
<1>1. CASE UNCHANGED vars
  <2> USE <1>1 DEF vars, client, Base
  <2>1. TypeOK'
    BY DEF TypeOK
  <2>2. Control'
    BY DEF Control, Current
  <2>3. Registration'
    BY DEF Registration, Wanted
  <2>4. Distinct'
    BY DEF Distinct
  <2>5. Entries'
    BY DEF Entries, Doable, Current
  <2>6. NoStaleEntry' /\ Ended'
    BY DEF NoStaleEntry, Registered, Ended, Current
  <2>7. QED
    BY <2>1, <2>2, <2>3, <2>4, <2>5, <2>6
<1>2. CASE Handler
  BY <1>2, EventSkipStep, EventErrorStep, EventBeginStep,
     ReadEndsStep, ReadSomeStep, WriteFailsStep, WriteSomeStep, KilledStep,
     FailFlushStep, FailShutdownStep, FlushSomeStep, FlushFailsStep
     DEF Handler, WriteKills, FlushKills
<1>3. CASE EpollWait \/ TimesOut
  BY <1>3, EpollWaitStep, TimesOutStep
<1>4. ASSUME NEW u \in User,
             \/ ClientSends(u) \/ ClientEnds(u) \/ ClientResets(u)
             \/ ClientReads(u)
      PROVE  Base'
  BY <1>4, ClientSendsStep, ClientEndsStep, ClientResetsStep, ClientReadsStep
<1>5. QED
  BY <1>1, <1>2, <1>3, <1>4 DEF Next, Gone

-----------------------------------------------------------------------------
(* No edge is lost.                                                        *)

\* What a change of the registrations leaves to v: its entries and its place
\* on the ready list.
Kept(r, e, v) ==
  /\ r.cur = e.cur /\ DOMAIN r.batch = DOMAIN e.batch
  /\ \A i \in DOMAIN e.batch :
       e.batch[i].fd = v => r.batch[i].fd = v /\ r.batch[i].ev = e.batch[i].ev
  /\ v \in e.ready => v \in r.ready

\* A socket whose registration changes is put on the ready list when there is
\* something to report; nobody is taken off the list.
LEMMA AddTells ==
  ASSUME NEW e \in Loop(User, None), NEW u \in User, NEW f \in SUBSET Flag
  PROVE  LET r == EventSet(e, u, f) IN
         /\ \A v \in User : Kept(r, e, v)
         /\ e.flags[u] # f /\ Reported(r, u, Conditions(u)) # {}
              => u \in r.ready
<1> DEFINE r == EventSet(e, u, f)
           d == [e EXCEPT !.flags[u] = f]
<1>1. r.batch = e.batch /\ r.cur = e.cur
      /\ r.flags = [e.flags EXCEPT ![u] = f]
  BY AddProps
<1>2. d \in Loop(User, None) /\ d.ready = e.ready
      /\ d.flags = [e.flags EXCEPT ![u] = f]
  BY DEF Loop
<1>3. r = IF e.flags[u] = f THEN e ELSE Wake(d, u, Conditions(u))
  BY DEF EventSet, EventAdd
<1> HIDE DEF r, d
<1>4. Wake(d, u, Conditions(u)) =
        IF Reported(d, u, Conditions(u)) = {} THEN d
        ELSE [d EXCEPT !.ready = @ \cup {u}]
  BY DEF Wake
<1>5. [d EXCEPT !.ready = @ \cup {u}].ready = e.ready \cup {u}
  BY <1>2 DEF Loop
<1>6. e.ready \subseteq r.ready
  BY <1>2, <1>3, <1>4, <1>5
<1>7. ASSUME e.flags[u] # f, Reported(r, u, Conditions(u)) # {}
      PROVE  u \in r.ready
  <2>1. Reported(d, u, Conditions(u)) = Reported(r, u, Conditions(u))
    BY <1>1, <1>2 DEF Reported, Registered
  <2>2. QED
    BY <1>3, <1>4, <1>5, <1>7, <2>1
<1>8. QED
  BY <1>1, <1>6, <1>7 DEF Kept, r

\* Cancelling the events of u leaves the other user alone.
LEMMA DelTells ==
  ASSUME NEW e \in Loop(User, None), NEW u \in User, NEW v \in User, v # u
  PROVE  Kept(EventCancel(e, u), e, v)
<1> DEFINE r == EventCancel(e, u)
<1>1. /\ r.cur = e.cur
      /\ DOMAIN r.batch = DOMAIN e.batch
      /\ \A i \in DOMAIN e.batch :
           /\ r.batch[i].ev = e.batch[i].ev
           /\ r.batch[i].fd = IF e.flags[u] # {} /\ i > e.cur
                                 /\ e.batch[i].fd = u
                              THEN None ELSE e.batch[i].fd
  BY DelProps
<1>2. v \in e.ready => v \in r.ready
  BY DEF EventCancel, EventDel, Registered, Loop
<1> HIDE DEF r
<1>3. QED
  BY <1>1, <1>2 DEF Kept, r

\* What is told of v in the loop e while a handler works on another user.
ToldOf(e, v, c) ==
  \/ v \in e.ready
  \/ \E i \in DOMAIN e.batch :
       e.cur < i /\ e.batch[i].fd = v /\ c \in e.batch[i].ev

LEMMA KeptTold ==
  ASSUME NEW r, NEW e, NEW v \in User, NEW c, Kept(r, e, v), ToldOf(e, v, c)
  PROVE  ToldOf(r, v, c)
BY DEF Kept, ToldOf

\* What is told in the middle of a handler of u: of u itself, all but what the
\* handler is about to do, and all of its peer.
LEMMA ToldHere ==
  ASSUME Base, Told, st = "EST", NEW v \in User,
         NEW c \in Reported(loop, v, Conditions(v)),
         \/ v # Current.fd
         \/ pc = "read" /\ c \notin Current.ev
         \/ pc = "write" /\ c # "W",
         pc \in {"read", "write"}
  PROVE  ToldOf(loop, v, c)
<1>1. CASE v \in loop.ready
  BY <1>1 DEF ToldOf
<1>2. CASE v \notin loop.ready
  <2>1. PICK i \in DOMAIN loop.batch :
          ToHandle(i, c) /\ loop.batch[i].fd = v /\ c \in loop.batch[i].ev
    BY <1>2 DEF Told
  <2>2. loop.cur < i
    BY <2>1 DEF ToHandle, Current
  <2>3. QED
    BY <2>1, <2>2 DEF ToldOf
<1>3. QED
  BY <1>1, <1>2

\* The peer p of the user of the handler, after its registration is set.
LEMMA PeerTold ==
  ASSUME NEW e \in Loop(User, None), NEW p \in User, NEW g \in SUBSET Flag,
         Kept(e, loop, p), e.flags[p] = loop.flags[p],
         \A c \in Reported(loop, p, Conditions(p)) : ToldOf(loop, p, c),
         NEW c \in Reported(EventSet(e, p, g), p, Conditions(p))
  PROVE  ToldOf(EventSet(e, p, g), p, c)
<1> DEFINE r == EventSet(e, p, g)
<1>1. /\ Kept(r, e, p)
      /\ e.flags[p] # g /\ Reported(r, p, Conditions(p)) # {} => p \in r.ready
      /\ r.flags = [e.flags EXCEPT ![p] = g]
  BY AddTells, AddProps
<1> HIDE DEF r
<1>2. CASE e.flags[p] # g
  BY <1>1, <1>2 DEF ToldOf, r
<1>3. CASE e.flags[p] = g
  <2>1. r.flags[p] = loop.flags[p]
    <3>1. e.flags \in [User -> SUBSET Flag]
      BY DEF Loop
    <3>2. QED
      BY <1>1, <1>3, <3>1
  <2>2. c \in Reported(loop, p, Conditions(p))
    BY <2>1 DEF Reported, Registered, r
  <2>3. ToldOf(loop, p, c)
    BY <2>2
  <2>4. QED
    BY <1>1, <2>3, KeptTold DEF r
<1>4. QED
  BY <1>2, <1>3

\* The steps that end the session or the process.
LEMMA DownTold ==
  ASSUME Base', st' \in {"DOWN", "KILLED"}
  PROVE  Told'
<1>1. CASE st' = "KILLED"
  BY <1>1 DEF Told
<1>2. CASE st' = "DOWN"
  <2>1. \A v \in User : loop'.flags[v] = {}
    BY <1>2 DEF Base, Registration
  <2>2. \A v \in User : Reported(loop, v, Conditions(v))' = {}
    BY <2>1 DEF Reported, Registered
  <2>3. QED
    BY <2>2 DEF Told
<1>3. QED
  BY <1>1, <1>2

\* An entry without a socket belongs to nobody.
LEMMA EventSkipTold ==
  ASSUME Base, Told, EventSkip
  PROVE  Told'
<1>0. TypeOK /\ loop \in Loop(User, None)
  BY DEF Base, TypeOK
<1>1. /\ UNCHANGED <<st, pc, in, unread, eof, rst>>
      /\ pc = "loop" /\ st # "KILLED" /\ loop.batch[loop.cur + 1].fd = None
      /\ loop' = Advance(loop)
  BY DEF EventSkip, client
<1>2. /\ loop'.flags = loop.flags /\ loop'.ready = loop.ready
      /\ loop'.batch = loop.batch /\ loop'.cur = loop.cur + 1
  BY <1>0, <1>1, AdvanceProps
<1>3. SUFFICES ASSUME NEW v \in User,
                      NEW c \in Reported(loop, v, Conditions(v))',
                      v \notin loop'.ready
               PROVE  \E i \in DOMAIN loop'.batch : ToHandle(i, c)'
                        /\ loop'.batch[i].fd = v /\ c \in loop'.batch[i].ev
  BY DEF Told
<1>4. c \in Reported(loop, v, Conditions(v))
  BY <1>1, <1>2 DEF Reported, Registered, Conditions
<1>5. PICK i \in DOMAIN loop.batch :
        ToHandle(i, c) /\ loop.batch[i].fd = v /\ c \in loop.batch[i].ev
  BY <1>1, <1>2, <1>3, <1>4 DEF Told
<1>6. loop.cur < i /\ i # loop.cur + 1
  BY <1>1, <1>5, PeerProps DEF ToHandle
<1>7. loop'.cur < i
  BY <1>0, <1>2, <1>6, TypeFacts
<1>8. QED
  BY <1>2, <1>5, <1>7 DEF ToHandle

\* The handler that begins has all of its entry before it.
LEMMA EventBeginTold ==
  ASSUME Base, Told, EventBegin, Base'
  PROVE  Told'
<1>0. TypeOK /\ loop \in Loop(User, None)
  BY DEF Base, TypeOK
<1> DEFINE x == loop.batch[loop.cur + 1]
<1>1. /\ UNCHANGED <<st, flush, in, unread, eof, rst>>
      /\ pc = "loop" /\ st # "KILLED" /\ x.fd # None /\ "E" \notin x.ev
      /\ pc' = IF x.fd = flush THEN "flush"
               ELSE IF "R" \in x.ev THEN "read" ELSE "write"
      /\ loop' = Advance(loop)
  BY DEF EventBegin, client
<1>2. /\ loop'.flags = loop.flags /\ loop'.ready = loop.ready
      /\ loop'.batch = loop.batch /\ loop'.cur = loop.cur + 1
  BY <1>0, <1>1, AdvanceProps
<1>3. SUFFICES ASSUME NEW v \in User,
                      NEW c \in Reported(loop, v, Conditions(v))',
                      v \notin loop'.ready
               PROVE  \E i \in DOMAIN loop'.batch : ToHandle(i, c)'
                        /\ loop'.batch[i].fd = v /\ c \in loop'.batch[i].ev
  BY DEF Told
<1>4. c \in Reported(loop, v, Conditions(v))
  BY <1>1, <1>2 DEF Reported, Registered, Conditions
<1>5. PICK i \in DOMAIN loop.batch :
        ToHandle(i, c) /\ loop.batch[i].fd = v /\ c \in loop.batch[i].ev
  BY <1>1, <1>2, <1>3, <1>4 DEF Told
<1>6. loop.cur < i
  BY <1>1, <1>5 DEF ToHandle
<1>7. CASE i # loop.cur + 1
  <2>1. loop'.cur < i
    BY <1>0, <1>2, <1>6, <1>7, TypeFacts
  <2>2. QED
    BY <1>2, <1>5, <2>1 DEF ToHandle
<1>8. CASE i = loop.cur + 1
  <2>1. c \in Condition /\ c # "E"
    BY <1>0, <1>1, <1>5, <1>8, TypeFacts
  <2>2. pc' = "flush" => c = "W"
    <3>1. pc' = "flush" => st = "CLEAN"
      BY <1>1 DEF Base, Control
    <3>2. st = "CLEAN" => "R" \notin x.ev
      BY <1>1, <1>5, <1>6, <1>8 DEF Base, Entries, Doable
    <3>3. QED
      BY <1>5, <1>8, <2>1, <3>1, <3>2 DEF Condition, Flag
  <2>3. pc' = "write" => c = "W"
    BY <1>1, <1>5, <1>8, <2>1 DEF Condition, Flag
  <2>4. ToHandle(i, c)'
    BY <1>1, <1>2, <1>8, <2>2, <2>3 DEF ToHandle
  <2>5. QED
    BY <1>2, <1>5, <2>4
<1>9. QED
  BY <1>7, <1>8

\* A handler that fails still has its entry before it.
LEMMA FailsTold ==
  ASSUME Base, Told, ReadEnds \/ WriteFails
  PROVE  Told'
<1>0. TypeOK
  BY DEF Base
<1>1. /\ UNCHANGED <<st, loop, unread, eof, rst>>
      /\ pc \in {"read", "write"} /\ pc' = "fail"
  BY DEF ReadEnds, WriteFails, client
<1>2. \A v \in User : in[v] = <<>> => in'[v] = <<>>
  <2>1. CASE ReadEnds
    <3>u. PICK u : u = Current.fd
      OBVIOUS
    <3>1. u \in User
      BY <1>1, <3>u DEF Base, Control
    <3>2. in' = [in EXCEPT ![u] = Rest(in[u], Readable(u))]
      BY <2>1, <3>u DEF ReadEnds
    <3>3. in[u] = <<>> => Rest(in[u], Readable(u)) = <<>>
      <4>1. Readable(u) \in 0 .. Len(in[u]) /\ in[u] \in Seq(Byte)
        BY <1>0, <3>1, ReadProps, TypeFacts
      <4>2. /\ Rest(in[u], Readable(u)) \in Seq(Byte)
            /\ Len(Rest(in[u], Readable(u))) = Len(in[u]) - Readable(u)
        BY <4>1, CutProps
      <4>3. in[u] = <<>> => Len(in[u]) = 0
        OBVIOUS
      <4>4. in[u] = <<>> => Len(Rest(in[u], Readable(u))) = 0
        BY <4>1, <4>2, <4>3
      <4>5. QED
        BY <4>2, <4>4, EmptySeq
    <3>4. QED
      BY <1>0, <3>1, <3>2, <3>3 DEF TypeOK
  <2>2. CASE WriteFails
    BY <2>2 DEF WriteFails
  <2>3. QED
    BY <2>1, <2>2
<1>3. SUFFICES ASSUME NEW v \in User,
                      NEW c \in Reported(loop, v, Conditions(v))',
                      v \notin loop'.ready, st' # "KILLED"
               PROVE  \E i \in DOMAIN loop'.batch : ToHandle(i, c)'
                        /\ loop'.batch[i].fd = v /\ c \in loop'.batch[i].ev
  BY DEF Told
<1>4. c \in Reported(loop, v, Conditions(v))
  BY <1>1, <1>2 DEF Reported, Registered, Conditions
<1>5. PICK i \in DOMAIN loop.batch :
        ToHandle(i, c) /\ loop.batch[i].fd = v /\ c \in loop.batch[i].ev
  BY <1>1, <1>3, <1>4 DEF Told
<1>6. ToHandle(i, c)'
  BY <1>1, <1>5 DEF ToHandle
<1>7. QED
  BY <1>1, <1>5, <1>6

\* The user that is flushed is registered anew.
LEMMA FailFlushTold ==
  ASSUME Base, FailFlush, Base'
  PROVE  Told'
<1>0. TypeOK /\ loop \in Loop(User, None)
  BY DEF Base, TypeOK
<1>u. PICK u : u = Current.fd
  OBVIOUS
<1>v. u \in User /\ Peer[u] \in User /\ Peer[u] # u /\ User = {u, Peer[u]}
      /\ Peer[Peer[u]] = u
  BY <1>u, PeerProps DEF FailFlush, Base, Control
<1>p. PICK p : p = Peer[u]
  OBVIOUS
<1> DEFINE d == EventCancel(loop, u)
           e == EventCancel(d, p)
           r == EventSet(e, p, {"W"})
<1>1. /\ UNCHANGED <<in, unread, eof, rst>>
      /\ st' = "CLEAN" /\ flush' = p /\ loop' = r
  BY <1>u, <1>p DEF FailFlush, client
<1>2. d \in Loop(User, None)
  BY <1>0, <1>v, DelProps
<1> HIDE DEF d
<1>3. e \in Loop(User, None) /\ e.flags = [d.flags EXCEPT ![p] = {}]
  BY <1>2, <1>v, <1>p, DelProps
<1>4. e.flags[p] = {}
  <2>1. d.flags \in [User -> SUBSET Flag]
    BY <1>2 DEF Loop
  <2>2. QED
    BY <1>3, <1>v, <1>p, <2>1
<1> HIDE DEF e
<1>5. Reported(r, p, Conditions(p)) # {} => p \in r.ready
  <2>1. {"W"} \in SUBSET Flag /\ {"W"} # {} /\ p \in User
    BY <1>v, <1>p DEF Flag
  <2>2. QED
    BY <1>3, <1>4, <2>1, AddTells
<1> HIDE DEF r
<1>6. loop'.flags[u] = {}
  BY <1>1, <1>v, <1>p DEF Base, Registration
<1>7. Reported(loop, u, Conditions(u))' = {}
  BY <1>6 DEF Reported, Registered
<1>8. Reported(loop, p, Conditions(p))' = Reported(r, p, Conditions(p))
  BY <1>1 DEF Reported, Registered, Conditions
<1>9. QED
  BY <1>1, <1>5, <1>7, <1>8, <1>v, <1>p DEF Told

\* Something is read: the rest of the entry is to write, and what was not read
\* is reported when the user is registered for it again.
LEMMA ReadSomeTold ==
  ASSUME Base, Told, ReadSome
  PROVE  Told'
<1>0. TypeOK /\ loop \in Loop(User, None)
      /\ loop.flags \in [User -> SUBSET Flag]
  BY TypeFacts DEF Base, TypeOK
<1>u. PICK u : u = Current.fd
  OBVIOUS
<1>v. /\ u \in User /\ st = "EST" /\ pc = "read"
      /\ BufLeft(buf[u], Size) > 0 /\ "E" \notin Current.ev
      /\ loop.cur \in DOMAIN loop.batch
  BY <1>u DEF ReadSome, Base, Control, Current, Entries, Doable
<1>p. PICK p : p = Peer[u]
  OBVIOUS
<1>q. p \in User /\ p # u /\ User = {u, p}
  BY <1>v, <1>p, PeerProps
<1> DEFINE k == Readable(u)
           own == Stored(buf[u], Front(in[u], k))
           full == BufLeft(own, Size) = 0
           some == BufLen(buf[p]) > 0
           e == IF ~full THEN loop
                ELSE IF some THEN EventSet(loop, u, {"W"})
                             ELSE EventCancel(loop, u)
           g == IF BufLeft(buf[p], Size) = 0 THEN {"W"} ELSE Flag
           r == EventSet(e, p, g)
<1>f. /\ in' = [in EXCEPT ![u] = Rest(in[u], k)]
      /\ loop' = r
      /\ pc' = IF "W" \in Current.ev THEN "write" ELSE "loop"
      /\ UNCHANGED <<st, unread, eof, rst>>
      /\ ~RecvEnds(u)
  BY <1>u, <1>p DEF ReadSome, AfterRead, EventsAfterRead, client
<1>k. ~full => u \notin eof \cup rst /\ Rest(in[u], k) = <<>>
  <2>1. /\ BufLeft(own, Size) = BufLeft(buf[u], Size) - k
        /\ k <= BufLeft(buf[u], Size) /\ k \in 0 .. Len(in[u])
        /\ k < BufLeft(buf[u], Size) => k = Len(in[u])
    BY <1>0, <1>v, ReadProps
  <2>2. BufLeft(buf[u], Size) \in Nat /\ in[u] \in Seq(Byte)
    BY <1>0, <1>v, LeftType, TypeFacts
  <2>3. Len(Rest(in[u], k)) = Len(in[u]) - k /\ Rest(in[u], k) \in Seq(Byte)
    BY <2>1, <2>2, CutProps
  <2> HIDE DEF k, own
  <2>4. ~full => k < BufLeft(buf[u], Size)
    BY <2>1, <2>2
  <2>5. ~full => u \notin eof \cup rst
    BY <1>f, <2>4 DEF RecvEnds, RecvEmpty, k
  <2>6. ~full => Len(Rest(in[u], k)) = 0
    BY <2>1, <2>2, <2>3, <2>4
  <2>7. QED
    BY <2>3, <2>5, <2>6, EmptySeq
<1>w. "R" \in loop.flags[u] /\ p # u /\ g \in SUBSET Flag
  BY <1>v, <1>q DEF Base, Registration, Wanted, Flag
<1> HIDE DEF k, own, full, some, g
<1>e. /\ e \in Loop(User, None) /\ Kept(e, loop, p)
      /\ e.flags[p] = loop.flags[p]
      /\ full => e.flags[u] = IF some THEN {"W"} ELSE {}
      /\ full /\ Reported(e, u, Conditions(u)) # {} => u \in e.ready
  <2>1. CASE ~full
    BY <1>0, <2>1 DEF Kept
  <2>2. CASE full /\ some
    <3>1. e = EventSet(loop, u, {"W"}) /\ {"W"} \in SUBSET Flag
      BY <2>2 DEF Flag
    <3>2. loop.flags[u] # {"W"}
      BY <1>w
    <3> HIDE DEF e
    <3>3. /\ e \in Loop(User, None)
          /\ e.flags = [loop.flags EXCEPT ![u] = {"W"}]
      BY ZenonT(30), <1>0, <1>v, <3>1, AddProps
    <3>4. /\ Kept(e, loop, p)
          /\ Reported(e, u, Conditions(u)) # {} => u \in e.ready
      BY <1>0, <1>v, <1>q, <3>1, <3>2, AddTells
    <3>5. QED
      BY <1>0, <1>v, <1>q, <2>2, <3>3, <3>4
  <2>3. CASE full /\ ~some
    <3>1. e = EventCancel(loop, u)
      BY <2>3
    <3> HIDE DEF e
    <3>2. /\ e \in Loop(User, None)
          /\ e.flags = [loop.flags EXCEPT ![u] = {}]
      BY <1>0, <1>v, <3>1, DelProps
    <3>3. Kept(e, loop, p)
      BY <1>0, <1>v, <1>q, <3>1, DelTells
    <3>4. e.flags[p] = loop.flags[p] /\ e.flags[u] = {}
      BY <1>0, <1>v, <1>q, <3>2
    <3>5. Reported(e, u, Conditions(u)) = {}
      BY <3>4 DEF Reported, Registered
    <3>6. QED
      BY <2>3, <3>2, <3>3, <3>4, <3>5
  <2>4. QED
    BY <2>1, <2>2, <2>3
<1>n. ~full => e = loop
  OBVIOUS
<1> HIDE DEF e
<1>r. /\ r \in Loop(User, None) /\ r.flags = [e.flags EXCEPT ![p] = g]
      /\ Kept(r, e, u)
  BY <1>e, <1>v, <1>q, <1>w, AddProps, AddTells
<1>s. r.flags[u] = e.flags[u]
  <2>1. e.flags \in [User -> SUBSET Flag]
    BY <1>e DEF Loop
  <2>2. QED
    BY <1>r, <1>v, <1>q, <2>1
<1>1. ASSUME NEW c \in Reported(r, p, Conditions(p)) PROVE ToldOf(r, p, c)
  <2>1. \A d \in Reported(loop, p, Conditions(p)) : ToldOf(loop, p, d)
    BY <1>u, <1>v, <1>q, ToldHere
  <2>2. QED
    BY <1>1, <1>e, <1>q, <1>w, <2>1, PeerTold
<1> HIDE DEF r
<1>2. Conditions(p)' = Conditions(p)
  <2>1. in'[p] = in[p]
    BY <1>0, <1>q, <1>f DEF TypeOK
  <2>2. QED
    BY <1>f, <2>1 DEF Conditions
<1>3. Conditions(u)' \subseteq Conditions(u) \cup {"R"}
  BY <1>f DEF Conditions
<1>4. ~full => "R" \notin Conditions(u)'
  <2>1. ~full => in'[u] = <<>>
    BY <1>0, <1>v, <1>f, <1>k DEF TypeOK
  <2>2. QED
    BY <1>f, <1>k, <2>1 DEF Conditions
<1>5. ASSUME NEW c \in Reported(loop, u, Conditions(u))', full
      PROVE  u \in r.ready
  <2>1. c \in Conditions(u)' /\ c \in r.flags[u] \cup {"E"} /\ r.flags[u] # {}
    BY <1>5, <1>f DEF Reported, Registered
  <2>2. c # "R" /\ c \in Conditions(u)
    BY <1>3, <1>5, <1>e, <1>s, <2>1
  <2>3. c \in Reported(e, u, Conditions(u))
    BY <1>s, <2>1, <2>2 DEF Reported, Registered
  <2>4. QED
    BY <1>5, <1>e, <1>r, <2>3 DEF Kept
<1>6. ASSUME NEW c \in Reported(loop, u, Conditions(u))', ~full
      PROVE  \/ u \in r.ready
             \/ \E i \in DOMAIN r.batch : ToHandle(i, c)'
                  /\ r.batch[i].fd = u /\ c \in r.batch[i].ev
  <2>1. c \in Conditions(u)' /\ c \in r.flags[u] \cup {"E"} /\ r.flags[u] # {}
    BY <1>f DEF Reported, Registered
  <2>2. c # "R" /\ c \in Reported(loop, u, Conditions(u))
    BY <1>3, <1>4, <1>6, <1>n, <1>s, <2>1 DEF Reported, Registered
  <2>3. /\ r.cur = loop.cur /\ DOMAIN r.batch = DOMAIN loop.batch
        /\ \A i \in DOMAIN loop.batch : loop.batch[i].fd = u =>
             r.batch[i].fd = u /\ r.batch[i].ev = loop.batch[i].ev
        /\ u \in loop.ready => u \in r.ready
    BY <1>6, <1>n, <1>r DEF Kept
  <2>4. CASE c \notin Current.ev
    <3>1. ToldOf(loop, u, c)
      BY <1>u, <1>v, <2>2, <2>4, ToldHere
    <3>2. QED
      BY <1>f, <2>3, <3>1 DEF ToldOf, ToHandle
  <2>5. CASE c \in Current.ev
    <3>1. c = "W"
      <4>1. c \in Condition
        BY <2>2 DEF Reported, Registered, Conditions
      <4>2. QED
        BY <1>v, <2>2, <2>5, <4>1 DEF Condition, Flag
    <3>2. pc' = "write" /\ loop'.cur = loop.cur
      BY <1>f, <2>3, <2>5, <3>1
    <3>3. PICK i : i = loop.cur
      OBVIOUS
    <3>4. ToHandle(i, c)'
      BY <3>1, <3>2, <3>3 DEF ToHandle
    <3>5. QED
      BY <1>u, <1>v, <2>3, <2>5, <3>3, <3>4 DEF Current
  <2>6. QED
    BY <2>4, <2>5
<1>7. ASSUME NEW c \in Reported(loop, p, Conditions(p))'
      PROVE  ToldOf(r, p, c)
  <2>1. c \in Reported(r, p, Conditions(p))
    BY <1>2, <1>f DEF Reported, Registered
  <2>2. QED
    BY <1>1, <2>1
<1>8. ASSUME NEW v \in User, NEW c \in Reported(loop, v, Conditions(v))'
      PROVE  \/ v \in loop'.ready
             \/ \E i \in DOMAIN loop'.batch : ToHandle(i, c)'
                  /\ loop'.batch[i].fd = v /\ c \in loop'.batch[i].ev
  <2>1. CASE v = p
    <3>1. ToldOf(r, p, c)
      BY <1>7, <1>8, <2>1
    <3>2. QED
      BY <1>f, <2>1, <3>1 DEF ToldOf, ToHandle
  <2>2. CASE v = u
    BY <1>5, <1>6, <1>8, <1>f, <2>2
  <2>3. QED
    BY <1>q, <2>1, <2>2
<1>9. QED
  BY <1>8 DEF Told

\* Something is sent: either the buffer is empty and the user is registered
\* anew, or its socket is full, which a client that reads will tell.
LEMMA WriteSomeTold ==
  ASSUME Base, Told, WriteSome
  PROVE  Told'
<1>0. TypeOK /\ loop \in Loop(User, None)
      /\ loop.flags \in [User -> SUBSET Flag]
  BY TypeFacts DEF Base, TypeOK
<1>u. PICK u : u = Current.fd
  OBVIOUS
<1>p. PICK p : p = Peer[u]
  OBVIOUS
<1>v. /\ u \in User /\ st = "EST" /\ pc = "write"
      /\ BufLen(buf[p]) > 0
  BY <1>u, <1>p DEF WriteSome, Base, Control, Entries, Doable
<1>q. p \in User /\ p # u /\ User = {u, p}
  BY <1>v, <1>p, PeerProps
<1> DEFINE k == Writable(u, buf[p])
           other == RefreshedIfFull(Drained(buf[p], k))
           some == BufLen(other) > 0
           room == BufLeft(buf[u], Size) > 0
           e == IF some THEN loop
                ELSE IF room THEN EventSet(loop, u, {"R"})
                             ELSE EventCancel(loop, u)
           g == IF BufLen(buf[u]) = 0 THEN {"R"} ELSE Flag
           r == EventSet(e, p, g)
<1>f. /\ unread' = [unread EXCEPT ![u] = unread[u] + k]
      /\ loop' = r
      /\ pc' = "loop"
      /\ UNCHANGED <<st, in, eof, rst>>
      /\ ~SendFails(u, buf[p]) /\ ~SendKills(u, buf[p])
  BY <1>u, <1>p DEF WriteSome, Send, EventsAfterWrite, client
<1>t. u \notin rst
  BY <1>f, <1>v DEF SendFails, SendKills
<1>k. some => unread[u] + k = OutSize
  <2>1. buf[p] \in Buffer(Byte) /\ BufLeft(buf[p], Size) >= 0
        /\ Len(buf[p].data) \in Nat /\ unread[u] \in Nat /\ OutSize \in Nat
    BY <1>0, <1>q, <1>v, TypeFacts DEF TypeOK
  <2>2. LET d == Drained(buf[p], k) IN
        /\ d \in Buffer(Byte) /\ BufLeft(d, Size) = BufLeft(buf[p], Size)
        /\ Len(d.data) = Len(buf[p].data) - k
        /\ k \in 0 .. Len(buf[p].data)
    BY <1>0, <1>v, <2>1, SendProps
  <2>3. other.data = Drained(buf[p], k).data
    <3>1. PICK d : d = Drained(buf[p], k)
      OBVIOUS
    <3>2. d \in Buffer(Byte) /\ BufLeft(d, Size) >= 0
      BY <2>1, <2>2, <3>1
    <3>3. RefreshedIfFull(d).data = d.data
      BY <3>2, RefreshProps
    <3>4. QED
      BY <3>1, <3>3
  <2>4. k = IF Len(buf[p].data) <= OutSize - unread[u] THEN Len(buf[p].data)
            ELSE OutSize - unread[u]
    BY DEF Writable, Least, BufLen
  <2>5. some => Len(buf[p].data) - k > 0
    BY <2>2, <2>3 DEF BufLen
  <2> HIDE DEF k, some
  <2>6. QED
    BY <2>1, <2>4, <2>5
<1>w. "W" \in loop.flags[u] /\ g \in SUBSET Flag
  BY <1>v, <1>p DEF Base, Registration, Wanted, Flag
<1> HIDE DEF k, other, some, room, g
<1>e. /\ e \in Loop(User, None) /\ Kept(e, loop, p)
      /\ e.flags[p] = loop.flags[p]
      /\ ~some => e.flags[u] = IF room THEN {"R"} ELSE {}
      /\ ~some /\ Reported(e, u, Conditions(u)) # {} => u \in e.ready
  <2>1. CASE some
    BY <1>0, <2>1 DEF Kept
  <2>2. CASE ~some /\ room
    <3>1. e = EventSet(loop, u, {"R"}) /\ {"R"} \in SUBSET Flag
      BY <2>2 DEF Flag
    <3>2. loop.flags[u] # {"R"}
      BY <1>w
    <3> HIDE DEF e
    <3>3. /\ e \in Loop(User, None)
          /\ e.flags = [loop.flags EXCEPT ![u] = {"R"}]
      BY <1>0, <1>v, <3>1, AddProps
    <3>4. /\ Kept(e, loop, p)
          /\ Reported(e, u, Conditions(u)) # {} => u \in e.ready
      BY <1>0, <1>v, <1>q, <3>1, <3>2, AddTells
    <3>5. QED
      BY <1>0, <1>v, <1>q, <2>2, <3>3, <3>4
  <2>3. CASE ~some /\ ~room
    <3>1. e = EventCancel(loop, u)
      BY <2>3
    <3> HIDE DEF e
    <3>2. /\ e \in Loop(User, None)
          /\ e.flags = [loop.flags EXCEPT ![u] = {}]
      BY <1>0, <1>v, <3>1, DelProps
    <3>3. Kept(e, loop, p)
      BY <1>0, <1>v, <1>q, <3>1, DelTells
    <3>4. e.flags[p] = loop.flags[p] /\ e.flags[u] = {}
      BY <1>0, <1>v, <1>q, <3>2
    <3>5. Reported(e, u, Conditions(u)) = {}
      BY <3>4 DEF Reported, Registered
    <3>6. QED
      BY <2>3, <3>2, <3>3, <3>4, <3>5
  <2>4. QED
    BY <2>1, <2>2, <2>3
<1>n. some => e = loop
  OBVIOUS
<1> HIDE DEF e
<1>r. /\ r \in Loop(User, None) /\ r.flags = [e.flags EXCEPT ![p] = g]
      /\ Kept(r, e, u)
  BY <1>e, <1>v, <1>q, <1>w, AddProps, AddTells
<1>s. r.flags[u] = e.flags[u]
  <2>1. e.flags \in [User -> SUBSET Flag]
    BY <1>e DEF Loop
  <2>2. QED
    BY <1>r, <1>v, <1>q, <2>1
<1>1. ASSUME NEW c \in Reported(r, p, Conditions(p)) PROVE ToldOf(r, p, c)
  <2>1. \A d \in Reported(loop, p, Conditions(p)) : ToldOf(loop, p, d)
    BY <1>u, <1>v, <1>q, ToldHere
  <2>2. QED
    BY <1>1, <1>e, <1>q, <1>w, <2>1, PeerTold
<1> HIDE DEF r
<1>2. Conditions(p)' = Conditions(p)
  <2>1. unread'[p] = unread[p]
    BY <1>0, <1>q, <1>f DEF TypeOK
  <2>2. QED
    BY <1>f, <2>1 DEF Conditions
<1>3. Conditions(u)' \subseteq Conditions(u) \cup {"W"}
      /\ "E" \notin Conditions(u)'
  BY <1>f, <1>t DEF Conditions
<1>4. some => "W" \notin Conditions(u)'
  <2>1. some => unread'[u] = OutSize
    BY <1>0, <1>v, <1>f, <1>k DEF TypeOK
  <2>2. ~(OutSize < OutSize)
    BY OutAssumption
  <2>3. QED
    BY <1>f, <1>t, <2>1, <2>2 DEF Conditions
<1>5. ASSUME NEW c \in Reported(loop, u, Conditions(u))' PROVE ToldOf(r, u, c)
  <2>1. c \in Conditions(u)' /\ c \in r.flags[u] \cup {"E"} /\ r.flags[u] # {}
    BY <1>f DEF Reported, Registered
  <2>2. CASE ~some
    <3>1. c # "W" /\ c \in Conditions(u)
      BY <1>3, <1>e, <1>s, <2>1, <2>2
    <3>2. c \in Reported(e, u, Conditions(u))
      BY <1>s, <2>1, <3>1 DEF Reported, Registered
    <3>3. QED
      BY <1>e, <1>r, <2>2, <3>2 DEF Kept, ToldOf
  <2>3. CASE some
    <3>1. c # "W" /\ c \in Reported(loop, u, Conditions(u))
      BY <1>3, <1>4, <1>n, <1>s, <2>1, <2>3 DEF Reported, Registered
    <3>2. ToldOf(loop, u, c)
      BY <1>u, <1>v, <3>1, ToldHere
    <3>3. QED
      BY <1>n, <1>r, <1>v, <2>3, <3>2, KeptTold
  <2>4. QED
    BY <2>2, <2>3
<1>6. ASSUME NEW c \in Reported(loop, p, Conditions(p))' PROVE ToldOf(r, p, c)
  <2>1. c \in Reported(r, p, Conditions(p))
    BY <1>2, <1>f DEF Reported, Registered
  <2>2. QED
    BY <1>1, <2>1
<1>7. ASSUME NEW v \in User, NEW c \in Reported(loop, v, Conditions(v))'
      PROVE  \/ v \in loop'.ready
             \/ \E i \in DOMAIN loop'.batch : ToHandle(i, c)'
                  /\ loop'.batch[i].fd = v /\ c \in loop'.batch[i].ev
  <2>1. ToldOf(r, v, c)
    BY <1>5, <1>6, <1>7, <1>q
  <2>2. QED
    BY <1>f, <2>1 DEF ToldOf, ToHandle
<1>8. QED
  BY <1>7 DEF Told

\* The last bytes: as long as some are left, the socket is full.
LEMMA FlushSomeTold ==
  ASSUME Base, FlushSome, Base'
  PROVE  Told'
<1>0. TypeOK
  BY DEF Base
<1>1. CASE st' \in {"DOWN", "KILLED"}
  BY <1>1, DownTold
<1>2. CASE st' \notin {"DOWN", "KILLED"}
  <2> DEFINE k == Writable(flush, buf[flush])
             d == Drained(buf[flush], k)
  <2>1. flush \in User /\ st = "CLEAN" /\ BufLen(buf[flush]) > 0
    BY DEF FlushSome, Base, Control, Registration
  <2>2. /\ UNCHANGED <<st, flush, loop, in, eof, rst>>
        /\ unread' = [unread EXCEPT ![flush] = unread[flush] + k]
        /\ BufLen(Refreshed(d)) > 0
        /\ ~SendFails(flush, buf[flush]) /\ ~SendKills(flush, buf[flush])
    BY <1>2 DEF FlushSome, Send, Shutdown, client
  <2>3. flush \notin rst
    BY <2>1, <2>2 DEF SendFails, SendKills
  <2>4. unread[flush] + k = OutSize
    <3>1. /\ buf[flush] \in Buffer(Byte) /\ BufLeft(buf[flush], Size) >= 0
          /\ Len(buf[flush].data) \in Nat /\ unread[flush] \in Nat
          /\ OutSize \in Nat
      BY <1>0, <2>1, TypeFacts DEF TypeOK
    <3>2. /\ d \in Buffer(Byte) /\ Len(d.data) = Len(buf[flush].data) - k
          /\ k \in 0 .. Len(buf[flush].data)
      BY <1>0, <2>1, <3>1, SendProps
    <3>3. k = IF Len(buf[flush].data) <= OutSize - unread[flush]
              THEN Len(buf[flush].data) ELSE OutSize - unread[flush]
      BY DEF Writable, Least, BufLen
    <3>4. Len(buf[flush].data) - k > 0
      BY <2>2, <3>2 DEF BufLen, Refreshed
    <3> HIDE DEF k
    <3>5. QED
      BY <3>1, <3>3, <3>4
  <2> HIDE DEF k, d
  <2>5. unread'[flush] = OutSize /\ ~(OutSize < OutSize)
    BY <1>0, <2>1, <2>2, <2>4, OutAssumption DEF TypeOK
  <2>6. "W" \notin Conditions(flush)' /\ "E" \notin Conditions(flush)'
    BY <2>2, <2>3, <2>5 DEF Conditions
  <2>7. loop'.flags[flush] = {"W"} /\ loop'.flags[Peer[flush]] = {}
    BY <2>1, <2>2 DEF Base, Registration
  <2>8. Reported(loop, flush, Conditions(flush))' = {}
    BY <2>2, <2>6, <2>7 DEF Reported, Registered
  <2>9. ASSUME NEW v \in User PROVE Reported(loop, v, Conditions(v))' = {}
    <3>1. CASE v = flush
      BY <2>2, <2>8, <3>1
    <3>2. CASE v # flush
      <4>1. v = Peer[flush]
        BY <2>1, <3>2, PeerProps
      <4>2. QED
        BY <2>7, <4>1 DEF Reported, Registered
    <3>3. QED
      BY <3>1, <3>2
  <2>10. QED
    BY <2>9 DEF Told
<1>3. QED
  BY <1>1, <1>2

\* Something comes up at a socket.
LEMMA WakeTells ==
  ASSUME NEW e \in Loop(User, None), NEW u \in User, NEW c,
         NEW d \in c, d \in e.flags[u] \cup {"E"}, e.flags[u] # {}
  PROVE  u \in Wake(e, u, c).ready
<1>1. Reported(e, u, c) # {}
  BY DEF Reported, Registered
<1>2. [e EXCEPT !.ready = @ \cup {u}].ready = e.ready \cup {u}
  BY DEF Loop
<1>3. QED
  BY <1>1, <1>2 DEF Wake

LEMMA WakeKeeps ==
  ASSUME NEW e \in Loop(User, None), NEW u \in User, NEW c
  PROVE  e.ready \subseteq Wake(e, u, c).ready
<1>1. [e EXCEPT !.ready = @ \cup {u}].ready = e.ready \cup {u}
  BY DEF Loop
<1>2. QED
  BY <1>1 DEF Wake

\* Clients: a condition that comes up is put on the ready list.
LEMMA ClientTold ==
  ASSUME Told, UNCHANGED <<st, pc>>,
         loop'.flags = loop.flags, loop'.batch = loop.batch,
         loop'.cur = loop.cur, loop.ready \subseteq loop'.ready,
         \A v \in User : \A c \in Reported(loop, v, Conditions(v))' :
           c \in Conditions(v) \/ v \in loop'.ready
  PROVE  Told'
<1>1. SUFFICES ASSUME NEW v \in User,
                      NEW c \in Reported(loop, v, Conditions(v))',
                      v \notin loop'.ready, st' # "KILLED"
               PROVE  \E i \in DOMAIN loop'.batch : ToHandle(i, c)'
                        /\ loop'.batch[i].fd = v /\ c \in loop'.batch[i].ev
  BY DEF Told
<1>2. c \in Conditions(v)
  BY <1>1
<1>3. c \in Reported(loop, v, Conditions(v))
  BY <1>2 DEF Reported, Registered
<1>4. PICK i \in DOMAIN loop.batch :
        ToHandle(i, c) /\ loop.batch[i].fd = v /\ c \in loop.batch[i].ev
  BY <1>1, <1>3 DEF Told
<1>5. ToHandle(i, c)'
  BY <1>4 DEF ToHandle
<1>6. QED
  BY <1>4, <1>5

LEMMA ClientsTold ==
  ASSUME Base, Told, NEW u \in User,
         ClientSends(u) \/ ClientEnds(u) \/ ClientResets(u) \/ ClientReads(u)
  PROVE  Told'
<1>0. TypeOK /\ loop \in Loop(User, None)
  BY DEF Base, TypeOK
<1>1. PICK c : /\ c \in {{"R"}, {"W"}, Condition, {}}
               /\ loop' = Wake(loop, u, c)
               /\ Conditions(u)' \subseteq Conditions(u) \cup c
  <2>1. CASE ClientSends(u)
    BY <2>1 DEF ClientSends, Conditions, Condition
  <2>2. CASE ClientEnds(u)
    BY <2>2 DEF ClientEnds, Conditions
  <2>3. CASE ClientResets(u)
    BY <2>3 DEF ClientResets, Conditions
  <2>4. CASE ClientReads(u)
    <3>1. /\ UNCHANGED <<in, eof, rst>>
          /\ loop' = IF unread[u] = OutSize THEN Wake(loop, u, {"W"}) ELSE loop
      BY <2>4 DEF ClientReads, client
    <3>2. unread[u] \in Nat /\ unread[u] <= OutSize /\ OutSize \in Nat
      BY <1>0, TypeFacts
    <3>3. CASE unread[u] = OutSize
      BY <3>1, <3>3 DEF Conditions
    <3>4. CASE unread[u] # OutSize
      <4>1. unread[u] < OutSize
        BY <3>2, <3>4
      <4>2. Conditions(u)' \subseteq Conditions(u)
        BY <3>1, <4>1 DEF Conditions
      <4>3. Wake(loop, u, {}) = loop
        BY DEF Wake, Reported
      <4>4. QED
        BY <3>1, <3>4, <4>2, <4>3
    <3>5. QED
      BY <3>3, <3>4
  <2>5. QED
    BY <2>1, <2>2, <2>3, <2>4
<1>2. /\ loop'.flags = loop.flags /\ loop'.batch = loop.batch
      /\ loop'.cur = loop.cur /\ loop.ready \subseteq loop'.ready
  BY <1>0, <1>1, WakeProps, WakeKeeps
<1>3. UNCHANGED <<st, pc>>
  BY DEF ClientSends, ClientEnds, ClientResets, ClientReads
<1>4. ASSUME NEW v \in User, NEW d \in Reported(loop, v, Conditions(v))'
      PROVE  d \in Conditions(v) \/ v \in loop'.ready
  <2>1. d \in Conditions(v)' /\ d \in loop.flags[v] \cup {"E"}
        /\ loop.flags[v] # {}
    BY <1>2, <1>4 DEF Reported, Registered
  <2>2. CASE v = u
    <3>1. d \in Conditions(u) \/ d \in c
      BY <1>1, <2>1, <2>2
    <3>2. CASE d \in c
      BY <1>0, <1>1, <2>1, <2>2, <3>2, WakeTells
    <3>3. QED
      BY <2>2, <3>1, <3>2
  <2>3. CASE v # u
    <3>1. in'[v] = in[v] /\ unread'[v] = unread[v]
      BY <1>0, <2>3 DEF ClientSends, ClientEnds, ClientResets, ClientReads, TypeOK
    <3>2. (v \in eof' <=> v \in eof) /\ (v \in rst' <=> v \in rst)
      BY <2>3 DEF ClientSends, ClientEnds, ClientResets, ClientReads, client
    <3>3. QED
      BY <2>1, <3>1, <3>2 DEF Conditions
  <2>4. QED
    BY <2>2, <2>3
<1>5. QED
  BY <1>2, <1>3, <1>4, ClientTold

\* epoll_wait: whoever has something to report was on the ready list.
LEMMA EpollWaitTold ==
  ASSUME Base, Told, EpollWait
  PROVE  Told'
<1>0. TypeOK
  BY DEF Base
<1>1. /\ UNCHANGED <<st, pc, in, unread, eof, rst>>
      /\ st # "KILLED" /\ pc = "loop" /\ loop.cur = Len(loop.batch)
  BY DEF EpollWait, BatchDone, client
<1>2. /\ loop'.flags = loop.flags /\ loop'.cur = 0
      /\ DOMAIN loop'.batch = 1 .. Len(loop'.batch)
      /\ \A i \in DOMAIN loop'.batch :
           loop'.batch[i].ev = Reported(loop, loop'.batch[i].fd,
                                        Conditions(loop'.batch[i].fd))
      /\ \A v \in loop.ready : Reported(loop, v, Conditions(v)) # {} =>
           \E i \in DOMAIN loop'.batch : loop'.batch[i].fd = v
  <2>1. PICK r : r = loop' /\ r \in Batches(loop, [u \in User |-> Conditions(u)])
    BY DEF EpollWait
  <2>2. QED
    BY <1>0, <2>1, BatchesProps
<1>3. SUFFICES ASSUME NEW v \in User,
                      NEW c \in Reported(loop, v, Conditions(v))'
               PROVE  \E i \in DOMAIN loop'.batch : ToHandle(i, c)'
                        /\ loop'.batch[i].fd = v /\ c \in loop'.batch[i].ev
  BY DEF Told
<1>4. c \in Reported(loop, v, Conditions(v))
  BY <1>1, <1>2 DEF Reported, Registered, Conditions
<1>5. v \in loop.ready
  <2>1. \A i \in DOMAIN loop.batch : ~(loop.cur < i)
    BY <1>0, <1>1, TypeFacts
  <2>2. \A i \in DOMAIN loop.batch : ~ToHandle(i, c)
    BY <1>1, <2>1 DEF ToHandle
  <2>3. QED
    BY <1>1, <1>4, <2>2 DEF Told
<1>6. PICK i \in DOMAIN loop'.batch : loop'.batch[i].fd = v
  BY <1>2, <1>4, <1>5
<1>7. c \in loop'.batch[i].ev
  BY <1>2, <1>4, <1>6
<1>8. ToHandle(i, c)'
  BY <1>2, <1>6 DEF ToHandle
<1>9. QED
  BY <1>6, <1>7, <1>8

LEMMA NextTold ==
  ASSUME Base, Told, [Next]_vars, Base'
  PROVE  Told'
<1>1. CASE UNCHANGED vars
  BY <1>1 DEF vars, client, Told, ToHandle, Reported, Registered, Conditions
<1>2. CASE Handler
  <2>1. EventError \/ FailShutdown \/ FlushFails => st' = "DOWN"
    BY DEF EventError, FailShutdown, FlushFails, Shutdown
  <2>2. WriteKills \/ FlushKills => st' = "KILLED"
    BY DEF WriteKills, FlushKills, Killed
  <2>3. QED
    BY <1>2, <2>1, <2>2, DownTold, EventSkipTold, EventBeginTold, FailsTold,
       ReadSomeTold, WriteSomeTold, FailFlushTold, FlushSomeTold DEF Handler
<1>3. CASE EpollWait \/ TimesOut
  BY <1>3, EpollWaitTold, DownTold DEF TimesOut, Shutdown
<1>4. ASSUME NEW u \in User,
             \/ ClientSends(u) \/ ClientEnds(u) \/ ClientResets(u)
             \/ ClientReads(u)
      PROVE  Told'
  BY <1>4, ClientsTold
<1>5. QED
  BY <1>1, <1>2, <1>3, <1>4 DEF Next, Gone

LEMMA InitTold ==
  ASSUME Init
  PROVE  Told
<1>1. loop.ready = User
  BY DEF Init, IdleLoop
<1>2. QED
  BY <1>1 DEF Told

-----------------------------------------------------------------------------
(* The theorems about the state.                                           *)

\* The invariant holds for buffers and queues of any size, as long as there is
\* room for the responses behind what was sent early.
THEOREM Inductive == RoomForAll => (Spec => []IInv)
<1>1. RoomForAll /\ Init => IInv
  BY InitBase, InitTold DEF IInv
<1>2. IInv /\ [Next]_vars => IInv'
  BY NextBase, NextTold DEF IInv
<1>3. QED
  BY <1>1, <1>2, PTL DEF Spec

\* Types, and no byte is stored outside its buffer.
THEOREM TypeCorrect == RoomForAll => (Spec => []TypeOK)
<1>1. IInv => TypeOK
  BY DEF IInv, Base
<1>2. QED
  BY <1>1, Inductive, PTL

\* Between two handlers both users are registered for what can be done, so
\* that user_event_read never finds a full buffer and user_event_write never
\* an empty one.
THEOREM RegisteredAlways == RoomForAll => (Spec => []RegisteredRight)
<1>1. IInv => RegisteredRight
  BY DEF IInv, Base, Registration, RegisteredRight
<1>2. QED
  BY <1>1, Inductive, PTL

\* No handler is called for a user that a handler before it has destroyed.
THEOREM NeverStale == RoomForAll => (Spec => []NoStaleEntry)
<1>1. IInv => NoStaleEntry
  BY DEF IInv, Base
<1>2. QED
  BY <1>1, Inductive, PTL

\* Events are edge-triggered, and none is lost: what a user is registered for
\* and its socket offers is on epoll's ready list or in an entry of the batch
\* that is still to be handled, whenever the handlers change registrations.
THEOREM EdgesKept == RoomForAll => (Spec => []NoLostEdge)
<1>1. IInv => NoLostEdge
  <2>1. \A i, c : ToHandle(i, c) => Pending(i)
    BY DEF ToHandle, Pending
  <2>2. QED
    BY <2>1 DEF IInv, Told, NoLostEdge
<1>2. QED
  BY <1>1, Inductive, PTL

-----------------------------------------------------------------------------
(* The relay implements the pipe.                                          *)

\* What the pipe sees in each status, before and after a step.
LEMMA EstIs ==
  /\ st = "EST" => /\ Served = User
                   /\ Flow = [u \in User |-> buf[u].data \o in[u]]
  /\ st' = "EST" => /\ Served' = User
                    /\ Flow' = [u \in User |-> buf'[u].data \o in'[u]]
BY DEF Served, Flow

LEMMA CleanIs ==
  /\ st = "CLEAN" =>
       /\ Served = {Peer[flush]}
       /\ Flow = [u \in User |-> IF u # flush THEN buf[flush].data ELSE <<>>]
  /\ st' = "CLEAN" =>
       /\ Served' = {Peer[flush']}
       /\ Flow' = [u \in User |->
                     IF u # flush' THEN buf'[flush'].data ELSE <<>>]
BY DEF Served, Flow

LEMMA DownIs ==
  /\ st \notin {"EST", "CLEAN"} =>
       Served = {} /\ Flow = [u \in User |-> <<>>]
  /\ st' \notin {"EST", "CLEAN"} =>
       Served' = {} /\ Flow' = [u \in User |-> <<>>]
BY DEF Served, Flow

\* What the pipe is made of.
PipeVars == <<Served, eof \cup rst, fault, Flow, got>>

LEMMA PipeVarsIs ==
  PipeVars' = PipeVars => UNCHANGED Pipe!vars
BY DEF Pipe!vars, PipeVars

\* A step that leaves the status and what the buffers hold alone.
LEMMA PipeStutters ==
  ASSUME UNCHANGED <<st, flush, eof, rst, fault, got>>,
         UNCHANGED <<buf, in>>
  PROVE  UNCHANGED Pipe!vars
<1>1. Served' = Served /\ Flow' = Flow
  BY DEF Served, Flow
<1>2. QED
  BY <1>1, PipeVarsIs DEF PipeVars

\* Reading moves bytes from a queue to its buffer.
LEMMA ReadStutters ==
  ASSUME Base, ReadEnds \/ ReadSome
  PROVE  UNCHANGED Pipe!vars
<1> USE DEF client
<1>0. TypeOK
  BY DEF Base
<1>u. PICK u : u = Current.fd
  OBVIOUS
<1>v. u \in User /\ st = "EST"
  BY <1>u DEF ReadEnds, ReadSome, Base, Control
<1> DEFINE k == Readable(u)
           own == Stored(buf[u], Front(in[u], k))
<1>f. /\ buf' = [buf EXCEPT ![u] = own]
      /\ in' = [in EXCEPT ![u] = Rest(in[u], k)]
      /\ UNCHANGED <<st, flush, got, eof, rst, fault>>
  BY <1>u DEF ReadEnds, ReadSome
<1>k. k \in 0 .. Len(in[u]) /\ own.data = buf[u].data \o Front(in[u], k)
  BY <1>0, <1>v, ReadProps
<1>m. own.data \o Rest(in[u], k) = buf[u].data \o in[u]
  <2>1. buf[u].data \in Seq(Byte) /\ in[u] \in Seq(Byte)
    BY <1>0, <1>v, TypeFacts
  <2> HIDE DEF k, own
  <2>2. (buf[u].data \o Front(in[u], k)) \o Rest(in[u], k)
          = buf[u].data \o in[u]
    BY <1>k, <2>1, MoveProps
  <2>3. QED
    BY <1>k, <2>2
<1> HIDE DEF k, own
<1>1. \A v \in User : buf'[v].data \o in'[v] = buf[v].data \o in[v]
  BY <1>0, <1>v, <1>f, <1>m DEF TypeOK
<1>2. Flow' = Flow /\ Served' = Served
  BY <1>v, <1>f, <1>1, EstIs
<1>3. QED
  BY <1>f, <1>2, PipeVarsIs DEF PipeVars

\* A failed write moves the bytes in their buffer.
LEMMA WriteFailsStutters ==
  ASSUME Base, WriteFails
  PROVE  UNCHANGED Pipe!vars
<1> USE DEF client
<1>0. TypeOK
  BY DEF Base
<1>v. Current.fd \in User /\ st = "EST"
  BY DEF WriteFails, Base, Control
<1>p. PICK p : p = Peer[Current.fd]
  OBVIOUS
<1>q. p \in User
  BY <1>v, <1>p, PeerProps
<1>f. /\ buf' = [buf EXCEPT ![p] = RefreshedIfFull(buf[p])]
      /\ UNCHANGED <<st, flush, in, got, eof, rst, fault>>
  BY <1>p DEF WriteFails
<1>1. RefreshedIfFull(buf[p]).data = buf[p].data
  BY <1>0, <1>q, RefreshProps DEF TypeOK
<1>2. \A v \in User : buf'[v].data \o in'[v] = buf[v].data \o in[v]
  BY <1>0, <1>q, <1>f, <1>1 DEF TypeOK
<1>3. Flow' = Flow /\ Served' = Served
  BY <1>v, <1>f, <1>2, EstIs
<1>4. QED
  BY <1>f, <1>3, PipeVarsIs DEF PipeVars

\* A send that could be done only fails on a connection that was reset.
LEMMA FailsByReset ==
  ASSUME TypeOK, NEW u \in User, NEW b \in Buffer(Byte),
         BufLeft(b, Size) >= 0, BufLen(b) > 0,
         unread[u] < OutSize \/ u \in rst, SendFails(u, b) \/ SendKills(u, b)
  PROVE  u \in rst
<1>1. CASE u \notin rst
  <2>1. Writable(u, b) = 0
    BY <1>1 DEF SendFails, SendKills
  <2>2. Len(b.data) > 0 /\ unread[u] < OutSize
    BY <1>1 DEF BufLen
  <2>3. Writable(u, b) > 0
    BY <2>2, SendProps, Zenon
  <2>4. QED
    BY <2>1, <2>3
<1>2. QED
  BY <1>1

\* The session goes down after a fault.
LEMMA FaultFinishes ==
  ASSUME TypeOK, st \in {"EST", "CLEAN"}, st' \in {"DOWN", "KILLED"}, fault,
         UNCHANGED <<eof, rst, fault, got>>
  PROVE  Pipe!Finish
<1>1. Served # {}
  BY EstIs, CleanIs DEF User
<1>2. Served' = {} /\ Flow' = [u \in User |-> <<>>]
  BY DownIs
<1>3. QED
  BY <1>1, <1>2 DEF Pipe!Finish, Pipe!Down

LEMMA EventErrorFinishes ==
  ASSUME Base, EventError
  PROVE  Pipe!Finish
<1>0. TypeOK
  BY DEF Base
<1>x. PICK x : x = loop.batch[loop.cur + 1]
  OBVIOUS
<1>1. loop.cur + 1 \in DOMAIN loop.batch /\ loop.cur < loop.cur + 1
  BY <1>0, TypeFacts DEF EventError, Base, Control, BatchDone
<1>2. st \in {"EST", "CLEAN"} /\ Doable(x.fd, x.ev) /\ "E" \in x.ev
  BY <1>x, <1>1 DEF EventError, Base, NoStaleEntry, Entries
<1>3. fault
  BY <1>2 DEF Doable, Base, Ended
<1>4. st' = "DOWN" /\ UNCHANGED <<eof, rst, fault, got>>
  BY DEF EventError, Shutdown, client
<1>5. QED
  BY <1>0, <1>2, <1>3, <1>4, FaultFinishes

LEMMA KillsFinishes ==
  ASSUME Base, WriteKills \/ FlushKills
  PROVE  Pipe!Finish
<1>0. TypeOK
  BY DEF Base
<1>1. st \in {"EST", "CLEAN"}
  BY DEF WriteKills, FlushKills, Base, Control
<1>2. fault
  BY DEF WriteKills, FlushKills, SendKills, Base, Ended
<1>3. st' = "KILLED" /\ UNCHANGED <<eof, rst, fault, got>>
  BY DEF WriteKills, FlushKills, Killed, client
<1>4. QED
  BY <1>0, <1>1, <1>2, <1>3, FaultFinishes

LEMMA FlushFailsFinishes ==
  ASSUME Base, FlushFails
  PROVE  Pipe!Finish
<1>0. TypeOK
  BY DEF Base
<1>1. /\ st = "CLEAN" /\ flush \in User /\ Doable(flush, {"W"})
      /\ BufLen(buf[flush]) > 0
  BY DEF FlushFails, Base, Control, Entries, Registration
<1>2. buf[flush] \in Buffer(Byte) /\ BufLeft(buf[flush], Size) >= 0
  BY <1>0, <1>1 DEF TypeOK
<1>3. flush \in rst
  BY <1>0, <1>1, <1>2, FailsByReset DEF FlushFails, Doable
<1>4. fault
  BY <1>3 DEF Base, Ended
<1>5. st' = "DOWN" /\ UNCHANGED <<eof, rst, fault, got>>
  BY DEF FlushFails, Shutdown, client
<1>6. QED
  BY <1>0, <1>1, <1>4, <1>5, FaultFinishes

\* A user who has ended and of whom nothing is left.
LEMMA FailShutdownFinishes ==
  ASSUME Base, FailShutdown
  PROVE  Pipe!Finish
<1>0. TypeOK
  BY DEF Base
<1>u. PICK u : u = Current.fd
  OBVIOUS
<1>1. /\ u \in User /\ st = "EST" /\ u \in eof \cup rst
      /\ in[u] = <<>> \/ fault
  BY <1>u DEF FailShutdown, Base, Control, Ended
<1>2. st' = "DOWN" /\ UNCHANGED <<eof, rst, fault, got>>
  BY DEF FailShutdown, Shutdown, client
<1>3. CASE fault
  BY <1>0, <1>1, <1>2, <1>3, FaultFinishes
<1>4. CASE in[u] = <<>>
  <2>1. buf[u].data = <<>>
    <3>1. BufLen(buf[u]) = 0
      BY <1>u DEF FailShutdown
    <3>2. buf[u].data \in Seq(Byte)
      BY <1>0, <1>1, TypeFacts
    <3>3. QED
      BY <3>1, <3>2, EmptySeq DEF BufLen
  <2>2. <<>> \o <<>> = <<>>
    <3>1. <<>> \in Seq({})
      BY EmptySeq
    <3>2. QED
      BY <3>1, ConcatEmptySeq
  <2>3. Served = User /\ Flow[u] = <<>>
    BY <1>1, <1>4, <2>1, <2>2, EstIs
  <2>4. Served' = {} /\ Flow' = [v \in User |-> <<>>]
    BY <1>2, DownIs
  <2>5. QED
    BY <1>1, <1>2, <2>3, <2>4 DEF Pipe!Finish, Pipe!Down
<1>5. QED
  BY <1>1, <1>3, <1>4

LEMMA TimesOutIs ==
  ASSUME TimesOut
  PROVE  Pipe!Timeout
<1>1. Served # {}
  BY EstIs, CleanIs DEF User, TimesOut
<1>2. st' = "DOWN" /\ fault' = TRUE /\ UNCHANGED <<eof, rst, got>>
  BY DEF TimesOut, Shutdown, client
<1>3. Served' = {} /\ Flow' = [u \in User |-> <<>>]
  BY <1>2, DownIs
<1>4. QED
  BY <1>1, <1>2, <1>3 DEF Pipe!Timeout, Pipe!Down

\* What a client does.
LEMMA ClientSendsIs ==
  ASSUME Base, NEW u \in User, ClientSends(u)
  PROVE  Pipe!Send(u) \/ UNCHANGED Pipe!vars
<1>0. TypeOK
  BY DEF Base
<1>f. /\ UNCHANGED <<st, flush, buf, got, eof, rst, fault>>
      /\ st \in {"EST", "CLEAN"} /\ u \notin eof /\ u \notin rst
      /\ sent[u] < Limit
      /\ in' = [in EXCEPT ![u] = Append(in[u], <<u, sent[u] + 1>>)]
  BY DEF ClientSends, Alive
<1>1. CASE st = "CLEAN"
  <2>1. Served' = Served /\ Flow' = Flow
    BY <1>1, <1>f, CleanIs
  <2>2. QED
    BY <1>f, <2>1, PipeVarsIs DEF PipeVars
<1>2. CASE st = "EST"
  <2>1. PICK b : b = <<u, sent[u] + 1>>
    OBVIOUS
  <2>2. b \in Byte
    <3>1. sent[u] + 1 \in 0 .. Limit
      BY <1>0, <1>f, OutAssumption DEF TypeOK
    <3>2. QED
      BY <2>1, <3>1 DEF Byte
  <2>3. buf[u].data \o Append(in[u], b) = Append(buf[u].data \o in[u], b)
    <3>1. buf[u].data \in Seq(Byte) /\ in[u] \in Seq(Byte)
      BY <1>0, TypeFacts
    <3>2. PICK s, t : s = buf[u].data /\ t = in[u]
      OBVIOUS
    <3>3. s \in Seq(Byte) /\ t \in Seq(Byte)
      BY <3>1, <3>2
    <3>4. s \o Append(t, b) = Append(s \o t, b)
      BY ONLY <2>2, <3>3, AppendOfConcat
    <3>5. QED
      BY <3>2, <3>4
  <2>4. Flow' = [Flow EXCEPT ![u] = Append(Flow[u], b)]
    <3>1. \A v \in User : buf'[v].data \o in'[v]
             = IF v = u THEN Append(buf[u].data \o in[u], b)
               ELSE buf[v].data \o in[v]
      BY <1>0, <1>f, <2>1, <2>3 DEF TypeOK
    <3>2. Flow' = [v \in User |-> buf'[v].data \o in'[v]]
          /\ Flow = [v \in User |-> buf[v].data \o in[v]]
      BY <1>2, <1>f, EstIs
    <3>3. PICK c : c = Append(buf[u].data \o in[u], b)
      OBVIOUS
    <3>4. c = Append(Flow[u], b)
      BY <3>2, <3>3
    <3>5. Flow' = [v \in User |-> IF v = u THEN c ELSE buf[v].data \o in[v]]
      BY <3>1, <3>2, <3>3
    <3>6. Flow' = [Flow EXCEPT ![u] = c]
      BY <3>2, <3>5
    <3>7. QED
      BY <3>4, <3>6
  <2>5. Served = User /\ Served' = Served
    BY <1>2, <1>f, EstIs
  <2>6. QED
    BY <1>f, <2>2, <2>4, <2>5 DEF Pipe!Send
<1>3. QED
  BY <1>1, <1>2, <1>f

LEMMA ClientEndsIs ==
  ASSUME Base, NEW u \in User, ClientEnds(u)
  PROVE  Pipe!End(u)
<1>1. /\ UNCHANGED <<st, flush, buf, in, got, rst, fault>>
      /\ st \in {"EST", "CLEAN"} /\ eof' = eof \cup {u}
  BY DEF ClientEnds, Alive
<1>2. Served # {}
  BY <1>1, EstIs, CleanIs DEF User
<1>3. Served' = Served /\ Flow' = Flow
  BY <1>1 DEF Served, Flow
<1>4. QED
  BY <1>1, <1>2, <1>3 DEF Pipe!End

LEMMA ClientResetsIs ==
  ASSUME Base, NEW u \in User, ClientResets(u)
  PROVE  Pipe!Reset(u)
<1>1. /\ UNCHANGED <<st, flush, buf, in, got, eof>>
      /\ st \in {"EST", "CLEAN"} /\ rst' = rst \cup {u} /\ fault' = TRUE
  BY DEF ClientResets, Alive
<1>2. Served # {}
  BY <1>1, EstIs, CleanIs DEF User
<1>3. Served' = Served /\ Flow' = Flow
  BY <1>1 DEF Served, Flow
<1>4. QED
  BY <1>1, <1>2, <1>3 DEF Pipe!Reset

\* Sending delivers what was read first.
LEMMA WriteSomeDelivers ==
  ASSUME Base, WriteSome
  PROVE  \E p \in User : \E k \in 1 .. Len(Flow[p]) : Pipe!Deliver(p, k)
<1> USE DEF client
<1>0. TypeOK
  BY DEF Base
<1>u. PICK u : u = Current.fd
  OBVIOUS
<1>v. u \in User /\ st = "EST" /\ Doable(u, {"W"})
  BY <1>u DEF WriteSome, Base, Control, Entries
<1>p. PICK p : p = Peer[u]
  OBVIOUS
<1>q. p \in User /\ p # u /\ Peer[p] = u /\ User = {u, p}
  BY <1>v, <1>p, PeerProps
<1> DEFINE k == Writable(u, buf[p])
           d == Drained(buf[p], k)
           b == RefreshedIfFull(d)
<1>f. /\ buf' = [buf EXCEPT ![p] = b]
      /\ got' = [got EXCEPT ![u] = got[u] \o Front(buf[p].data, k)]
      /\ UNCHANGED <<st, flush, in, sent, eof, rst, fault>>
  BY <1>u, <1>p DEF WriteSome, Send
<1>t. /\ buf[p] \in Buffer(Byte) /\ BufLeft(buf[p], Size) >= 0
      /\ buf[p].data \in Seq(Byte) /\ in[p] \in Seq(Byte)
      /\ Len(buf[p].data) \in Nat
  BY <1>0, <1>q, TypeFacts DEF TypeOK
<1>k. k \in 1 .. Len(buf[p].data) /\ b.data = Rest(buf[p].data, k)
  <2>1. /\ k \in 0 .. Len(buf[p].data) /\ d \in Buffer(Byte)
        /\ BufLeft(d, Size) = BufLeft(buf[p], Size)
        /\ d.data = Rest(buf[p].data, k)
    BY <1>0, <1>v, <1>t, SendProps, Zenon
  <2>2. BufLen(buf[p]) > 0
    BY <1>v, <1>p DEF Doable
  <2>3. k # 0
    BY <1>u, <1>p, <2>2 DEF WriteSome, SendFails, SendKills, Writable
  <2> HIDE DEF k, d
  <2>4. b.data = d.data
    BY <1>t, <2>1, RefreshProps
  <2>5. QED
    BY <1>t, <2>1, <2>3, <2>4
<1> HIDE DEF k, d, b
<1>c. /\ SubSeq(buf[p].data \o in[p], 1, k) = Front(buf[p].data, k)
      /\ SubSeq(buf[p].data \o in[p], k + 1, Len(buf[p].data \o in[p]))
           = Rest(buf[p].data, k) \o in[p]
      /\ k \in 1 .. Len(buf[p].data \o in[p])
  BY <1>t, <1>k, CutOfConcat
<1>1. Flow[p] = buf[p].data \o in[p] /\ Served = User /\ Served' = User
  BY <1>v, <1>q, <1>f, EstIs
<1>2. Flow' = [Flow EXCEPT ![p] = Rest(buf[p].data, k) \o in[p]]
  <2>1. \A v \in User : buf'[v].data \o in'[v]
           = IF v = p THEN Rest(buf[p].data, k) \o in[p]
             ELSE buf[v].data \o in[v]
    BY <1>0, <1>q, <1>f, <1>k DEF TypeOK
  <2>2. PICK c : c = Rest(buf[p].data, k) \o in[p]
    OBVIOUS
  <2>3. Flow' = [v \in User |-> buf'[v].data \o in'[v]]
        /\ Flow = [v \in User |-> buf[v].data \o in[v]]
    BY <1>v, <1>f, EstIs
  <2>4. Flow' = [v \in User |-> IF v = p THEN c ELSE buf[v].data \o in[v]]
    BY <2>1, <2>2, <2>3
  <2>5. Flow' = [Flow EXCEPT ![p] = c]
    BY <2>3, <2>4
  <2>6. QED
    BY <2>2, <2>5
<1>3. Pipe!Deliver(p, k)
  BY <1>q, <1>f, <1>c, <1>1, <1>2 DEF Pipe!Deliver
<1>4. QED
  BY <1>q, <1>c, <1>1, <1>3

\* The last words are kept as they are.
LEMMA FailFlushIs ==
  ASSUME Base, FailFlush
  PROVE  \E u \in User : Pipe!LastWords(u)
<1> USE DEF client
<1>0. TypeOK
  BY DEF Base
<1>u. PICK u : u = Current.fd
  OBVIOUS
<1>v. /\ u \in User /\ st = "EST" /\ u \in eof \cup rst
      /\ in[u] = <<>> \/ fault
  BY <1>u DEF FailFlush, Base, Control, Ended
<1>p. PICK p : p = Peer[u]
  OBVIOUS
<1>q. p \in User /\ p # u /\ Peer[p] = u /\ User = {u, p}
  BY <1>v, <1>p, PeerProps
<1>f. /\ st' = "CLEAN" /\ flush' = p
      /\ buf' = [buf EXCEPT ![p] = LastBuffer(buf[u], buf[p])]
      /\ UNCHANGED <<got, eof, rst, fault>>
      /\ BufLen(buf[u]) > 0
  BY <1>u, <1>p DEF FailFlush
<1>b. buf'[p].data = buf[u].data
  <2>1. LastBuffer(buf[u], buf[p]).data = buf[u].data
    BY <1>0, <1>v, LastProps
  <2>2. QED
    BY <1>0, <1>q, <1>f, <2>1 DEF TypeOK
<1> DEFINE s == buf[u].data
           k == Len(s)
<1>t. s \in Seq(Byte) /\ in[u] \in Seq(Byte) /\ k \in 1 .. k
  <2>1. s \in Seq(Byte) /\ in[u] \in Seq(Byte) /\ k \in Nat
    BY <1>0, <1>v, TypeFacts
  <2>2. k > 0
    BY <1>f DEF BufLen
  <2> HIDE DEF k
  <2>3. QED
    BY <2>1, <2>2
<1> HIDE DEF s
<1>c. /\ SubSeq(s \o in[u], 1, k) = s /\ k \in 1 .. Len(s \o in[u])
      /\ ~fault => k = Len(s \o in[u])
  <2>1. SubSeq(s \o in[u], 1, k) = Front(s, k) /\ k \in 1 .. Len(s \o in[u])
    BY <1>t, CutOfConcat
  <2>2. Front(s, k) = s
    BY <1>t, SubSeqFull DEF Front
  <2>3. in[u] = <<>> => s \o in[u] = s
    BY <1>t, ConcatEmptySeq
  <2>4. QED
    BY <1>v, <2>1, <2>2, <2>3
<1>1. Flow[u] = s \o in[u] /\ Served = User
  BY <1>v, EstIs DEF s
<1>2. Served' = {u}
  BY <1>q, <1>f, CleanIs
<1>3. Flow' = [v \in User |-> IF v = u THEN s ELSE <<>>]
  <2>1. Flow' = [v \in User |-> IF v # p THEN s ELSE <<>>]
    BY <1>f, <1>b, CleanIs DEF s
  <2>2. QED
    BY <1>q, <2>1
<1> HIDE DEF k
<1>4. Pipe!LastWords(u)
  BY <1>v, <1>f, <1>c, <1>1, <1>2, <1>3 DEF Pipe!LastWords
<1>5. QED
  BY <1>v, <1>4

\* Flushing delivers the last words, and the session goes down with the last
\* of them.
LEMMA FlushSomeDelivers ==
  ASSUME Base, FlushSome
  PROVE  \E u \in User : \/ Pipe!DeliverAndFinish(u)
                         \/ \E k \in 1 .. Len(Flow[u]) : Pipe!Deliver(u, k)
<1> USE DEF client
<1>0. TypeOK
  BY DEF Base
<1>v. /\ flush \in User /\ st = "CLEAN" /\ BufLen(buf[flush]) > 0
  BY DEF FlushSome, Base, Control, Registration
<1>u. PICK u : u = Peer[flush]
  OBVIOUS
<1>q. u \in User /\ u # flush /\ Peer[u] = flush /\ User = {u, flush}
  BY <1>v, <1>u, PeerProps
<1> DEFINE s == buf[flush].data
           k == Writable(flush, buf[flush])
           d == Drained(buf[flush], k)
           b == Refreshed(d)
<1>f. /\ got' = [got EXCEPT ![flush] = got[flush] \o Front(s, k)]
      /\ IF BufLen(b) > 0
         THEN /\ buf' = [buf EXCEPT ![flush] = b]
              /\ UNCHANGED <<st, flush>>
         ELSE st' = "DOWN"
      /\ UNCHANGED <<eof, rst, fault>>
  BY DEF FlushSome, Send, Shutdown
<1>t. /\ buf[flush] \in Buffer(Byte) /\ BufLeft(buf[flush], Size) >= 0
      /\ s \in Seq(Byte) /\ Len(s) \in Nat
  BY <1>0, <1>v, TypeFacts DEF TypeOK
<1>k. /\ k \in 1 .. Len(s) /\ b.data = Rest(s, k)
      /\ BufLen(b) = Len(s) - k
  <2>1. /\ k \in 0 .. Len(s) /\ d \in Buffer(Byte) /\ d.data = Rest(s, k)
        /\ Len(d.data) = Len(s) - k
    BY <1>0, <1>v, <1>t, SendProps, Zenon
  <2>2. k # 0
    BY <1>v DEF FlushSome, SendFails, SendKills, Writable
  <2> HIDE DEF k, d, s
  <2>3. b.data = d.data
    BY <2>1 DEF Refreshed, Buffer
  <2>4. QED
    BY <1>t, <2>1, <2>2, <2>3 DEF BufLen
<1>1. Served = {u} /\ Flow[u] = s
      /\ Flow = [v \in User |-> IF v = u THEN s ELSE <<>>]
  <2>1. Flow = [v \in User |-> IF v # flush THEN s ELSE <<>>]
        /\ Served = {u}
    BY <1>v, <1>u, CleanIs
  <2> HIDE DEF s
  <2>2. QED
    BY <1>q, <2>1
<1> HIDE DEF s, k, d, b
<1>2. CASE BufLen(b) > 0
  <2>1. buf'[flush] = b
    BY <1>0, <1>v, <1>f, <1>2 DEF TypeOK
  <2>2. Served' = {u}
        /\ Flow' = [v \in User |-> IF v # flush THEN Rest(s, k) ELSE <<>>]
    BY <1>v, <1>u, <1>f, <1>k, <1>2, <2>1, CleanIs
  <2>3. Flow' = [Flow EXCEPT ![u] = Rest(s, k)]
    BY <1>q, <1>1, <2>2
  <2>4. Pipe!Deliver(u, k)
    BY <1>q, <1>f, <1>k, <1>1, <2>2, <2>3 DEF Pipe!Deliver, Front, Rest
  <2>5. QED
    BY <1>q, <1>k, <1>1, <2>4
<1>3. CASE ~(BufLen(b) > 0)
  <2>1. k = Len(s)
    BY <1>t, <1>k, <1>3
  <2>2. Front(s, k) = s
    BY <1>t, <2>1, SubSeqFull DEF Front
  <2>3. Served' = {} /\ Flow' = [v \in User |-> <<>>]
    BY <1>f, <1>3, DownIs
  <2>4. Pipe!DeliverAndFinish(u)
    BY <1>q, <1>f, <1>1, <2>2, <2>3 DEF Pipe!DeliverAndFinish, Pipe!Down
  <2>5. QED
    BY <1>q, <2>4
<1>4. QED
  BY <1>2, <1>3

\* The relay starts as a pipe with what was sent early.
LEMMA PipeInit ==
  ASSUME Base, Init
  PROVE  Pipe!Init
<1>1. Served = User /\ Flow = [u \in User |-> buf[u].data \o in[u]]
  BY EstIs DEF Init
<1>2. ASSUME NEW u \in User PROVE buf[u].data \o in[u] \in Seq(Byte)
  <2>1. buf[u].data \in Seq(Byte) /\ in[u] \in Seq(Byte)
    BY TypeFacts DEF Base
  <2>2. QED
    BY <2>1, ConcatProperties
<1>3. Flow \in [User -> Seq(Byte)]
  BY <1>1, <1>2
<1>4. QED
  BY <1>1, <1>3 DEF Init, Pipe!Init

\* Every step of the relay is a step of the pipe, or none.
LEMMA PipeStep ==
  ASSUME Base, [Next]_vars
  PROVE  [Pipe!Next]_(Pipe!vars)
<1> USE DEF client
<1>1. CASE UNCHANGED vars \/ Gone
  BY <1>1, PipeStutters DEF vars, Gone
<1>2. CASE EpollWait \/ EventSkip \/ EventBegin
  BY <1>2, PipeStutters DEF EpollWait, EventSkip, EventBegin
<1>3. CASE ReadEnds \/ ReadSome \/ WriteFails
  BY <1>3, ReadStutters, WriteFailsStutters
<1>4. CASE \/ EventError \/ WriteKills \/ FlushKills \/ FlushFails
           \/ FailShutdown
  <2>1. Pipe!Finish
    BY <1>4, EventErrorFinishes, KillsFinishes, FlushFailsFinishes,
       FailShutdownFinishes
  <2>2. QED
    BY <2>1 DEF Pipe!Next
<1>5. CASE WriteSome \/ FlushSome
  <2>1. \E u \in User : \/ Pipe!DeliverAndFinish(u)
                        \/ \E k \in 1 .. Len(Flow[u]) : Pipe!Deliver(u, k)
    BY <1>5, WriteSomeDelivers, FlushSomeDelivers
  <2>2. QED
    BY <2>1 DEF Pipe!Next
<1>6. CASE FailFlush
  BY <1>6, FailFlushIs DEF Pipe!Next
<1>7. CASE TimesOut
  BY <1>7, TimesOutIs DEF Pipe!Next
<1>8. ASSUME NEW u \in User, ClientReads(u)
      PROVE  UNCHANGED Pipe!vars
  BY <1>8, PipeStutters DEF ClientReads
<1>9. ASSUME NEW u \in User,
             ClientSends(u) \/ ClientEnds(u) \/ ClientResets(u)
      PROVE  [Pipe!Next]_(Pipe!vars)
  BY <1>9, ClientSendsIs, ClientEndsIs, ClientResetsIs DEF Pipe!Next
<1>10. QED
  BY <1>1, <1>2, <1>3, <1>4, <1>5, <1>6, <1>7, <1>8, <1>9 DEF Next, Handler

\* For buffers and queues of any size and any number of bytes: what a user
\* sends is delivered once and in order, and when a side ends, what it sent
\* last is delivered before the session goes down, unless a connection was
\* reset or a timeout fired.
THEOREM RelayIsPipe == RoomForAll => (Spec => IsPipe)
<1>1. Base /\ Init => Pipe!Init
  BY PipeInit
<1>2. Base /\ [Next]_vars => [Pipe!Next]_(Pipe!vars)
  BY PipeStep
<1>3. IInv => Base
  BY DEF IInv
<1>4. QED
  BY <1>1, <1>2, <1>3, Inductive, PTL DEF Spec, IsPipe, Pipe!Spec

=============================================================================
