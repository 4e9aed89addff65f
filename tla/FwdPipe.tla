------------------------------ MODULE FwdPipe -------------------------------
(***************************************************************************)
(* What the relay of a session promises to its two users: a pipe in each   *)
(* direction that delivers what a user sends, once and in order, until one *)
(* of them ends.  What that user has sent is then still delivered, unless  *)
(* a connection was reset or a timeout fired; what was on its way to it is *)
(* dropped.                                                                *)
(***************************************************************************)
EXTENDS Naturals, Sequences

CONSTANTS User,   \* the two users
          Peer,   \* the peer of each
          Byte    \* what they send

VARIABLES
  served,  \* the users whose words are delivered: both, one who has ended
           \* and says its last words, or none when the session is down
  gone,    \* the users who have ended or whose connection was reset
  fault,   \* a connection was reset, or a timeout fired
  flow,    \* what each user has sent and its peer has not been given yet
  got      \* what each user has been given

vars == <<served, gone, fault, flow, got>>

Init ==
  /\ served = User /\ gone = {} /\ fault = FALSE
  /\ flow \in [User -> Seq(Byte)]
  /\ got = [u \in User |-> <<>>]

Send(u) ==
  /\ u \in served \ gone
  /\ \E b \in Byte : flow' = [flow EXCEPT ![u] = Append(@, b)]
  /\ UNCHANGED <<served, gone, fault, got>>

End(u) ==
  /\ served # {} /\ gone' = gone \cup {u}
  /\ UNCHANGED <<served, fault, flow, got>>

Reset(u) ==
  /\ served # {} /\ gone' = gone \cup {u} /\ fault' = TRUE
  /\ UNCHANGED <<served, flow, got>>

\* The first k bytes that u has sent go to its peer.
Deliver(u, k) ==
  /\ u \in served /\ k \in 1 .. Len(flow[u])
  /\ got' = [got EXCEPT ![Peer[u]] = @ \o SubSeq(flow[u], 1, k)]
  /\ flow' = [flow EXCEPT ![u] = SubSeq(@, k + 1, Len(@))]
  /\ UNCHANGED <<served, gone, fault>>

\* Only u, who has ended, is still served.  A reset may lose the end of its
\* words.
LastWords(u) ==
  /\ served = User /\ u \in gone /\ served' = {u}
  /\ \E k \in 1 .. Len(flow[u]) :
       /\ ~fault => k = Len(flow[u])
       /\ flow' = [v \in User |->
                     IF v = u THEN SubSeq(flow[u], 1, k) ELSE <<>>]
  /\ UNCHANGED <<gone, fault, got>>

\* The session goes down.
Down == served # {} /\ served' = {} /\ flow' = [u \in User |-> <<>>]

\* Nothing is left to deliver of a user who has ended, or there was a fault.
Finish ==
  /\ fault \/ \E u \in served \cap gone : flow[u] = <<>>
  /\ Down
  /\ UNCHANGED <<gone, fault, got>>

\* The last bytes and the end in one step.
DeliverAndFinish(u) ==
  /\ served = {u} /\ Down
  /\ got' = [got EXCEPT ![Peer[u]] = @ \o flow[u]]
  /\ UNCHANGED <<gone, fault>>

Timeout == Down /\ fault' = TRUE /\ UNCHANGED <<gone, got>>

Next ==
  \/ \E u \in User : \/ Send(u) \/ End(u) \/ Reset(u) \/ LastWords(u)
                     \/ DeliverAndFinish(u)
                     \/ \E k \in 1 .. Len(flow[u]) : Deliver(u, k)
  \/ Finish \/ Timeout

Spec == Init /\ [][Next]_vars

=============================================================================
