-------------------------- MODULE FwdSessionProofs --------------------------
(***************************************************************************)
(* Proofs about FwdSession: its safety invariants hold for any number of   *)
(* connections, tickets and child threads, without Overlap.                *)
(*                                                                         *)
(* Every action has a lemma.  Its first steps (<1>a, <1>b, ...) say what   *)
(* the action does to the fields of the records it changes; then there is  *)
(* one step for each conjunct of IInv.                                     *)
(***************************************************************************)
EXTENDS FwdSession, TLAPS

-----------------------------------------------------------------------------
(* Records.                                                                *)

\* The fields of users, sessions and of the progress of threads.
LEMMA Fields ==
  ASSUME TypeOK
  PROVE  /\ \A u \in User :
              /\ user[u] \in UserRecord
              /\ user[u].st \in UserStatus
              /\ user[u].sess \in Ticket \cup {None}
              /\ user[u].peer \in User \cup {None}
              /\ user[u].evt \in Thread \cup {None}
              /\ user[u].tmr \in Thread \cup {None}
         /\ \A t \in Ticket :
              /\ sess[t] \in SessRecord
              /\ sess[t].st \in SessStatus
              /\ sess[t].user1 \in User \cup {None}
              /\ sess[t].user2 \in User \cup {None}
              /\ sess[t].base \in Child \cup {None}
              /\ sess[t].tmr \in Thread \cup {None}
         /\ \A th \in Thread : shut[th].sess \in Ticket \cup {None}
         /\ down \subseteq Ticket /\ wait \subseteq Ticket
         /\ served \subseteq Ticket /\ ready \subseteq User
  BY DEF TypeOK, UserRecord, SessRecord

\* The loop that a user's cancel functions address.
LEMMA OwnerThread ==
  ASSUME TypeOK, NEW x \in UserRecord
  PROVE  Owner(x) \in Thread
  BY Fields DEF Owner, UserRecord, Thread

\* What the helpers do to a user.
LEMMA EventSetFields ==
  ASSUME TypeOK, NEW x \in UserRecord
  PROVE  LET y == EventSet(x) IN
         /\ y \in UserRecord
         /\ y.st = x.st /\ y.sess = x.sess /\ y.peer = x.peer /\ y.tmr = x.tmr
         /\ x.evt # None => y.evt = x.evt
         /\ x.evt = None => y.evt = IF x.st \in {"CLEAN", "EST"} THEN Owner(x)
                                                               ELSE Main
<1>1. Owner(x) \in Thread
  BY OwnerThread
<1>2. QED
  BY <1>1 DEF EventSet, UserRecord, Thread

LEMMA TimeoutSetFields ==
  ASSUME TypeOK, NEW x \in UserRecord
  PROVE  LET y == TimeoutSet(x) IN
         /\ y \in UserRecord
         /\ y.st = x.st /\ y.sess = x.sess /\ y.peer = x.peer /\ y.evt = x.evt
         /\ y.tmr = IF x.st \in {"CLEAN", "EST"} THEN Owner(x) ELSE Main
<1>1. Owner(x) \in Thread
  BY OwnerThread
<1>2. QED
  BY <1>1 DEF TimeoutSet, UserRecord, Thread

LEMMA CancelFields ==
  ASSUME TypeOK, NEW x \in UserRecord
  PROVE  LET y == Cancel(x) IN
         /\ y \in UserRecord
         /\ y.st = x.st /\ y.sess = x.sess /\ y.peer = x.peer /\ y.tmr = None
         /\ x.evt \in {None, Owner(x)} => y.evt = None
  BY DEF Cancel, UserRecord

\* A status or an event is edited.
LEMMA UserEdits ==
  ASSUME NEW x \in UserRecord, NEW a \in UserStatus
  PROVE  LET y == [x EXCEPT !.st = a] IN
         /\ y \in UserRecord /\ y.st = a
         /\ y.sess = x.sess /\ y.peer = x.peer /\ y.evt = x.evt /\ y.tmr = x.tmr
         /\ Owner(y) = Owner(x)
  BY DEF UserRecord, Owner

LEMMA EventEdits ==
  ASSUME NEW x \in UserRecord, NEW e \in Thread \cup {None}
  PROVE  LET y == [x EXCEPT !.evt = e] IN
         /\ y \in UserRecord /\ y.evt = e
         /\ y.sess = x.sess /\ y.peer = x.peer /\ y.st = x.st /\ y.tmr = x.tmr
         /\ Owner(y) = Owner(x)
  BY DEF UserRecord, Owner

LEMMA ToCleanFields ==
  ASSUME TypeOK, NEW x \in UserRecord
  PROVE  LET y == ToClean(x) IN
         /\ y \in UserRecord
         /\ y.st = "CLEAN" /\ y.sess = x.sess /\ y.peer = x.peer
         /\ y.evt = IF x.evt # None THEN x.evt ELSE Owner(x)
         /\ y.tmr = Owner(x)
<1> DEFINE x1 == [x EXCEPT !.st = "CLEAN"]
<1>1. /\ x1 \in UserRecord /\ x1.st = "CLEAN" /\ x1.sess = x.sess
      /\ x1.peer = x.peer /\ x1.evt = x.evt /\ Owner(x1) = Owner(x)
  BY UserEdits DEF UserStatus
<1> HIDE DEF x1
<1> DEFINE x2 == EventSet(x1)
<1>2. /\ x2 \in UserRecord /\ x2.st = "CLEAN" /\ x2.sess = x.sess
      /\ x2.peer = x.peer
      /\ x2.evt = IF x.evt # None THEN x.evt ELSE Owner(x)
  BY <1>1, EventSetFields
<1>3. Owner(x2) = Owner(x)
  BY <1>2 DEF Owner
<1> HIDE DEF x2
<1>4. ToClean(x) = TimeoutSet(x2)
  BY DEF ToClean, x1, x2
<1>5. QED
  BY <1>2, <1>3, <1>4, TimeoutSetFields

\* fwd_user_destroy: the slot is free, and a peer has none any more.
LEMMA DestroyFields ==
  ASSUME TypeOK, NEW u \in User, DestroyUser(u)
  PROVE  /\ user' \in [User -> UserRecord]
         /\ user'[u] = NoUser
         /\ user'[u].st = "FREE" /\ user'[u].sess = None
         /\ user'[u].peer = None /\ user'[u].evt = None /\ user'[u].tmr = None
         /\ \A v \in User \ {u} :
              /\ user'[v].st = user[v].st /\ user'[v].sess = user[v].sess
              /\ user'[v].evt = user[v].evt /\ user'[v].tmr = user[v].tmr
              /\ user'[v].peer = IF v = user[u].peer THEN None ELSE user[v].peer
<1>0. NoUser \in UserRecord
  BY DEF NoUser, UserRecord, UserStatus
<1>1. ASSUME NEW v \in User \ {u}
      PROVE  /\ user'[v] \in UserRecord
             /\ user'[v].st = user[v].st /\ user'[v].sess = user[v].sess
             /\ user'[v].evt = user[v].evt /\ user'[v].tmr = user[v].tmr
             /\ user'[v].peer = IF v = user[u].peer THEN None ELSE user[v].peer
  <2>1. user[v] \in UserRecord
    BY Fields
  <2>2. user'[v] = IF v = user[u].peer THEN [user[v] EXCEPT !.peer = None]
                                       ELSE user[v]
    BY DEF DestroyUser
  <2>3. QED
    BY <2>1, <2>2 DEF UserRecord
<1>2. user'[u] = NoUser
  BY DEF DestroyUser
<1>3. user' \in [User -> UserRecord]
  BY <1>0, <1>1, <1>2 DEF DestroyUser
<1>4. QED
  BY <1>1, <1>2, <1>3 DEF NoUser


\* main_event_cb.
LEMMA DrainStep ==
  ASSUME IInv, Drain
  PROVE  IInv'
<1> USE NoneAssumption, MainAssumption DEF IInv, Thread
<1>a. /\ phase = "drain" /\ phase' = "timeouts" /\ bind.at = "none"
      /\ down' = {} /\ UNCHANGED <<user, wait, served, ready, bind, shut>>
  BY DEF Drain, Idle
<1>b. ASSUME NEW t \in Ticket
      PROVE  /\ sess'[t] \in SessRecord
             /\ sess'[t].user1 = sess[t].user1
             /\ sess'[t].user2 = sess[t].user2
             /\ sess'[t].base = sess[t].base
             /\ t \notin down => sess'[t] = sess[t]
             /\ t \in down => sess'[t].st = "INITED" /\ sess'[t].tmr = Main
  <2>1. sess[t] \in SessRecord
    BY Fields
  <2>2. sess'[t] = IF t \in down
                   THEN [sess[t] EXCEPT !.st = "INITED", !.tmr = Main]
                   ELSE sess[t]
    BY DEF Drain
  <2>3. QED
    BY <2>1, <2>2 DEF SessRecord, SessStatus
<1>c. sess' \in [Ticket -> SessRecord]
  BY <1>b DEF Drain
<1>1. TypeOK'
  BY <1>a, <1>c DEF TypeOK
<1>2. LinkInv'
  BY <1>a, <1>b, <1>c, Fields
     DEF LinkInv, DownInv
<1>3. BindInv'
  BY <1>a, <1>b, <1>c, Fields
     DEF BindInv, BeingShut
<1>4. ShutInv'
  BY <1>a, <1>b, <1>c, Fields
     DEF ShutInv
<1>5. QueueInv'
  BY <1>a, <1>b, <1>c, Fields
     DEF QueueInv
<1>6. WaitInv'
  BY <1>a, <1>b, <1>c, Fields
     DEF WaitInv, DownInv, QueueInv
<1>7. DownInv'
  BY <1>a, <1>b, <1>c, Fields
     DEF DownInv
<1>8. LinkedBack'
  BY <1>a, <1>b, <1>c, Fields
     DEF LinkedBack
<1>9. PeersAgree'
  BY <1>a, <1>b, <1>c, Fields
     DEF PeersAgree
<1>10. ServedComplete'
  BY <1>a, <1>b, <1>c, Fields
     DEF ServedComplete, BeingShut
<1>11. OwnLoop'
  BY <1>a, <1>b, <1>c, Fields
     DEF OwnLoop, Owner, DownInv
<1>12. TimersFit'
  BY <1>a, <1>b, <1>c, Fields
     DEF TimersFit
<1>13. QED
  BY <1>1, <1>2, <1>3, <1>4, <1>5, <1>6, <1>7, <1>8, <1>9, <1>10, <1>11, <1>12

\* fwd_event_run goes on.
LEMMA EpollWaitStep ==
  ASSUME IInv, EpollWait
  PROVE  IInv'
<1> USE NoneAssumption, MainAssumption DEF IInv, Thread
<1>a. /\ phase = "timeouts" /\ phase' = "events" /\ ready' \subseteq User
      /\ bind.at = "none"
      /\ UNCHANGED <<user, sess, down, wait, served, bind, shut>>
  BY DEF EpollWait, Idle
<1>1. TypeOK'
  BY <1>a DEF TypeOK
<1>2. LinkInv'
  BY <1>a, Fields
     DEF LinkInv
<1>3. BindInv'
  BY <1>a, Fields
     DEF BindInv, BeingShut
<1>4. ShutInv'
  BY <1>a, Fields
     DEF ShutInv
<1>5. QueueInv'
  BY <1>a, Fields
     DEF QueueInv
<1>6. WaitInv'
  BY <1>a, Fields
     DEF WaitInv
<1>7. DownInv'
  BY <1>a, Fields
     DEF DownInv
<1>8. LinkedBack'
  BY <1>a, Fields
     DEF LinkedBack
<1>9. PeersAgree'
  BY <1>a, Fields
     DEF PeersAgree
<1>10. ServedComplete'
  BY <1>a, Fields
     DEF ServedComplete, BeingShut
<1>11. OwnLoop'
  BY <1>a, Fields
     DEF OwnLoop, Owner
<1>12. TimersFit'
  BY <1>a, Fields
     DEF TimersFit
<1>13. QED
  BY <1>1, <1>2, <1>3, <1>4, <1>5, <1>6, <1>7, <1>8, <1>9, <1>10, <1>11, <1>12

\* fwd_event_run goes on.
LEMMA EventsHandledStep ==
  ASSUME IInv, EventsHandled
  PROVE  IInv'
<1> USE NoneAssumption, MainAssumption DEF IInv, Thread
<1>a. /\ phase = "events" /\ phase' = "drain" /\ ready = {} /\ ready' = {}
      /\ bind.at = "none"
      /\ UNCHANGED <<user, sess, down, wait, served, bind, shut>>
  BY DEF EventsHandled, Idle
<1>1. TypeOK'
  BY <1>a DEF TypeOK
<1>2. LinkInv'
  BY <1>a, Fields
     DEF LinkInv
<1>3. BindInv'
  BY <1>a, Fields
     DEF BindInv, BeingShut
<1>4. ShutInv'
  BY <1>a, Fields
     DEF ShutInv
<1>5. QueueInv'
  BY <1>a, Fields
     DEF QueueInv
<1>6. WaitInv'
  BY <1>a, Fields
     DEF WaitInv
<1>7. DownInv'
  BY <1>a, Fields
     DEF DownInv
<1>8. LinkedBack'
  BY <1>a, Fields
     DEF LinkedBack
<1>9. PeersAgree'
  BY <1>a, Fields
     DEF PeersAgree
<1>10. ServedComplete'
  BY <1>a, Fields
     DEF ServedComplete, BeingShut
<1>11. OwnLoop'
  BY <1>a, Fields
     DEF OwnLoop, Owner
<1>12. TimersFit'
  BY <1>a, Fields
     DEF TimersFit
<1>13. QED
  BY <1>1, <1>2, <1>3, <1>4, <1>5, <1>6, <1>7, <1>8, <1>9, <1>10, <1>11, <1>12

\* fwd_main_ticket_in.
LEMMA TicketInStep ==
  ASSUME IInv, NEW t \in Ticket, TicketIn(t)
  PROVE  IInv'
<1> USE NoneAssumption, MainAssumption DEF IInv, Thread
<1>a. /\ phase = "events" /\ bind.at = "none" /\ sess[t].st = "NONE"
      /\ UNCHANGED <<user, down, wait, served, phase, ready, bind, shut>>
  BY DEF TicketIn, Idle
<1>b. /\ sess' \in [Ticket -> SessRecord]
      /\ \A k \in Ticket \ {t} : sess'[k] = sess[k]
      /\ sess'[t].st = "INITED" /\ sess'[t].tmr = Main
      /\ sess'[t].user1 = sess[t].user1 /\ sess'[t].user2 = sess[t].user2
      /\ sess'[t].base = sess[t].base
  <2>1. sess[t] \in SessRecord
    BY Fields
  <2>2. sess' = [sess EXCEPT ![t] = [sess[t] EXCEPT !.st = "INITED", !.tmr = Main]]
    BY Fields DEF TicketIn
  <2>3. [sess[t] EXCEPT !.st = "INITED", !.tmr = Main] \in SessRecord
    BY <2>1 DEF SessRecord, SessStatus
  <2>4. QED
    BY <2>1, <2>2, <2>3, Fields DEF TypeOK, SessRecord
<1>1. TypeOK'
  BY <1>a, <1>b DEF TypeOK
<1>2. LinkInv'
  BY <1>a, <1>b, Fields
     DEF LinkInv
<1>3. BindInv'
  BY <1>a, <1>b, Fields
     DEF BindInv, BeingShut
<1>4. ShutInv'
  BY <1>a, <1>b, Fields
     DEF ShutInv
<1>5. QueueInv'
  BY <1>a, <1>b, Fields
     DEF QueueInv
<1>6. WaitInv'
  BY <1>a, <1>b, Fields
     DEF WaitInv, LinkInv, QueueInv
<1>7. DownInv'
  BY <1>a, <1>b, Fields
     DEF DownInv
<1>8. LinkedBack'
  BY <1>a, <1>b, Fields
     DEF LinkedBack
<1>9. PeersAgree'
  BY <1>a, <1>b, Fields
     DEF PeersAgree
<1>10. ServedComplete'
  BY <1>a, <1>b, Fields
     DEF ServedComplete, BeingShut
<1>11. OwnLoop'
  BY <1>a, <1>b, Fields
     DEF OwnLoop, Owner, LinkInv
<1>12. TimersFit'
  BY <1>a, <1>b, Fields
     DEF TimersFit
<1>13. QED
  BY <1>1, <1>2, <1>3, <1>4, <1>5, <1>6, <1>7, <1>8, <1>9, <1>10, <1>11, <1>12

\* fwd_main_user_in.
LEMMA AcceptStep ==
  ASSUME IInv, NEW u \in User, Accept(u)
  PROVE  IInv'
<1> USE NoneAssumption, MainAssumption DEF IInv, Thread
<1>a. /\ user[u].st = "FREE" /\ bind.at = "none"
      /\ UNCHANGED <<sess, down, wait, served, phase, ready, bind, shut>>
  BY DEF Accept, Idle
<1>b. /\ user' \in [User -> UserRecord]
      /\ \A v \in User \ {u} : user'[v] = user[v]
      /\ user'[u].st = "ACCEPTED" /\ user'[u].evt = Main
      /\ user'[u].tmr = Main /\ user'[u].sess = user[u].sess
      /\ user'[u].peer = user[u].peer
  <2>1. user[u] \in UserRecord
    BY Fields
  <2>2. user' = [user EXCEPT ![u] = [user[u] EXCEPT !.st = "ACCEPTED", !.evt = Main, !.tmr = Main]]
    BY Fields DEF Accept
  <2>3. [user[u] EXCEPT !.st = "ACCEPTED", !.evt = Main, !.tmr = Main] \in UserRecord
    BY <2>1 DEF UserRecord, UserStatus
  <2>4. QED
    BY <2>1, <2>2, <2>3, Fields DEF TypeOK, UserRecord
<1>1. TypeOK'
  BY <1>a, <1>b DEF TypeOK
<1>2. LinkInv'
  BY <1>a, <1>b, Fields
     DEF LinkInv
<1>3. BindInv'
  BY <1>a, <1>b, Fields
     DEF BindInv, BeingShut
<1>4. ShutInv'
  BY <1>a, <1>b, Fields
     DEF ShutInv
<1>5. QueueInv'
  BY <1>a, <1>b, Fields
     DEF QueueInv
<1>6. WaitInv'
  BY <1>a, <1>b, Fields
     DEF WaitInv, LinkInv
<1>7. DownInv'
  BY <1>a, <1>b, Fields
     DEF DownInv
<1>8. LinkedBack'
  BY <1>a, <1>b, Fields
     DEF LinkedBack
<1>9. PeersAgree'
  BY <1>a, <1>b, Fields
     DEF PeersAgree
<1>10. ServedComplete'
  BY <1>a, <1>b, Fields
     DEF ServedComplete, BeingShut
<1>11. OwnLoop'
  BY <1>a, <1>b, Fields
     DEF OwnLoop, Owner, LinkInv
<1>12. TimersFit'
  BY <1>a, <1>b, Fields
     DEF TimersFit
<1>13. QED
  BY <1>1, <1>2, <1>3, <1>4, <1>5, <1>6, <1>7, <1>8, <1>9, <1>10, <1>11, <1>12

\* An event that changes nothing.
LEMMA EventNothingStep ==
  ASSUME IInv, NEW u \in User, EventNothing(u)
  PROVE  IInv'
<1> USE NoneAssumption, MainAssumption DEF IInv, Thread
<1>a. /\ ready' = ready \ {u}
      /\ UNCHANGED <<user, sess, down, wait, served, phase, bind, shut>>
  BY DEF EventNothing, Handled
<1>1. TypeOK'
  BY <1>a DEF TypeOK
<1>2. LinkInv'
  BY <1>a, Fields
     DEF LinkInv
<1>3. BindInv'
  BY <1>a, Fields
     DEF BindInv, BeingShut
<1>4. ShutInv'
  BY <1>a, Fields
     DEF ShutInv
<1>5. QueueInv'
  BY <1>a, Fields
     DEF QueueInv
<1>6. WaitInv'
  BY <1>a, Fields
     DEF WaitInv
<1>7. DownInv'
  BY <1>a, Fields
     DEF DownInv
<1>8. LinkedBack'
  BY <1>a, Fields
     DEF LinkedBack
<1>9. PeersAgree'
  BY <1>a, Fields
     DEF PeersAgree
<1>10. ServedComplete'
  BY <1>a, Fields
     DEF ServedComplete, BeingShut
<1>11. OwnLoop'
  BY <1>a, Fields
     DEF OwnLoop, Owner
<1>12. TimersFit'
  BY <1>a, Fields
     DEF TimersFit
<1>13. QED
  BY <1>1, <1>2, <1>3, <1>4, <1>5, <1>6, <1>7, <1>8, <1>9, <1>10, <1>11, <1>12

\* A user that is not waiting for a child goes to CLEAN: its session and peer
\* are the same, its event and its timer stay in the loop that owns it.
LEMMA CleanUserStep ==
  ASSUME IInv, NEW u \in User, user' \in [User -> UserRecord],
         \A v \in User \ {u} : user'[v] = user[v], user'[u].st = "CLEAN",
         user'[u].sess = user[u].sess, user'[u].peer = user[u].peer,
         user'[u].evt \in {None, Owner(user[u])},
         user'[u].tmr \in {None, Owner(user[u])}, user[u].st # "FREE",
         user[u].sess \notin wait, bind.at = "none" \/ bind.user # u,
         ready' \subseteq ready,
         UNCHANGED <<sess, down, wait, served, phase, bind, shut>>
  PROVE  IInv'
<1> USE NoneAssumption, MainAssumption DEF IInv, Thread
<1>1. TypeOK'
  BY DEF TypeOK
<1>2. LinkInv'
  BY Fields
     DEF LinkInv
<1>3. BindInv'
  BY Fields
     DEF BindInv, BeingShut
<1>4. ShutInv'
  BY Fields
     DEF ShutInv
<1>5. QueueInv'
  BY Fields
     DEF QueueInv
<1>6. WaitInv'
  BY Fields
     DEF WaitInv
<1>7. DownInv'
  BY Fields
     DEF DownInv
<1>8. LinkedBack'
  BY Fields
     DEF LinkedBack
<1>9. PeersAgree'
  BY Fields
     DEF PeersAgree
<1>10. ServedComplete'
  BY Fields
     DEF ServedComplete, BeingShut
<1>11. OwnLoop'
  BY Fields
     DEF OwnLoop, Owner
<1>12. TimersFit'
  BY Fields
     DEF TimersFit
<1>13. QED
  BY <1>1, <1>2, <1>3, <1>4, <1>5, <1>6, <1>7, <1>8, <1>9, <1>10, <1>11, <1>12

\* user_event_accepted without a valid register message.
LEMMA AcceptedEndsStep ==
  ASSUME IInv, NEW u \in User, AcceptedEnds(u)
  PROVE  IInv'
<1> USE NoneAssumption, MainAssumption DEF IInv, Thread
<1>1. /\ user[u].evt = Main /\ user[u].st = "ACCEPTED"
      /\ bind.at = "none" /\ ready' \subseteq ready
      /\ UNCHANGED <<sess, down, wait, served, phase, bind, shut>>
  BY DEF AcceptedEnds, InEvents, Idle, Handled
<1>2. PICK x \in {ToClean(user[u]), [ToClean(user[u]) EXCEPT !.evt = None]} :
        user' = [user EXCEPT ![u] = x]
  BY DEF AcceptedEnds
<1>3. user[u].sess \notin wait
  BY <1>1, Fields DEF WaitInv
<1>4. ToClean(user[u]) \in UserRecord
  BY ToCleanFields, Fields
<1>5. /\ user' \in [User -> UserRecord]
      /\ \A v \in User \ {u} : user'[v] = user[v]
      /\ user'[u].st = ToClean(user[u]).st
      /\ user'[u].sess = ToClean(user[u]).sess
      /\ user'[u].peer = ToClean(user[u]).peer
      /\ user'[u].tmr = ToClean(user[u]).tmr
      /\ user'[u].evt \in {None, ToClean(user[u]).evt}
  BY <1>2, <1>4 DEF TypeOK, UserRecord
<1>6. /\ user[u] \in UserRecord
      /\ user[u].evt \in {None, Owner(user[u])}
  BY Fields DEF OwnLoop
<1>7. /\ user'[u].st = "CLEAN" /\ user'[u].sess = user[u].sess
      /\ user'[u].peer = user[u].peer
      /\ user'[u].evt \in {None, Owner(user[u])}
      /\ user'[u].tmr \in {None, Owner(user[u])}
  BY <1>5, <1>6, ToCleanFields
<1>8. QED
  BY <1>1, <1>3, <1>5, <1>7, CleanUserStep

\* The same when the new record is that of ToClean.
LEMMA ToCleanStep ==
  ASSUME IInv, NEW u \in User, user' = [user EXCEPT ![u] = ToClean(user[u])],
         user[u].st # "FREE", user[u].evt # None \/ user[u].tmr # None,
         bind.at = "none" \/ bind.user # u, ready' \subseteq ready,
         UNCHANGED <<sess, down, wait, served, phase, bind, shut>>
  PROVE  IInv'
<1> USE NoneAssumption, MainAssumption DEF IInv, Thread
<1>1. user[u].sess \notin wait
  BY Fields DEF WaitInv
<1>2. /\ user[u] \in UserRecord
      /\ user[u].evt \in {None, Owner(user[u])}
  BY Fields DEF OwnLoop
<1>3. /\ ToClean(user[u]) \in UserRecord
      /\ user'[u] = ToClean(user[u])
      /\ user' \in [User -> UserRecord]
      /\ \A v \in User \ {u} : user'[v] = user[v]
  BY <1>2, ToCleanFields DEF TypeOK
<1>4. /\ user'[u].st = "CLEAN" /\ user'[u].sess = user[u].sess
      /\ user'[u].peer = user[u].peer
      /\ user'[u].evt \in {None, Owner(user[u])}
      /\ user'[u].tmr \in {None, Owner(user[u])}
  BY <1>2, <1>3, ToCleanFields
<1>5. QED
  BY <1>1, <1>3, <1>4, CleanUserStep

\* A user that is not paired times out.
LEMMA TimeoutToCleanStep ==
  ASSUME IInv, NEW th \in Thread, NEW u \in User, TimeoutToClean(th, u)
  PROVE  IInv'
<1> USE NoneAssumption, MainAssumption DEF Thread
<1>1. /\ user[u].tmr # None /\ user[u].st # "FREE"
      /\ user' = [user EXCEPT ![u] = ToClean(user[u])]
      /\ ready' \subseteq ready
      /\ UNCHANGED <<sess, down, wait, served, phase, bind, shut>>
  BY DEF TimeoutToClean
<1>2. bind.at = "none" \/ bind.user # u
  <2>1. bind.at \in {"none", "attach", "pair"}
    BY DEF IInv, TypeOK
  <2>2. user[u].tmr = th /\ (th = Main => bind.at = "none")
    BY DEF TimeoutToClean, InTimeouts, Idle
  <2>3. QED
    BY <2>1, <2>2, Fields DEF IInv, BindInv, OwnLoop, Owner
<1>3. QED
  BY <1>1, <1>2, ToCleanStep

\* A user with an event that has shown no ticket, or a message without a body
\* only, has no session.
LEMMA AuthHasNone ==
  ASSUME IInv, bind.at = "none", NEW u \in User, user[u].evt # None,
         user[u].st \in {"ACCEPTED", "AUTH"}
  PROVE  user[u].sess = None
  BY Fields DEF IInv, LinkInv, WaitInv

\* What was received is no register message with a ticket.
LEMMA AuthInvalidStep ==
  ASSUME IInv, NEW u \in User, AuthInvalid(u)
  PROVE  IInv'
<1>1. /\ user[u].evt # None /\ user[u].st # "FREE" /\ bind.at = "none"
      /\ user' = [user EXCEPT ![u] = ToClean(user[u])]
      /\ ready' \subseteq ready
      /\ UNCHANGED <<sess, down, wait, served, phase, bind, shut>>
  BY NoneAssumption DEF AuthInvalid, InEvents, Idle, Handled
<1>2. QED
  BY <1>1, ToCleanStep

\* A message without a body.
LEMMA AuthNoBodyStep ==
  ASSUME IInv, NEW u \in User, AuthNoBody(u)
  PROVE  IInv'
<1> USE NoneAssumption, MainAssumption DEF IInv, Thread
<1>a. /\ bind.at = "none" /\ user[u].evt = Main
      /\ user[u].st \in {"ACCEPTED", "AUTH"}
      /\ user' = [user EXCEPT ![u].st = "AUTH", ![u].tmr = Main]
      /\ ready' = ready \ {u}
      /\ UNCHANGED <<sess, down, wait, served, phase, bind, shut>>
  BY DEF AuthNoBody, InEvents, Idle, Handled
<1>b. /\ user' \in [User -> UserRecord]
      /\ \A v \in User \ {u} : user'[v] = user[v]
      /\ user'[u].st = "AUTH" /\ user'[u].tmr = Main
      /\ user'[u].evt = user[u].evt /\ user'[u].sess = user[u].sess
      /\ user'[u].peer = user[u].peer
  <2>1. user[u] \in UserRecord
    BY Fields
  <2>2. user' = [user EXCEPT ![u] = [user[u] EXCEPT !.st = "AUTH", !.tmr = Main]]
    BY ZenonT(30), Fields, <1>a
  <2>3. [user[u] EXCEPT !.st = "AUTH", !.tmr = Main] \in UserRecord
    BY <2>1, <1>a DEF UserRecord, UserStatus
  <2>4. QED
    BY <2>1, <2>2, <2>3, Fields DEF TypeOK, UserRecord
<1>c. user[u].sess = None
  BY <1>a, AuthHasNone
<1>1. TypeOK'
  BY <1>a, <1>b DEF TypeOK
<1>2. LinkInv'
  BY <1>a, <1>b, <1>c, Fields
     DEF LinkInv
<1>3. BindInv'
  BY <1>a, <1>b, <1>c, Fields
     DEF BindInv, BeingShut
<1>4. ShutInv'
  BY <1>a, <1>b, <1>c, Fields
     DEF ShutInv
<1>5. QueueInv'
  BY <1>a, <1>b, <1>c, Fields
     DEF QueueInv
<1>6. WaitInv'
  BY <1>a, <1>b, <1>c, Fields
     DEF WaitInv
<1>7. DownInv'
  BY <1>a, <1>b, <1>c, Fields
     DEF DownInv
<1>8. LinkedBack'
  BY <1>a, <1>b, <1>c, Fields
     DEF LinkedBack
<1>9. PeersAgree'
  BY <1>a, <1>b, <1>c, Fields
     DEF PeersAgree
<1>10. ServedComplete'
  BY <1>a, <1>b, <1>c, Fields
     DEF ServedComplete, BeingShut
<1>11. OwnLoop'
  BY <1>a, <1>b, <1>c, Fields
     DEF OwnLoop, Owner
<1>12. TimersFit'
  BY <1>a, <1>b, <1>c, Fields
     DEF TimersFit
<1>13. QED
  BY <1>1, <1>2, <1>3, <1>4, <1>5, <1>6, <1>7, <1>8, <1>9, <1>10, <1>11, <1>12

\* A ticket that is presented and not refused.
LEMMA AuthBindsStep ==
  ASSUME IInv, Overlap = FALSE, NEW u \in User, NEW t \in Ticket,
         AuthUser(u, t), ~(sess[t].st = "NONE" \/ InUse(t))
  PROVE  IInv'
<1> USE NoneAssumption, MainAssumption DEF IInv, Thread
<1>a. /\ shut[Main].at = "none" /\ bind.at = "none" /\ phase = "events"
      /\ user[u].evt = Main /\ user[u].st \in {"ACCEPTED", "AUTH"}
      /\ ~BeingShut(t)
      /\ sess[t].st # "NONE" /\ sess[t].st # "EST"
      /\ sess[t].user1 = None \/ sess[t].user2 = None
      /\ user' = [user EXCEPT ![u].st = "AUTH", ![u].tmr = Main]
      /\ bind' = [at |-> "attach", user |-> u, sess |-> t]
      /\ ready' = ready \ {u}
      /\ UNCHANGED <<sess, down, wait, served, phase, shut>>
  BY DEF AuthUser, InEvents, Idle, InUse, Handled
<1>b. /\ user' \in [User -> UserRecord]
      /\ \A v \in User \ {u} : user'[v] = user[v]
      /\ user'[u].st = "AUTH" /\ user'[u].tmr = Main
      /\ user'[u].evt = user[u].evt /\ user'[u].sess = user[u].sess
      /\ user'[u].peer = user[u].peer
  <2>1. user[u] \in UserRecord
    BY Fields
  <2>2. user' = [user EXCEPT ![u] = [user[u] EXCEPT !.st = "AUTH", !.tmr = Main]]
    BY Fields, <1>a DEF AuthUser
  <2>3. [user[u] EXCEPT !.st = "AUTH", !.tmr = Main] \in UserRecord
    BY <2>1, <1>a DEF UserRecord, UserStatus
  <2>4. QED
    BY <2>1, <2>2, <2>3, Fields DEF TypeOK, UserRecord
<1>c. /\ bind'.at = "attach" /\ bind'.user = u /\ bind'.sess = t
      /\ sess[t].base = None
  BY <1>a, Fields DEF ServedComplete, QueueInv
<1>d. user[u].sess = None
  BY <1>a, AuthHasNone
<1>1. TypeOK'
  BY <1>a, <1>b DEF TypeOK
<1>2. LinkInv'
  BY <1>a, <1>b, <1>c, <1>d, Fields
     DEF LinkInv
<1>3. BindInv'
  BY <1>a, <1>b, <1>c, <1>d, Fields
     DEF BindInv, BeingShut
<1>4. ShutInv'
  BY <1>a, <1>b, <1>c, <1>d, Fields
     DEF ShutInv
<1>5. QueueInv'
  BY <1>a, <1>b, <1>c, <1>d, Fields
     DEF QueueInv
<1>6. WaitInv'
  BY <1>a, <1>b, <1>c, <1>d, Fields
     DEF WaitInv
<1>7. DownInv'
  BY <1>a, <1>b, <1>c, <1>d, Fields
     DEF DownInv
<1>8. LinkedBack'
  BY <1>a, <1>b, <1>c, <1>d, Fields
     DEF LinkedBack
<1>9. PeersAgree'
  BY <1>a, <1>b, <1>c, <1>d, Fields
     DEF PeersAgree
<1>10. ServedComplete'
  BY <1>a, <1>b, <1>c, <1>d, Fields
     DEF ServedComplete, BeingShut
<1>11. OwnLoop'
  BY <1>a, <1>b, <1>c, <1>d, Fields
     DEF OwnLoop, Owner
<1>12. TimersFit'
  BY <1>a, <1>b, <1>c, <1>d, Fields
     DEF TimersFit
<1>13. QED
  BY <1>1, <1>2, <1>3, <1>4, <1>5, <1>6, <1>7, <1>8, <1>9, <1>10, <1>11, <1>12

\* The ticket is refused or not.
LEMMA AuthUserStep ==
  ASSUME IInv, Overlap = FALSE, NEW u \in User, NEW t \in Ticket,
         AuthUser(u, t)
  PROVE  IInv'
<1>1. CASE sess[t].st = "NONE" \/ InUse(t)
  <2>1. /\ user[u].evt # None /\ user[u].st # "FREE" /\ bind.at = "none"
        /\ user' = [user EXCEPT ![u] = ToClean(user[u])]
        /\ ready' \subseteq ready
        /\ UNCHANGED <<sess, down, wait, served, phase, bind, shut>>
    BY <1>1, NoneAssumption DEF AuthUser, InEvents, Idle, Handled
  <2>2. QED
    BY <2>1, ToCleanStep
<1>2. CASE ~(sess[t].st = "NONE" \/ InUse(t))
  BY <1>2, AuthBindsStep
<1>3. QED
  BY <1>1, <1>2

\* fwd_user_attach.
LEMMA BindAttachStep ==
  ASSUME IInv, BindAttach
  PROVE  IInv'
<1> USE NoneAssumption, MainAssumption DEF IInv, Thread
<1> DEFINE t == bind.sess  u == bind.user
<1>a. /\ bind.at = "attach" /\ u \in User /\ t \in Ticket
      /\ sess' = [sess EXCEPT
                    ![t] = IF sess[t].user1 = None
                           THEN [sess[t] EXCEPT !.user1 = u, !.tmr = None]
                           ELSE [sess[t] EXCEPT !.user2 = u, !.tmr = None]]
      /\ user' = [user EXCEPT ![u].sess = t]
      /\ bind' = [bind EXCEPT !.at = "pair"]
      /\ UNCHANGED <<down, wait, served, phase, ready, shut>>
  BY DEF BindAttach, BindInv
<1>b. /\ sess' \in [Ticket -> SessRecord]
      /\ \A k \in Ticket \ {t} : sess'[k] = sess[k]
      /\ sess'[t].st = sess[t].st /\ sess'[t].base = sess[t].base
      /\ sess'[t].tmr = None
      /\ \/ /\ sess[t].user1 = None /\ sess'[t].user1 = u
            /\ sess'[t].user2 = sess[t].user2
         \/ /\ sess[t].user1 # None /\ sess'[t].user1 = sess[t].user1
            /\ sess[t].user2 = None /\ sess'[t].user2 = u
  <2>1. sess[t] \in SessRecord
    BY <1>a, Fields
  <2>2. ASSUME NEW x, x = IF sess[t].user1 = None
                          THEN [sess[t] EXCEPT !.user1 = u, !.tmr = None]
                          ELSE [sess[t] EXCEPT !.user2 = u, !.tmr = None]
        PROVE  /\ x \in SessRecord
               /\ x.st = sess[t].st /\ x.base = sess[t].base /\ x.tmr = None
               /\ sess[t].user1 = None =>
                    x.user1 = u /\ x.user2 = sess[t].user2
               /\ sess[t].user1 # None =>
                    x.user1 = sess[t].user1 /\ x.user2 = u
    BY <1>a, <2>1, <2>2 DEF SessRecord
  <2>3. sess[t].user1 = None \/ sess[t].user2 = None
    BY <1>a DEF BindInv
  <2>4. QED
    BY <1>a, <2>2, <2>3 DEF TypeOK
<1>c. /\ user' \in [User -> UserRecord]
      /\ \A v \in User \ {u} : user'[v] = user[v]
      /\ user'[u].st = user[u].st /\ user'[u].peer = user[u].peer
      /\ user'[u].evt = user[u].evt /\ user'[u].tmr = user[u].tmr
      /\ user'[u].sess = t /\ user[u].sess = None
  <2>1. user[u] \in UserRecord /\ user[u].sess = None
    BY <1>a, Fields DEF BindInv
  <2>2. QED
    BY <1>a, <2>1 DEF TypeOK, UserRecord
<1>d. /\ bind'.at = "pair" /\ bind'.user = u /\ bind'.sess = t
      /\ bind' \in [at : {"none", "attach", "pair"}, user : User \cup {None},
                    sess : Ticket \cup {None}]
  BY <1>a DEF TypeOK
<1>e. /\ sess[t].base = None /\ t \notin wait \cup served
      /\ u \notin ready /\ phase = "events" /\ ~BeingShut(t)
      /\ shut[Main].at = "none" /\ user[u].st \notin {"FREE", "ACCEPTED"}
      /\ sess[t].st # "NONE" /\ user[u].peer = None
      /\ \A th \in Thread : shut[th].sess # t
  BY <1>a, <1>c, Fields DEF BindInv, QueueInv, PeersAgree, BeingShut, ShutInv
<1> HIDE DEF t, u
<1>1. TypeOK'
  BY <1>a, <1>b, <1>c, <1>d DEF TypeOK
<1>2. LinkInv'
  BY <1>a, <1>b, <1>c, <1>d, <1>e, Fields
     DEF LinkInv
<1>3. BindInv'
  BY <1>a, <1>b, <1>c, <1>d, <1>e, Fields
     DEF BindInv, BeingShut
<1>4. ShutInv'
  BY <1>a, <1>b, <1>c, <1>d, <1>e, Fields
     DEF ShutInv
<1>5. QueueInv'
  BY <1>a, <1>b, <1>c, <1>d, <1>e, Fields
     DEF QueueInv
<1>6. WaitInv'
  BY <1>a, <1>b, <1>c, <1>d, <1>e, Fields
     DEF WaitInv
<1>7. DownInv'
  BY <1>a, <1>b, <1>c, <1>d, <1>e, Fields
     DEF DownInv
<1>8. LinkedBack'
  BY <1>a, <1>b, <1>c, <1>d, <1>e, Fields
     DEF LinkedBack
<1>9. PeersAgree'
  BY <1>a, <1>b, <1>c, <1>d, <1>e, Fields
     DEF PeersAgree, LinkedBack
<1>10. ServedComplete'
  BY <1>a, <1>b, <1>c, <1>d, <1>e, Fields
     DEF ServedComplete, BeingShut
<1>11. OwnLoop'
  BY <1>a, <1>b, <1>c, <1>d, <1>e, Fields
     DEF OwnLoop, Owner
<1>12. TimersFit'
  BY <1>a, <1>b, <1>c, <1>d, <1>e, Fields
     DEF TimersFit
<1>13. QED
  BY <1>1, <1>2, <1>3, <1>4, <1>5, <1>6, <1>7, <1>8, <1>9, <1>10, <1>11, <1>12

\* The first user waits for its peer.
LEMMA BindWaitStep ==
  ASSUME IInv, BindWait
  PROVE  IInv'
<1> USE NoneAssumption, MainAssumption DEF IInv, Thread
<1> DEFINE t == bind.sess  u == bind.user
<1>a. /\ bind.at = "pair" /\ u \in User /\ t \in Ticket
      /\ user' = [user EXCEPT ![u] = TimeoutSet([user[u] EXCEPT !.st = "WATTING"])]
      /\ sess' = [sess EXCEPT ![t].st = "WATTING"]
      /\ bind' = NotBinding
      /\ UNCHANGED <<down, wait, served, phase, ready, shut>>
  BY DEF BindWait, BindInv
<1>b. /\ sess' \in [Ticket -> SessRecord]
      /\ \A k \in Ticket \ {t} : sess'[k] = sess[k]
      /\ sess'[t].st = "WATTING" /\ sess'[t].tmr = sess[t].tmr
      /\ sess'[t].user1 = sess[t].user1 /\ sess'[t].user2 = sess[t].user2
      /\ sess'[t].base = sess[t].base
  <2>1. sess[t] \in SessRecord
    BY Fields, <1>a
  <2>2. sess' = [sess EXCEPT ![t] = [sess[t] EXCEPT !.st = "WATTING"]]
    BY Fields, <1>a DEF BindWait
  <2>3. [sess[t] EXCEPT !.st = "WATTING"] \in SessRecord
    BY <2>1, <1>a DEF SessRecord, SessStatus
  <2>4. QED
    BY <2>1, <2>2, <2>3, Fields, <1>a DEF TypeOK, SessRecord
<1>c. /\ user' \in [User -> UserRecord]
      /\ \A v \in User \ {u} : user'[v] = user[v]
      /\ user'[u].st = "WATTING" /\ user'[u].peer = user[u].peer
      /\ user'[u].evt = user[u].evt /\ user'[u].tmr = Main
      /\ user'[u].sess = user[u].sess
  <2>1. user[u] \in UserRecord
    BY <1>a, Fields
  <2> DEFINE x == [user[u] EXCEPT !.st = "WATTING"]
  <2>2. /\ x \in UserRecord /\ x.st = "WATTING" /\ x.peer = user[u].peer
        /\ x.evt = user[u].evt /\ x.sess = user[u].sess
    BY <2>1, UserEdits DEF UserStatus
  <2> HIDE DEF x
  <2>3. /\ TimeoutSet(x) \in UserRecord
        /\ TimeoutSet(x).st = "WATTING"
        /\ TimeoutSet(x).peer = user[u].peer
        /\ TimeoutSet(x).evt = user[u].evt
        /\ TimeoutSet(x).tmr = Main
        /\ TimeoutSet(x).sess = user[u].sess
    BY <2>2, TimeoutSetFields
  <2>4. user' = [user EXCEPT ![u] = TimeoutSet(x)]
    BY <1>a DEF x
  <2>5. QED
    BY <1>a, <2>3, <2>4 DEF TypeOK
<1>d. /\ bind'.at = "none"
      /\ bind' \in [at : {"none", "attach", "pair"}, user : User \cup {None},
                    sess : Ticket \cup {None}]
  BY <1>a DEF NotBinding
<1>e. /\ sess[t].base = None /\ t \notin wait \cup served
      /\ sess[t].st # "NONE" /\ sess[t].tmr = None /\ user[u].sess = t
      /\ user[u].st \notin {"FREE", "ACCEPTED"} /\ u \notin ready
      /\ phase = "events"
  BY <1>a, Fields DEF BindInv, QueueInv, LinkInv
<1> HIDE DEF t, u
<1>1. TypeOK'
  BY <1>a, <1>b, <1>c, <1>d DEF TypeOK
<1>2. LinkInv'
  BY <1>a, <1>b, <1>c, <1>d, <1>e, Fields
     DEF LinkInv, u
<1>3. BindInv'
  BY <1>a, <1>b, <1>c, <1>d, <1>e, Fields
     DEF BindInv, BeingShut
<1>4. ShutInv'
  BY <1>a, <1>b, <1>c, <1>d, <1>e, Fields
     DEF ShutInv
<1>5. QueueInv'
  BY <1>a, <1>b, <1>c, <1>d, <1>e, Fields
     DEF QueueInv
<1>6. WaitInv'
  BY <1>a, <1>b, <1>c, <1>d, <1>e, Fields
     DEF WaitInv
<1>7. DownInv'
  BY <1>a, <1>b, <1>c, <1>d, <1>e, Fields
     DEF DownInv
<1>8. LinkedBack'
  BY <1>a, <1>b, <1>c, <1>d, <1>e, Fields
     DEF LinkedBack
<1>9. PeersAgree'
  BY <1>a, <1>b, <1>c, <1>d, <1>e, Fields
     DEF PeersAgree
<1>10. ServedComplete'
  BY <1>a, <1>b, <1>c, <1>d, <1>e, Fields
     DEF ServedComplete, BeingShut
<1>11. OwnLoop'
  BY <1>a, <1>b, <1>c, <1>d, <1>e, Fields
     DEF OwnLoop, Owner
<1>12. TimersFit'
  BY <1>a, <1>b, <1>c, <1>d, <1>e, Fields
     DEF TimersFit
<1>13. QED
  BY <1>1, <1>2, <1>3, <1>4, <1>5, <1>6, <1>7, <1>8, <1>9, <1>10, <1>11, <1>12

\* The pair is complete and the session is given to child c.
LEMMA BindPairStep ==
  ASSUME IInv, NEW c \in Child, BindPair(c)
  PROVE  IInv'
<1> USE NoneAssumption, MainAssumption DEF IInv, Thread
<1> DEFINE t == bind.sess  u == bind.user  peer == NextUser(t, u)
<1>a. /\ bind.at = "pair" /\ u \in User /\ t \in Ticket /\ user[u].sess = t
      /\ sess[t].base = None /\ sess[t].tmr = None /\ sess[t].st # "NONE"
      /\ ~BeingShut(t) /\ t \notin wait \cup served
      /\ shut[Main].at = "none" /\ \A th \in Thread : shut[th].sess # t
  BY Fields DEF BindPair, BindInv, QueueInv, BeingShut, ShutInv
<1>e. /\ peer \in User /\ peer # u /\ user[peer].sess = t
      /\ \/ sess[t].user1 = u /\ sess[t].user2 = peer
         \/ sess[t].user1 = peer /\ sess[t].user2 = u
      /\ user[u].peer = None /\ user[peer].peer = None
      /\ user[u].st \notin {"FREE", "ACCEPTED"}
      /\ user[peer].st \notin {"FREE", "ACCEPTED"}
  <2>1. u \in {sess[t].user1, sess[t].user2}
    BY <1>a DEF LinkedBack
  <2>2. peer = (IF sess[t].user1 = u THEN sess[t].user2 ELSE sess[t].user1)
        /\ peer # None
    BY DEF BindPair, NextUser
  <2>3. /\ peer \in User /\ peer # u
        /\ \/ sess[t].user1 = u /\ sess[t].user2 = peer
           \/ sess[t].user1 = peer /\ sess[t].user2 = u
    BY <1>a, <2>1, <2>2, Fields DEF PeersAgree
  <2>4. user[peer].sess = t
    BY <1>a, <2>3 DEF LinkedBack
  <2>5. QED
    BY <1>a, <2>3, <2>4, Fields DEF LinkInv
<1>b. /\ sess' \in [Ticket -> SessRecord]
      /\ \A k \in Ticket \ {t} : sess'[k] = sess[k]
      /\ sess'[t].st = sess[t].st /\ sess'[t].tmr = sess[t].tmr
      /\ sess'[t].user1 = sess[t].user1 /\ sess'[t].user2 = sess[t].user2
      /\ sess'[t].base = c
  <2>1. sess[t] \in SessRecord
    BY Fields, <1>a
  <2>2. sess' = [sess EXCEPT ![t] = [sess[t] EXCEPT !.base = c]]
    BY Fields, <1>a DEF BindPair
  <2>3. [sess[t] EXCEPT !.base = c] \in SessRecord
    BY <2>1, <1>a DEF SessRecord, SessStatus
  <2>4. QED
    BY <2>1, <2>2, <2>3, Fields, <1>a DEF TypeOK, SessRecord
<1>c. /\ user' \in [User -> UserRecord]
      /\ \A v \in User \ {u, peer} : user'[v] = user[v]
      /\ user'[u].peer = peer /\ user'[peer].peer = u
      /\ \A v \in {u, peer} :
           /\ user'[v].st = user[v].st /\ user'[v].sess = t
           /\ user'[v].evt = None /\ user'[v].tmr = None
  <2>1. ASSUME NEW v \in {u, peer}, NEW w \in User,
               NEW x, x = [Cancel(user[v]) EXCEPT !.peer = w]
        PROVE  /\ x \in UserRecord /\ x.st = user[v].st /\ x.sess = t
               /\ x.evt = None /\ x.tmr = None /\ x.peer = w
    <3>1. /\ user[v] \in UserRecord /\ user[v].sess = t
          /\ user[v].evt \in {None, Owner(user[v])}
      BY <1>a, <1>e, Fields DEF OwnLoop
    <3>2. /\ Cancel(user[v]) \in UserRecord
          /\ Cancel(user[v]).st = user[v].st /\ Cancel(user[v]).sess = t
          /\ Cancel(user[v]).evt = None /\ Cancel(user[v]).tmr = None
      BY <3>1, CancelFields
    <3>3. QED
      BY <2>1, <3>2 DEF UserRecord
  <2>2. user' = [user EXCEPT ![u] = [Cancel(user[u]) EXCEPT !.peer = peer],
                             ![peer] = [Cancel(user[peer]) EXCEPT !.peer = u]]
    BY <1>a, <1>e DEF BindPair, TypeOK
  <2>3. /\ user'[u] = [Cancel(user[u]) EXCEPT !.peer = peer]
        /\ user'[peer] = [Cancel(user[peer]) EXCEPT !.peer = u]
        /\ \A v \in User \ {u, peer} : user'[v] = user[v]
        /\ DOMAIN user' = User
    BY <1>a, <1>e, <2>2 DEF TypeOK
  <2>4. user' = [v \in User |-> user'[v]]
    BY <2>2 DEF TypeOK
  <2>5. \A v \in User : user'[v] \in UserRecord
    BY <1>a, <1>e, <2>1, <2>3, Fields
  <2>6. user' \in [User -> UserRecord]
    BY <2>4, <2>5
  <2>7. QED
    BY <1>a, <1>e, <2>1, <2>3, <2>6
<1>d. /\ bind'.at = "none"
      /\ bind' \in [at : {"none", "attach", "pair"}, user : User \cup {None},
                    sess : Ticket \cup {None}]
      /\ ready' \subseteq ready
      /\ down' = down \ {t} /\ wait' = wait \cup {t}
      /\ UNCHANGED <<served, phase, shut>>
  BY DEF BindPair, NotBinding
<1> HIDE DEF t, u, peer
<1>1. TypeOK'
  BY <1>a, <1>b, <1>c, <1>d DEF TypeOK
<1>2. LinkInv'
  BY <1>a, <1>e, <1>b, <1>c, <1>d, Fields
     DEF LinkInv, u
<1>3. BindInv'
  BY <1>a, <1>e, <1>b, <1>c, <1>d, Fields
     DEF BindInv, BeingShut
<1>4. ShutInv'
  BY <1>a, <1>e, <1>b, <1>c, <1>d, Fields
     DEF ShutInv
<1>5. QueueInv'
  BY <1>a, <1>e, <1>b, <1>c, <1>d, Fields
     DEF QueueInv
<1>6. WaitInv'
  BY <1>a, <1>e, <1>b, <1>c, <1>d, Fields
     DEF WaitInv, LinkedBack
<1>7. DownInv'
  BY <1>a, <1>e, <1>b, <1>c, <1>d, Fields
     DEF DownInv
<1>8. LinkedBack'
  BY <1>a, <1>e, <1>b, <1>c, <1>d, Fields
     DEF LinkedBack
<1>9. PeersAgree'
  BY <1>a, <1>e, <1>b, <1>c, <1>d, Fields
     DEF PeersAgree
<1>10. ServedComplete'
  BY <1>a, <1>e, <1>b, <1>c, <1>d, Fields
     DEF ServedComplete, BeingShut
<1>11. OwnLoop'
  BY <1>a, <1>e, <1>b, <1>c, <1>d, Fields
     DEF OwnLoop, Owner, LinkedBack
<1>12. TimersFit'
  BY <1>a, <1>e, <1>b, <1>c, <1>d, Fields
     DEF TimersFit
<1>13. QED
  BY <1>1, <1>2, <1>3, <1>4, <1>5, <1>6, <1>7, <1>8, <1>9, <1>10, <1>11, <1>12

\* A child takes a session from its wait queue.
LEMMA TakeSessionStep ==
  ASSUME IInv, NEW c \in Child, NEW t \in Ticket, TakeSession(c, t)
  PROVE  IInv'
<1> USE NoneAssumption, MainAssumption DEF IInv, Thread
<1>a. /\ t \in wait /\ sess[t].base = c
      /\ wait' = wait \ {t} /\ served' = served \cup {t}
      /\ UNCHANGED <<down, phase, ready, bind, shut>>
      /\ ~BeingShut(t) /\ t \notin down
      /\ \A th \in Thread : shut[th].sess # t
      /\ bind.at # "none" => bind.sess # t /\ user[bind.user].sess # t
  <2>1. /\ t \in wait /\ sess[t].base = c /\ shut[c].at = "none"
        /\ wait' = wait \ {t} /\ served' = served \cup {t}
        /\ UNCHANGED <<down, phase, ready, bind, shut>>
    BY DEF TakeSession, Idle
  <2>2. /\ ~BeingShut(t) /\ t \notin down
        /\ \A th \in Thread : shut[th].sess # t
    BY <2>1, Fields DEF BeingShut, ShutInv, DownInv
  <2>3. bind.at # "none" => bind.sess # t /\ user[bind.user].sess # t
    BY <2>1, Fields DEF BindInv, TypeOK
  <2>4. QED
    BY <2>1, <2>2, <2>3
<1>b. /\ sess' \in [Ticket -> SessRecord]
      /\ \A k \in Ticket \ {t} : sess'[k] = sess[k]
      /\ sess'[t].st = "EST" /\ sess'[t].tmr = c
      /\ sess'[t].user1 = sess[t].user1 /\ sess'[t].user2 = sess[t].user2
      /\ sess'[t].base = sess[t].base
  <2>1. sess[t] \in SessRecord
    BY Fields
  <2>2. sess' = [sess EXCEPT ![t] = [sess[t] EXCEPT !.st = "EST", !.tmr = c]]
    BY Fields DEF TakeSession
  <2>3. [sess[t] EXCEPT !.st = "EST", !.tmr = c] \in SessRecord
    BY <2>1 DEF SessRecord, SessStatus
  <2>4. QED
    BY <2>1, <2>2, <2>3, Fields DEF TypeOK, SessRecord
<1>c. /\ user' \in [User -> UserRecord]
      /\ \A v \in User : user[v].sess # t => user'[v] = user[v]
      /\ \A v \in User : user[v].sess = t =>
           /\ user'[v].st = "EST" /\ user'[v].sess = t
           /\ user'[v].peer = user[v].peer
           /\ user'[v].evt = c /\ user'[v].tmr = None
  <2>1. ASSUME NEW v \in User
        PROVE  user'[v] = IF user[v].sess = t
                          THEN LET x == [user[v] EXCEPT !.st = "EST"]
                               IN  IF x.peer # None THEN EventSet(x) ELSE x
                          ELSE user[v]
    BY DEF TakeSession, LinkedBack
  <2>2. ASSUME NEW v \in User, user[v].sess = t
        PROVE  /\ user'[v] \in UserRecord
               /\ user'[v].st = "EST" /\ user'[v].sess = t
               /\ user'[v].peer = user[v].peer
               /\ user'[v].evt = c /\ user'[v].tmr = None
    <3>1. v \in {sess[t].user1, sess[t].user2}
      BY <2>2 DEF LinkedBack
    <3>2. user[v].peer # None
      BY <1>a, <3>1, Fields DEF ServedComplete, PeersAgree
    <3>3. user[v].evt = None /\ user[v].tmr = None /\ user[v] \in UserRecord
      BY <1>a, <2>2, Fields DEF WaitInv
    <3> DEFINE x == [user[v] EXCEPT !.st = "EST"]
    <3>4. /\ x \in UserRecord /\ x.st = "EST" /\ x.sess = t
          /\ x.peer = user[v].peer /\ x.evt = None /\ x.tmr = None
      BY <2>2, <3>3, UserEdits DEF UserStatus
    <3>5. Owner(x) = c
      BY <1>a, <3>4 DEF Owner
    <3>6. user'[v] = EventSet(x)
      BY <2>1, <2>2, <3>2, <3>4
    <3> HIDE DEF x
    <3>7. QED
      BY <3>4, <3>5, <3>6, EventSetFields
  <2>3. user' \in [User -> UserRecord]
    BY <2>1, <2>2, Fields DEF TakeSession
  <2>4. QED
    BY <2>1, <2>2, <2>3
<1>d. \A v \in User : user'[v].sess = user[v].sess
                    /\ user'[v].peer = user[v].peer
  BY <1>c
<1>1. TypeOK'
  BY <1>a, <1>b, <1>c DEF TypeOK
<1>2. LinkInv'
  BY <1>a, <1>b, <1>c, <1>d, Fields
     DEF LinkInv
<1>3. BindInv'
  BY <1>a, <1>b, <1>c, <1>d, Fields
     DEF BindInv, BeingShut
<1>4. ShutInv'
  BY <1>a, <1>b, <1>c, <1>d, Fields
     DEF ShutInv
<1>5. QueueInv'
  BY <1>a, <1>b, <1>c, <1>d, Fields
     DEF QueueInv
<1>6. WaitInv'
  BY <1>a, <1>b, <1>c, <1>d, Fields
     DEF WaitInv
<1>7. DownInv'
  BY <1>a, <1>b, <1>c, <1>d, Fields
     DEF DownInv
<1>8. LinkedBack'
  BY <1>a, <1>b, <1>c, <1>d, Fields
     DEF LinkedBack
<1>9. PeersAgree'
  BY <1>a, <1>b, <1>c, <1>d, Fields
     DEF PeersAgree
<1>10. ServedComplete'
  BY <1>a, <1>b, <1>c, <1>d, Fields
     DEF ServedComplete, BeingShut
<1>11. OwnLoop'
  BY <1>a, <1>b, <1>c, <1>d, Fields
     DEF OwnLoop, Owner
<1>12. TimersFit'
  BY <1>a, <1>b, <1>c, <1>d, Fields
     DEF TimersFit
<1>13. QED
  BY <1>1, <1>2, <1>3, <1>4, <1>5, <1>6, <1>7, <1>8, <1>9, <1>10, <1>11, <1>12

\* What a child can rely on when it handles the event of a user.
LEMMA EstFacts ==
  ASSUME IInv, NEW c \in Child, NEW u \in User, shut[c].at = "none",
         user[u].evt = c \/ user[u].tmr = c
  PROVE  LET t == user[u].sess IN
         /\ t \in Ticket /\ sess[t].base = c /\ sess[t].st # "NONE"
         /\ t \in served /\ t \notin wait /\ t \notin down
         /\ \A th \in Thread : shut[th].sess # t
         /\ ~BeingShut(t)
         /\ bind.at # "none" => bind.sess # t /\ user[bind.user].sess # t
         /\ user[u].peer # None =>
              /\ user[u].peer \in User /\ user[u].peer # u
              /\ user[user[u].peer].sess = t
<1> USE NoneAssumption, MainAssumption DEF IInv, Thread
<1> DEFINE t == user[u].sess
<1>1. t \in Ticket /\ sess[t].base = c
  BY Fields DEF OwnLoop, Owner
<1>2. t \in served /\ t \notin wait /\ t \notin down /\ sess[t].st # "NONE"
  BY <1>1, Fields DEF QueueInv, WaitInv, DownInv, LinkInv
<1>3. \A th \in Thread : shut[th].sess # t
  BY <1>1, Fields DEF ShutInv
<1>4. ~BeingShut(t)
  BY <1>3 DEF BeingShut
<1>5. bind.at # "none" => bind.sess # t /\ user[bind.user].sess # t
  BY <1>1, Fields DEF BindInv, TypeOK
<1>6. ASSUME user[u].peer # None
      PROVE  /\ user[u].peer \in User /\ user[u].peer # u
             /\ user[user[u].peer].sess = t
  <2>1. user[u].peer \in User /\ user[user[u].peer].sess = t
    BY <1>6, Fields DEF PeersAgree
  <2>2. u \in {sess[t].user1, sess[t].user2}
    BY <1>1 DEF LinkedBack
  <2>3. user[u].peer # u
    BY <1>1, <1>2, <1>4, <2>2, Fields DEF ServedComplete, PeersAgree
  <2>4. QED
    BY <2>1, <2>3
<1>7. QED
  BY <1>1, <1>2, <1>3, <1>4, <1>5, <1>6

\* Bytes flow.
LEMMA EstRelayStep ==
  ASSUME IInv, NEW c \in Child, NEW u \in User, EstRelay(c, u)
  PROVE  IInv'
<1> USE NoneAssumption, MainAssumption DEF IInv, Thread
<1> DEFINE peer == user[u].peer  t == user[u].sess
<1>a. /\ shut[c].at = "none" /\ user[u].evt = c /\ peer # None
      /\ user[u].st = "EST"
      /\ UNCHANGED <<sess, down, wait, served, phase, ready, bind, shut>>
  BY DEF EstRelay, InEvents, Idle
<1>b. /\ t \in Ticket /\ sess[t].base = c /\ t \in served /\ t \notin wait
      /\ t \notin down /\ ~BeingShut(t)
      /\ bind.at # "none" => bind.sess # t /\ user[bind.user].sess # t
      /\ peer \in User /\ peer # u /\ user[u].sess = t /\ user[peer].sess = t
  BY <1>a, EstFacts
<1>e. /\ user[u] \in UserRecord /\ user[peer] \in UserRecord
      /\ Owner(user[peer]) = c /\ user[peer].st \in {"EST", "CLEAN"}
      /\ user[peer].evt \in {None, c} /\ user[peer].tmr \in {None, c}
  BY <1>b, Fields DEF OwnLoop, Owner, QueueInv
<1>c. /\ user' \in [User -> UserRecord]
      /\ \A v \in User :
           /\ user'[v].st = user[v].st /\ user'[v].sess = user[v].sess
           /\ user'[v].peer = user[v].peer /\ user'[v].tmr = user[v].tmr
      /\ \A v \in User \ {u, peer} : user'[v] = user[v]
      /\ user'[u].evt \in {None, c} /\ user'[peer].evt = c
  <2>1. PICK e \in {None, c} :
          user' = [user EXCEPT ![u].evt = e, ![peer] = EventSet(user[peer])]
    BY <1>b DEF EstRelay
  <2> DEFINE x == [user[u] EXCEPT !.evt = e]  y == EventSet(user[peer])
  <2>2. /\ x \in UserRecord /\ x.st = user[u].st /\ x.sess = user[u].sess
        /\ x.peer = user[u].peer /\ x.tmr = user[u].tmr /\ x.evt = e
    BY <1>e, EventEdits
  <2>3. /\ y \in UserRecord /\ y.st = user[peer].st
        /\ y.sess = user[peer].sess /\ y.peer = user[peer].peer
        /\ y.tmr = user[peer].tmr /\ y.evt = c
    BY <1>e, EventSetFields
  <2>4. user' = [user EXCEPT ![u] = x, ![peer] = y]
    BY <1>b, <2>1 DEF TypeOK
  <2> HIDE DEF x, y
  <2>5. QED
    BY <1>b, <2>2, <2>3, <2>4 DEF TypeOK
<1> HIDE DEF t, peer
<1>1. TypeOK'
  BY <1>a, <1>b, <1>c DEF TypeOK
<1>2. LinkInv'
  BY <1>a, <1>b, <1>e, <1>c, Fields
     DEF LinkInv
<1>3. BindInv'
  BY <1>a, <1>b, <1>e, <1>c, Fields
     DEF BindInv, BeingShut
<1>4. ShutInv'
  BY <1>a, <1>b, <1>e, <1>c, Fields
     DEF ShutInv
<1>5. QueueInv'
  BY <1>a, <1>b, <1>e, <1>c, Fields
     DEF QueueInv
<1>6. WaitInv'
  BY <1>a, <1>b, <1>e, <1>c, Fields
     DEF WaitInv
<1>7. DownInv'
  BY <1>a, <1>b, <1>e, <1>c, Fields
     DEF DownInv
<1>8. LinkedBack'
  BY <1>a, <1>b, <1>e, <1>c, Fields
     DEF LinkedBack
<1>9. PeersAgree'
  BY <1>a, <1>b, <1>e, <1>c, Fields
     DEF PeersAgree
<1>10. ServedComplete'
  BY <1>a, <1>b, <1>e, <1>c, Fields
     DEF ServedComplete, BeingShut
<1>11. OwnLoop'
  BY <1>a, <1>b, <1>e, <1>c, Fields
     DEF OwnLoop, Owner
<1>12. TimersFit'
  BY <1>a, <1>b, <1>e, <1>c, Fields
     DEF TimersFit
<1>13. QED
  BY <1>1, <1>2, <1>3, <1>4, <1>5, <1>6, <1>7, <1>8, <1>9, <1>10, <1>11, <1>12

\* u fails and its peer flushes.
LEMMA EstFailsFlushStep ==
  ASSUME IInv, NEW c \in Child, NEW u \in User, EstFailsFlush(c, u)
  PROVE  IInv'
<1> USE NoneAssumption, MainAssumption DEF IInv, Thread
<1> DEFINE peer == user[u].peer  t == user[u].sess
<1>a. /\ shut[c].at = "none" /\ user[u].evt = c /\ peer # None
      /\ user[u].st = "EST"
      /\ UNCHANGED <<down, wait, served, phase, ready, bind, shut>>
  BY DEF EstFailsFlush, InEvents, Idle
<1>b. /\ t \in Ticket /\ sess[t].base = c /\ t \in served /\ t \notin wait
      /\ t \notin down /\ ~BeingShut(t)
      /\ bind.at # "none" => bind.sess # t /\ user[bind.user].sess # t
      /\ peer \in User /\ peer # u /\ user[u].sess = t /\ user[peer].sess = t
  BY <1>a, EstFacts
<1>e. /\ user[u] \in UserRecord /\ user[peer] \in UserRecord
      /\ Owner(user[peer]) = c /\ user[peer].st \in {"EST", "CLEAN"}
      /\ user[peer].evt \in {None, c} /\ user[peer].tmr \in {None, c}
  BY <1>b, Fields DEF OwnLoop, Owner, QueueInv
<1>c. /\ user' \in [User -> UserRecord]
      /\ \A v \in User : /\ user'[v].sess = user[v].sess
                        /\ user'[v].peer = user[v].peer
      /\ \A v \in User \ {u, peer} : user'[v] = user[v]
      /\ user'[u].st = "EST" /\ user'[u].evt = None /\ user'[u].tmr = user[u].tmr
      /\ user'[peer].st = "CLEAN" /\ user'[peer].evt = c /\ user'[peer].tmr = c
  <2> DEFINE x == [user[u] EXCEPT !.evt = None]
             z == [user[peer] EXCEPT !.evt = None]  y == ToClean(z)
  <2>1. user' = [user EXCEPT ![u] = x, ![peer] = y]
    BY <1>b DEF EstFailsFlush, TypeOK
  <2>2. /\ x \in UserRecord /\ x.st = user[u].st /\ x.sess = user[u].sess
        /\ x.peer = user[u].peer /\ x.tmr = user[u].tmr /\ x.evt = None
    BY <1>e, EventEdits
  <2>3. /\ z \in UserRecord /\ z.sess = user[peer].sess
        /\ z.peer = user[peer].peer /\ z.evt = None /\ Owner(z) = c
    BY <1>e, EventEdits
  <2> HIDE DEF z
  <2>4. /\ y \in UserRecord /\ y.st = "CLEAN" /\ y.sess = user[peer].sess
        /\ y.peer = user[peer].peer /\ y.tmr = c /\ y.evt = c
    BY <2>3, ToCleanFields
  <2> HIDE DEF x, y
  <2>5. QED
    BY <1>a, <1>b, <2>1, <2>2, <2>4 DEF TypeOK
<1>d. /\ sess' \in [Ticket -> SessRecord]
      /\ \A k \in Ticket \ {t} : sess'[k] = sess[k]
      /\ sess'[t].st = "CLEAN" /\ sess'[t].tmr = c
      /\ sess'[t].user1 = sess[t].user1 /\ sess'[t].user2 = sess[t].user2
      /\ sess'[t].base = sess[t].base
  <2>1. sess[t] \in SessRecord
    BY Fields, <1>b
  <2>2. sess' = [sess EXCEPT ![t] = [sess[t] EXCEPT !.st = "CLEAN", !.tmr = c]]
    BY Fields, <1>b DEF EstFailsFlush
  <2>3. [sess[t] EXCEPT !.st = "CLEAN", !.tmr = c] \in SessRecord
    BY <2>1, <1>b DEF SessRecord, SessStatus
  <2>4. QED
    BY <2>1, <2>2, <2>3, Fields, <1>b DEF TypeOK, SessRecord
<1> HIDE DEF t, peer
<1>1. TypeOK'
  BY <1>a, <1>b, <1>c, <1>d DEF TypeOK
<1>2. LinkInv'
  BY <1>a, <1>b, <1>e, <1>c, <1>d, Fields
     DEF LinkInv
<1>3. BindInv'
  BY <1>a, <1>b, <1>e, <1>c, <1>d, Fields
     DEF BindInv, BeingShut
<1>4. ShutInv'
  BY <1>a, <1>b, <1>e, <1>c, <1>d, Fields
     DEF ShutInv
<1>5. QueueInv'
  BY <1>a, <1>b, <1>e, <1>c, <1>d, Fields
     DEF QueueInv
<1>6. WaitInv'
  BY <1>a, <1>b, <1>e, <1>c, <1>d, Fields
     DEF WaitInv
<1>7. DownInv'
  BY <1>a, <1>b, <1>e, <1>c, <1>d, Fields
     DEF DownInv
<1>8. LinkedBack'
  BY <1>a, <1>b, <1>e, <1>c, <1>d, Fields
     DEF LinkedBack
<1>9. PeersAgree'
  BY <1>a, <1>b, <1>e, <1>c, <1>d, Fields
     DEF PeersAgree
<1>10. ServedComplete'
  BY <1>a, <1>b, <1>e, <1>c, <1>d, Fields
     DEF ServedComplete, BeingShut
<1>11. OwnLoop'
  BY <1>a, <1>b, <1>e, <1>c, <1>d, Fields
     DEF OwnLoop, Owner
<1>12. TimersFit'
  BY <1>a, <1>b, <1>e, <1>c, <1>d, Fields
     DEF TimersFit
<1>13. QED
  BY <1>1, <1>2, <1>3, <1>4, <1>5, <1>6, <1>7, <1>8, <1>9, <1>10, <1>11, <1>12

\* A thread begins to shut down a session that it owns and that nobody else
\* shuts down; at most an event or a timer is gone before.
LEMMA ShutdownBegins ==
  ASSUME IInv, NEW th \in Thread, NEW t \in Ticket, NEW gone \in BOOLEAN,
         Shutdown(th, t, gone), Idle(th), sess[t].st # "NONE", t \notin down,
         sess[t].base = IF th = Main THEN None ELSE th,
         \A other \in Thread : shut[other].sess # t,
         user' \in [User -> UserRecord],
         \A v \in User :
           /\ user'[v].st = user[v].st /\ user'[v].sess = user[v].sess
           /\ user'[v].peer = user[v].peer
           /\ user'[v].evt \in {user[v].evt, None}
           /\ user'[v].tmr \in {user[v].tmr, None},
         sess' \in [Ticket -> SessRecord],
         \A k \in Ticket :
           /\ sess'[k].st = sess[k].st /\ sess'[k].base = sess[k].base
           /\ sess'[k].user1 = sess[k].user1
           /\ sess'[k].user2 = sess[k].user2
           /\ sess'[k].tmr \in {sess[k].tmr, None},
         ready' \subseteq ready, UNCHANGED <<down, wait, served, phase, bind>>
  PROVE  IInv'
<1> USE NoneAssumption, MainAssumption DEF IInv, Thread
<1>a. /\ shut[th].at = "none" /\ (th = Main => bind.at = "none")
      /\ bind.at # "none" => bind.sess # t
  BY Fields DEF Idle, BindInv
<1>b. /\ shut' \in [Thread -> [at : {"none", "user1", "user2", "clear", "detach",
                                   "down"},
                             sess : Ticket \cup {None}, fired : BOOLEAN]]
      /\ \A other \in Thread \ {th} : shut'[other] = shut[other]
      /\ shut'[th].at = "user1" /\ shut'[th].sess = t
  BY DEF Shutdown, TypeOK
<1>c. th = Main => t \notin wait \cup served
  BY DEF QueueInv
<1>1. TypeOK'
  BY <1>b DEF TypeOK
<1>2. LinkInv'
  BY <1>a, <1>b, <1>c, Fields
     DEF LinkInv
<1>3. BindInv'
  BY <1>a, <1>b, <1>c, Fields
     DEF BindInv, BeingShut
<1>4. ShutInv'
  BY <1>a, <1>b, <1>c, Fields
     DEF ShutInv
<1>5. QueueInv'
  BY <1>a, <1>b, <1>c, Fields
     DEF QueueInv
<1>6. WaitInv'
  BY <1>a, <1>b, <1>c, Fields
     DEF WaitInv
<1>7. DownInv'
  BY <1>a, <1>b, <1>c, Fields
     DEF DownInv
<1>8. LinkedBack'
  BY <1>a, <1>b, <1>c, Fields
     DEF LinkedBack
<1>9. PeersAgree'
  BY <1>a, <1>b, <1>c, Fields
     DEF PeersAgree
<1>10. ServedComplete'
  <2>1. ASSUME NEW k \in wait \cup served, ~(BeingShut(k)')
        PROVE  /\ sess'[k].base # None /\ sess'[k].user1 # None
               /\ sess'[k].user2 # None
               /\ user'[sess'[k].user1].peer = sess'[k].user2
    <3>0. k \in Ticket /\ shut[th].sess # k
      BY <1>a, Fields DEF ShutInv
    <3>1. ~BeingShut(k) /\ k \in Ticket
      BY <1>b, <2>1, <3>0 DEF BeingShut
    <3>2. /\ sess[k].base # None /\ sess[k].user1 \in User
          /\ sess[k].user2 # None
          /\ user[sess[k].user1].peer = sess[k].user2
      BY <3>1, Fields DEF ServedComplete
    <3>3. QED
      BY <3>1, <3>2
  <2>2. QED
    BY <2>1 DEF ServedComplete
<1>11. OwnLoop'
  BY <1>a, <1>b, <1>c, Fields
     DEF OwnLoop, Owner
<1>12. TimersFit'
  BY <1>a, <1>b, <1>c, Fields
     DEF TimersFit
<1>13. QED
  BY <1>1, <1>2, <1>3, <1>4, <1>5, <1>6, <1>7, <1>8, <1>9, <1>10, <1>11, <1>12

\* A user that is in no session is destroyed.
LEMMA DestroyAlone ==
  ASSUME IInv, NEW u \in User, DestroyUser(u), user[u].sess = None,
         bind.at = "none", ready' \subseteq ready,
         UNCHANGED <<sess, down, wait, served, phase, bind, shut>>
  PROVE  IInv'
<1> USE NoneAssumption, MainAssumption DEF IInv, Thread
<1>a. /\ user' \in [User -> UserRecord]
      /\ user'[u].st = "FREE" /\ user'[u].sess = None
      /\ user'[u].peer = None /\ user'[u].evt = None /\ user'[u].tmr = None
      /\ \A v \in User \ {u} :
           /\ user'[v].st = user[v].st /\ user'[v].sess = user[v].sess
           /\ user'[v].evt = user[v].evt /\ user'[v].tmr = user[v].tmr
           /\ user'[v].peer = user[v].peer
  <2>1. user[u].peer = None
    BY Fields DEF PeersAgree
  <2>2. QED
    BY <2>1, DestroyFields
<1>1. TypeOK'
  BY <1>a DEF TypeOK
<1>2. LinkInv'
  BY <1>a, Fields
     DEF LinkInv
<1>3. BindInv'
  BY <1>a, Fields
     DEF BindInv, BeingShut
<1>4. ShutInv'
  BY <1>a, Fields
     DEF ShutInv
<1>5. QueueInv'
  BY <1>a, Fields
     DEF QueueInv
<1>6. WaitInv'
  BY <1>a, Fields
     DEF WaitInv
<1>7. DownInv'
  BY <1>a, Fields
     DEF DownInv
<1>8. LinkedBack'
  BY <1>a, Fields
     DEF LinkedBack
<1>9. PeersAgree'
  BY <1>a, Fields
     DEF PeersAgree
<1>10. ServedComplete'
  <2>1. ASSUME NEW k \in wait \cup served, ~BeingShut(k)
        PROVE  /\ sess[k].base # None /\ sess[k].user1 # None
               /\ sess[k].user2 # None
               /\ user'[sess[k].user1].peer = sess[k].user2
    <3>1. /\ sess[k].base # None /\ sess[k].user1 \in User
          /\ sess[k].user2 # None /\ k \in Ticket
          /\ user[sess[k].user1].peer = sess[k].user2
      BY <2>1, Fields DEF ServedComplete
    <3>2. sess[k].user1 # u
      BY <3>1 DEF LinkedBack
    <3>3. QED
      BY <1>a, <3>1, <3>2
  <2>2. \A k : BeingShut(k)' <=> BeingShut(k)
    BY DEF BeingShut
  <2>3. QED
    BY <2>1, <2>2 DEF ServedComplete
<1>11. OwnLoop'
  BY <1>a, Fields
     DEF OwnLoop, Owner
<1>12. TimersFit'
  BY <1>a, Fields
     DEF TimersFit
<1>13. QED
  BY <1>1, <1>2, <1>3, <1>4, <1>5, <1>6, <1>7, <1>8, <1>9, <1>10, <1>11, <1>12

\* What a thread can rely on while it shuts a session down.
LEMMA ShutFacts ==
  ASSUME IInv, NEW th \in Thread, shut[th].at # "none"
  PROVE  LET t == shut[th].sess IN
         /\ t \in Ticket /\ sess[t] \in SessRecord /\ sess[t].st # "NONE"
         /\ t \notin down
         /\ sess[t].base = IF th = Main \/ shut[th].at = "down" THEN None ELSE th
         /\ \A other \in Thread \ {th} : shut[other].sess # t
         /\ th # Main => BeingShut(t)
         /\ sess[t].base = None => t \notin wait \cup served
         /\ bind.at # "none" =>
              /\ th # Main /\ bind.sess # t /\ bind.user \in User
              /\ user[bind.user].sess # t
<1> USE NoneAssumption, MainAssumption DEF IInv, Thread
<1> DEFINE t == shut[th].sess
<1>1. t \in Ticket /\ sess[t] \in SessRecord
  BY Fields DEF ShutInv
<1>2. /\ sess[t].st # "NONE" /\ t \notin down
      /\ sess[t].base = IF th = Main \/ shut[th].at = "down" THEN None ELSE th
      /\ \A other \in Thread \ {th} : shut[other].sess # t
  BY <1>1 DEF ShutInv
<1>3. th # Main => BeingShut(t)
  BY DEF BeingShut
<1>4. sess[t].base = None => t \notin wait \cup served
  BY <1>1 DEF QueueInv
<1>5. bind.at # "none" =>
        /\ th # Main /\ bind.sess # t /\ bind.user \in User
        /\ user[bind.user].sess # t
  BY <1>1, <1>3 DEF BindInv, TypeOK
<1>6. QED
  BY <1>1, <1>2, <1>3, <1>4, <1>5

\* The first user is destroyed.
LEMMA ShutUser1Step ==
  ASSUME IInv, NEW th \in Thread, ShutUser1(th)
  PROVE  IInv'
<1> USE NoneAssumption, MainAssumption DEF IInv, Thread
<1> DEFINE t == shut[th].sess  v == sess[t].user1
<1>a. /\ shut[th].at = "user1" /\ Goto(th, "user2") /\ DestroyPlace(th, v)
      /\ UNCHANGED <<down, wait, served, phase, bind>>
  BY DEF ShutUser1
<1>b. /\ t \in Ticket /\ sess[t] \in SessRecord /\ sess[t].st # "NONE"
      /\ t \notin down /\ sess[t].base = IF th = Main THEN None ELSE th
      /\ \A other \in Thread \ {th} : shut[other].sess # t
      /\ th # Main => BeingShut(t)
      /\ th = Main => t \notin wait \cup served
      /\ bind.at # "none" =>
           /\ th # Main /\ bind.sess # t /\ bind.user \in User
           /\ user[bind.user].sess # t
  BY <1>a, ShutFacts
<1>c. /\ sess' \in [Ticket -> SessRecord]
      /\ \A k \in Ticket \ {t} : sess'[k] = sess[k]
      /\ sess'[t].st = sess[t].st /\ sess'[t].base = sess[t].base
      /\ sess'[t].user1 = None /\ sess'[t].user2 = sess[t].user2
      /\ sess'[t].tmr = None
  <2>1. sess[t] \in SessRecord
    BY Fields, <1>a, <1>b
  <2>2. sess' = [sess EXCEPT ![t] = [sess[t] EXCEPT !.user1 = None, !.tmr = None]]
    BY Fields, <1>a, <1>b DEF ShutUser1
  <2>3. [sess[t] EXCEPT !.user1 = None, !.tmr = None] \in SessRecord
    BY <2>1, <1>a, <1>b DEF SessRecord, SessStatus
  <2>4. QED
    BY <2>1, <2>2, <2>3, Fields, <1>a, <1>b DEF TypeOK, SessRecord
<1>d. /\ v \in User \cup {None}
      /\ \A w \in User : w = v => user[w].sess = t
      /\ \A w \in User : user[w].sess = t => w \in {v, sess[t].user2}
      /\ v \in User => v # sess[t].user2
  BY <1>a, <1>b, Fields DEF LinkedBack, PeersAgree, ShutInv
<1>e. /\ user' \in [User -> UserRecord] /\ ready' \subseteq ready
      /\ v \in User =>
           /\ user'[v].st = "FREE" /\ user'[v].sess = None /\ user'[v].peer = None
           /\ user'[v].evt = None /\ user'[v].tmr = None
      /\ \A w \in User \ {v} :
           /\ user'[w].st = user[w].st /\ user'[w].sess = user[w].sess
           /\ user'[w].evt = user[w].evt /\ user'[w].tmr = user[w].tmr
           /\ user'[w].peer = IF user[w].peer = v THEN None ELSE user[w].peer
  <2>1. CASE v = None
    BY <1>a, <2>1, Fields DEF DestroyPlace, TypeOK
  <2>2. CASE v \in User
    <3>1. DestroyUser(v) /\ Handled(th, v)
      BY <1>a, <2>2 DEF DestroyPlace
    <3>2. \A w \in User \ {v} : user[w].peer = v <=> w = user[v].peer
      BY <2>2, Fields DEF PeersAgree
    <3>3. ready' \subseteq ready
      BY <3>1 DEF Handled
    <3>4. QED
      BY <2>2, <3>1, <3>2, <3>3, DestroyFields
  <2>3. QED
    BY <1>d, <2>1, <2>2
<1>s. /\ shut' \in [Thread -> [at : {"none", "user1", "user2", "clear", "detach",
                                   "down"},
                             sess : Ticket \cup {None}, fired : BOOLEAN]]
      /\ \A other \in Thread \ {th} : shut'[other] = shut[other]
      /\ shut'[th].at = "user2" /\ shut'[th].sess = t
  BY <1>a DEF Goto, TypeOK
<1> HIDE DEF t, v
<1>1. TypeOK'
  BY <1>a, <1>c, <1>e, <1>s DEF TypeOK
<1>2. LinkInv'
  BY <1>a, <1>b, <1>c, <1>d, <1>e, <1>s, Fields
     DEF LinkInv
<1>3. BindInv'
  BY <1>a, <1>b, <1>c, <1>d, <1>e, <1>s, Fields
     DEF BindInv, BeingShut
<1>4. ShutInv'
  BY <1>a, <1>b, <1>c, <1>d, <1>e, <1>s, Fields
     DEF ShutInv
<1>5. QueueInv'
  BY <1>a, <1>b, <1>c, <1>d, <1>e, <1>s, Fields
     DEF QueueInv
<1>6. WaitInv'
  BY <1>a, <1>b, <1>c, <1>d, <1>e, <1>s, Fields
     DEF WaitInv
<1>7. DownInv'
  BY <1>a, <1>b, <1>c, <1>d, <1>e, <1>s, Fields
     DEF DownInv
<1>8. LinkedBack'
  BY <1>a, <1>b, <1>c, <1>d, <1>e, <1>s, Fields
     DEF LinkedBack
<1>9. PeersAgree'
  BY <1>a, <1>b, <1>c, <1>d, <1>e, <1>s, Fields
     DEF PeersAgree
<1>10. ServedComplete'
  <2>1. ASSUME NEW k \in wait \cup served, ~BeingShut(k)
        PROVE  /\ sess'[k].base # None /\ sess'[k].user1 # None
               /\ sess'[k].user2 # None
               /\ user'[sess'[k].user1].peer = sess'[k].user2
    <3>1. k \in Ticket /\ k # t
      BY <1>b, <2>1, Fields
    <3>2. /\ sess[k].base # None /\ sess[k].user1 \in User
          /\ sess[k].user2 \in User
          /\ user[sess[k].user1].peer = sess[k].user2
      BY <2>1, <3>1, Fields DEF ServedComplete
    <3>3. sess[k].user1 # v /\ sess[k].user2 # v
      BY <1>d, <3>1, <3>2 DEF LinkedBack
    <3>4. QED
      BY <1>c, <1>e, <3>1, <3>2, <3>3
  <2>2. \A k : BeingShut(k) => BeingShut(k)'
    BY <1>s DEF BeingShut, t
  <2>3. QED
    BY <1>a, <2>1, <2>2 DEF ServedComplete
<1>11. OwnLoop'
  BY <1>a, <1>b, <1>c, <1>d, <1>e, <1>s, Fields
     DEF OwnLoop, Owner
<1>12. TimersFit'
  BY <1>a, <1>b, <1>c, <1>d, <1>e, <1>s, Fields
     DEF TimersFit
<1>13. QED
  BY <1>1, <1>2, <1>3, <1>4, <1>5, <1>6, <1>7, <1>8, <1>9, <1>10, <1>11, <1>12

\* The second user is destroyed.
LEMMA ShutUser2Step ==
  ASSUME IInv, NEW th \in Thread, ShutUser2(th)
  PROVE  IInv'
<1> USE NoneAssumption, MainAssumption DEF IInv, Thread
<1> DEFINE t == shut[th].sess  v == sess[t].user2
<1>a. /\ shut[th].at = "user2" /\ Goto(th, "clear") /\ DestroyPlace(th, v)
      /\ UNCHANGED <<down, wait, served, phase, bind>>
  BY DEF ShutUser2
<1>b. /\ t \in Ticket /\ sess[t] \in SessRecord /\ sess[t].st # "NONE"
      /\ t \notin down /\ sess[t].base = IF th = Main THEN None ELSE th
      /\ \A other \in Thread \ {th} : shut[other].sess # t
      /\ th # Main => BeingShut(t)
      /\ th = Main => t \notin wait \cup served
      /\ bind.at # "none" =>
           /\ th # Main /\ bind.sess # t /\ bind.user \in User
           /\ user[bind.user].sess # t
  BY <1>a, ShutFacts
<1>c. /\ sess' \in [Ticket -> SessRecord]
      /\ \A k \in Ticket \ {t} : sess'[k] = sess[k]
      /\ sess'[t].st = sess[t].st /\ sess'[t].base = sess[t].base
      /\ sess'[t].user2 = None /\ sess'[t].user1 = sess[t].user1
      /\ sess'[t].tmr = sess[t].tmr
  <2>1. sess[t] \in SessRecord
    BY Fields, <1>a, <1>b
  <2>2. sess' = [sess EXCEPT ![t] = [sess[t] EXCEPT !.user2 = None]]
    BY Fields, <1>a, <1>b DEF ShutUser2
  <2>3. [sess[t] EXCEPT !.user2 = None] \in SessRecord
    BY <2>1, <1>a, <1>b DEF SessRecord, SessStatus
  <2>4. QED
    BY <2>1, <2>2, <2>3, Fields, <1>a, <1>b DEF TypeOK, SessRecord
<1>d. /\ v \in User \cup {None}
      /\ \A w \in User : w = v => user[w].sess = t
      /\ \A w \in User : user[w].sess = t => w \in {v, sess[t].user1}
      /\ v \in User => v # sess[t].user1
      /\ sess[t].user1 = None /\ sess[t].tmr = None
  BY <1>a, <1>b, Fields DEF LinkedBack, PeersAgree, ShutInv
<1>e. /\ user' \in [User -> UserRecord] /\ ready' \subseteq ready
      /\ v \in User =>
           /\ user'[v].st = "FREE" /\ user'[v].sess = None /\ user'[v].peer = None
           /\ user'[v].evt = None /\ user'[v].tmr = None
      /\ \A w \in User \ {v} :
           /\ user'[w].st = user[w].st /\ user'[w].sess = user[w].sess
           /\ user'[w].evt = user[w].evt /\ user'[w].tmr = user[w].tmr
           /\ user'[w].peer = IF user[w].peer = v THEN None ELSE user[w].peer
  <2>1. CASE v = None
    BY <1>a, <2>1, Fields DEF DestroyPlace, TypeOK
  <2>2. CASE v \in User
    <3>1. DestroyUser(v) /\ Handled(th, v)
      BY <1>a, <2>2 DEF DestroyPlace
    <3>2. \A w \in User \ {v} : user[w].peer = v <=> w = user[v].peer
      BY <2>2, Fields DEF PeersAgree
    <3>3. ready' \subseteq ready
      BY <3>1 DEF Handled
    <3>4. QED
      BY <2>2, <3>1, <3>2, <3>3, DestroyFields
  <2>3. QED
    BY <1>d, <2>1, <2>2
<1>s. /\ shut' \in [Thread -> [at : {"none", "user1", "user2", "clear", "detach",
                                   "down"},
                             sess : Ticket \cup {None}, fired : BOOLEAN]]
      /\ \A other \in Thread \ {th} : shut'[other] = shut[other]
      /\ shut'[th].at = "clear" /\ shut'[th].sess = t
  BY <1>a DEF Goto, TypeOK
<1> HIDE DEF t, v
<1>1. TypeOK'
  BY <1>a, <1>c, <1>e, <1>s DEF TypeOK
<1>2. LinkInv'
  BY <1>a, <1>b, <1>c, <1>d, <1>e, <1>s, Fields
     DEF LinkInv
<1>3. BindInv'
  BY <1>a, <1>b, <1>c, <1>d, <1>e, <1>s, Fields
     DEF BindInv, BeingShut
<1>4. ShutInv'
  BY <1>a, <1>b, <1>c, <1>d, <1>e, <1>s, Fields
     DEF ShutInv
<1>5. QueueInv'
  BY <1>a, <1>b, <1>c, <1>d, <1>e, <1>s, Fields
     DEF QueueInv
<1>6. WaitInv'
  BY <1>a, <1>b, <1>c, <1>d, <1>e, <1>s, Fields
     DEF WaitInv
<1>7. DownInv'
  BY <1>a, <1>b, <1>c, <1>d, <1>e, <1>s, Fields
     DEF DownInv
<1>8. LinkedBack'
  BY <1>a, <1>b, <1>c, <1>d, <1>e, <1>s, Fields
     DEF LinkedBack
<1>9. PeersAgree'
  BY <1>a, <1>b, <1>c, <1>d, <1>e, <1>s, Fields
     DEF PeersAgree
<1>10. ServedComplete'
  <2>1. ASSUME NEW k \in wait \cup served, ~BeingShut(k)
        PROVE  /\ sess'[k].base # None /\ sess'[k].user1 # None
               /\ sess'[k].user2 # None
               /\ user'[sess'[k].user1].peer = sess'[k].user2
    <3>1. k \in Ticket /\ k # t
      BY <1>b, <2>1, Fields
    <3>2. /\ sess[k].base # None /\ sess[k].user1 \in User
          /\ sess[k].user2 \in User
          /\ user[sess[k].user1].peer = sess[k].user2
      BY <2>1, <3>1, Fields DEF ServedComplete
    <3>3. sess[k].user1 # v /\ sess[k].user2 # v
      BY <1>d, <3>1, <3>2 DEF LinkedBack
    <3>4. QED
      BY <1>c, <1>e, <3>1, <3>2, <3>3
  <2>2. \A k : BeingShut(k) => BeingShut(k)'
    BY <1>s DEF BeingShut, t
  <2>3. QED
    BY <1>a, <2>1, <2>2 DEF ServedComplete
<1>11. OwnLoop'
  BY <1>a, <1>b, <1>c, <1>d, <1>e, <1>s, Fields
     DEF OwnLoop, Owner
<1>12. TimersFit'
  BY <1>a, <1>b, <1>c, <1>d, <1>e, <1>s, Fields
     DEF TimersFit
<1>13. QED
  BY <1>1, <1>2, <1>3, <1>4, <1>5, <1>6, <1>7, <1>8, <1>9, <1>10, <1>11, <1>12

\* Both places are set to NULL, which they are.
LEMMA ShutClearStep ==
  ASSUME IInv, NEW th \in Thread, ShutClear(th)
  PROVE  IInv'
<1> USE NoneAssumption, MainAssumption DEF IInv, Thread
<1> DEFINE t == shut[th].sess
<1>a. /\ shut[th].at = "clear" /\ Goto(th, "detach")
      /\ UNCHANGED <<user, down, wait, served, phase, ready, bind>>
  BY DEF ShutClear
<1>b. /\ t \in Ticket /\ sess[t] \in SessRecord /\ sess[t].st # "NONE"
      /\ t \notin down /\ sess[t].base = IF th = Main THEN None ELSE th
      /\ \A other \in Thread \ {th} : shut[other].sess # t
      /\ th # Main => BeingShut(t)
      /\ sess[t].base = None => t \notin wait \cup served
      /\ bind.at # "none" => th # Main /\ bind.sess # t
  BY <1>a, ShutFacts
<1>c. /\ sess' \in [Ticket -> SessRecord]
      /\ \A k \in Ticket \ {t} : sess'[k] = sess[k]
      /\ sess'[t].st = sess[t].st /\ sess'[t].base = sess[t].base
      /\ sess'[t].user1 = None /\ sess'[t].user2 = None
      /\ sess'[t].tmr = sess[t].tmr
  <2>1. sess[t] \in SessRecord
    BY Fields, <1>a, <1>b
  <2>2. sess' = [sess EXCEPT ![t] = [sess[t] EXCEPT !.user1 = None, !.user2 = None]]
    BY Fields, <1>a, <1>b DEF ShutClear
  <2>3. [sess[t] EXCEPT !.user1 = None, !.user2 = None] \in SessRecord
    BY <2>1, <1>a, <1>b DEF SessRecord, SessStatus
  <2>4. QED
    BY <2>1, <2>2, <2>3, Fields, <1>a, <1>b DEF TypeOK, SessRecord
<1>d. /\ sess[t].user1 = None /\ sess[t].user2 = None /\ sess[t].tmr = None
      /\ \A w \in User : user[w].sess # t
  BY <1>a, <1>b, Fields DEF LinkedBack, ShutInv
<1>s. /\ shut' \in [Thread -> [at : {"none", "user1", "user2", "clear", "detach",
                                   "down"},
                             sess : Ticket \cup {None}, fired : BOOLEAN]]
      /\ \A other \in Thread \ {th} : shut'[other] = shut[other]
      /\ shut'[th].at = "detach" /\ shut'[th].sess = t
  BY <1>a DEF Goto, TypeOK
<1> HIDE DEF t
<1>1. TypeOK'
  BY <1>a, <1>c, <1>s DEF TypeOK
<1>2. LinkInv'
  BY <1>a, <1>b, <1>c, <1>d, <1>s, Fields
     DEF LinkInv
<1>3. BindInv'
  BY <1>a, <1>b, <1>c, <1>d, <1>s, Fields
     DEF BindInv, BeingShut
<1>4. ShutInv'
  BY <1>a, <1>b, <1>c, <1>d, <1>s, Fields
     DEF ShutInv
<1>5. QueueInv'
  BY <1>a, <1>b, <1>c, <1>d, <1>s, Fields
     DEF QueueInv
<1>6. WaitInv'
  BY <1>a, <1>b, <1>c, <1>d, <1>s, Fields
     DEF WaitInv
<1>7. DownInv'
  BY <1>a, <1>b, <1>c, <1>d, <1>s, Fields
     DEF DownInv
<1>8. LinkedBack'
  BY <1>a, <1>b, <1>c, <1>d, <1>s, Fields
     DEF LinkedBack
<1>9. PeersAgree'
  BY <1>a, <1>b, <1>c, <1>d, <1>s, Fields
     DEF PeersAgree
<1>10. ServedComplete'
  BY <1>a, <1>b, <1>c, <1>d, <1>s, Fields
     DEF ServedComplete, BeingShut
<1>11. OwnLoop'
  BY <1>a, <1>b, <1>c, <1>d, <1>s, Fields
     DEF OwnLoop, Owner
<1>12. TimersFit'
  BY <1>a, <1>b, <1>c, <1>d, <1>s, Fields
     DEF TimersFit
<1>13. QED
  BY <1>1, <1>2, <1>3, <1>4, <1>5, <1>6, <1>7, <1>8, <1>9, <1>10, <1>11, <1>12

\* fwd_session_detach.
LEMMA ShutDetachStep ==
  ASSUME IInv, NEW th \in Thread, ShutDetach(th)
  PROVE  IInv'
<1> USE NoneAssumption, MainAssumption DEF IInv, Thread
<1> DEFINE t == shut[th].sess
<1>a. /\ shut[th].at = "detach" /\ Goto(th, "down")
      /\ UNCHANGED <<user, down, phase, ready, bind>>
  BY DEF ShutDetach
<1>b. /\ t \in Ticket /\ sess[t] \in SessRecord /\ sess[t].st # "NONE"
      /\ t \notin down /\ sess[t].base = IF th = Main THEN None ELSE th
      /\ \A other \in Thread \ {th} : shut[other].sess # t
      /\ th # Main => BeingShut(t)
      /\ sess[t].base = None => t \notin wait \cup served
      /\ bind.at # "none" => th # Main /\ bind.sess # t
  BY <1>a, ShutFacts
<1>c. /\ sess' \in [Ticket -> SessRecord]
      /\ \A k \in Ticket \ {t} : sess'[k] = sess[k]
      /\ sess'[t].st = sess[t].st /\ sess'[t].base = None
      /\ sess'[t].user1 = sess[t].user1 /\ sess'[t].user2 = sess[t].user2
      /\ sess'[t].tmr = sess[t].tmr
  <2>1. sess[t] \in SessRecord
    BY Fields, <1>a, <1>b
  <2>2. sess' = [sess EXCEPT ![t] = [sess[t] EXCEPT !.base = None]]
    BY Fields, <1>a, <1>b DEF ShutDetach
  <2>3. [sess[t] EXCEPT !.base = None] \in SessRecord
    BY <2>1, <1>a, <1>b DEF SessRecord, SessStatus
  <2>4. QED
    BY <2>1, <2>2, <2>3, Fields, <1>a, <1>b DEF TypeOK, SessRecord
<1>d. /\ sess[t].user1 = None /\ sess[t].user2 = None /\ sess[t].tmr = None
      /\ \A w \in User : user[w].sess # t
  BY <1>a, <1>b, Fields DEF LinkedBack, ShutInv
<1>e. served' = served \ {t} /\ wait' = wait \ {t}
  BY <1>b DEF ShutDetach
<1>s. /\ shut' \in [Thread -> [at : {"none", "user1", "user2", "clear", "detach",
                                   "down"},
                             sess : Ticket \cup {None}, fired : BOOLEAN]]
      /\ \A other \in Thread \ {th} : shut'[other] = shut[other]
      /\ shut'[th].at = "down" /\ shut'[th].sess = t
  BY <1>a DEF Goto, TypeOK
<1> HIDE DEF t
<1>1. TypeOK'
  BY <1>a, <1>c, <1>e, <1>s DEF TypeOK
<1>2. LinkInv'
  BY <1>a, <1>b, <1>c, <1>d, <1>e, <1>s, Fields
     DEF LinkInv
<1>3. BindInv'
  BY <1>a, <1>b, <1>c, <1>d, <1>e, <1>s, Fields
     DEF BindInv, BeingShut
<1>4. ShutInv'
  BY <1>a, <1>b, <1>c, <1>d, <1>e, <1>s, Fields
     DEF ShutInv
<1>5. QueueInv'
  BY <1>a, <1>b, <1>c, <1>d, <1>e, <1>s, Fields
     DEF QueueInv
<1>6. WaitInv'
  BY <1>a, <1>b, <1>c, <1>d, <1>e, <1>s, Fields
     DEF WaitInv
<1>7. DownInv'
  BY <1>a, <1>b, <1>c, <1>d, <1>e, <1>s, Fields
     DEF DownInv
<1>8. LinkedBack'
  BY <1>a, <1>b, <1>c, <1>d, <1>e, <1>s, Fields
     DEF LinkedBack
<1>9. PeersAgree'
  BY <1>a, <1>b, <1>c, <1>d, <1>e, <1>s, Fields
     DEF PeersAgree
<1>10. ServedComplete'
  BY <1>a, <1>b, <1>c, <1>d, <1>e, <1>s, Fields
     DEF ServedComplete, BeingShut
<1>11. OwnLoop'
  BY <1>a, <1>b, <1>c, <1>d, <1>e, <1>s, Fields
     DEF OwnLoop, Owner
<1>12. TimersFit'
  BY <1>a, <1>b, <1>c, <1>d, <1>e, <1>s, Fields
     DEF TimersFit
<1>13. QED
  BY <1>1, <1>2, <1>3, <1>4, <1>5, <1>6, <1>7, <1>8, <1>9, <1>10, <1>11, <1>12

\* The session is put down, or freed.
LEMMA ShutDownStep ==
  ASSUME IInv, NEW th \in Thread, ShutDown(th)
  PROVE  IInv'
<1> USE NoneAssumption, MainAssumption DEF IInv, Thread
<1> DEFINE t == shut[th].sess
<1>a. /\ shut[th].at = "down" /\ shut' = [shut EXCEPT ![th] = NotShutting]
      /\ UNCHANGED <<user, wait, served, phase, ready, bind>>
  BY DEF ShutDown
<1>b. /\ t \in Ticket /\ sess[t] \in SessRecord /\ sess[t].st # "NONE"
      /\ t \notin down /\ sess[t].base = None
      /\ \A other \in Thread \ {th} : shut[other].sess # t
      /\ th # Main => BeingShut(t)
      /\ sess[t].base = None => t \notin wait \cup served
      /\ bind.at # "none" => th # Main /\ bind.sess # t
  BY <1>a, ShutFacts
<1>d. /\ sess[t].user1 = None /\ sess[t].user2 = None /\ sess[t].tmr = None
      /\ \A w \in User : user[w].sess # t
  BY <1>a, <1>b, Fields DEF LinkedBack, ShutInv
<1>c. /\ sess' \in [Ticket -> SessRecord] /\ down' \subseteq Ticket
      /\ \A k \in Ticket \ {t} : sess'[k] = sess[k] /\ (k \in down' <=> k \in down)
      /\ sess'[t].user1 = None /\ sess'[t].user2 = None /\ sess'[t].tmr = None
      /\ sess'[t].base = None
      /\ t \in down' => sess'[t].st # "NONE"
  <2>1. CASE shut[th].fired
    <3>1. NoSession \in SessRecord
      BY DEF NoSession, SessRecord, SessStatus
    <3>2. sess' = [sess EXCEPT ![t] = NoSession] /\ down' = down \ {t}
      BY <2>1 DEF ShutDown
    <3>3. QED
      BY <1>b, <3>1, <3>2, Fields DEF NoSession, TypeOK
  <2>2. CASE ~shut[th].fired
    <3>1. sess' = sess /\ down' = down \cup {t}
      BY <2>2 DEF ShutDown
    <3>2. QED
      BY <1>b, <1>d, <3>1, Fields DEF TypeOK
  <2>3. QED
    BY <2>1, <2>2
<1>s. /\ shut' \in [Thread -> [at : {"none", "user1", "user2", "clear", "detach",
                                   "down"},
                             sess : Ticket \cup {None}, fired : BOOLEAN]]
      /\ \A other \in Thread \ {th} : shut'[other] = shut[other]
      /\ shut'[th].at = "none" /\ shut'[th].sess = None
  BY <1>a DEF NotShutting, TypeOK
<1> HIDE DEF t
<1>1. TypeOK'
  BY <1>a, <1>c, <1>s DEF TypeOK
<1>2. LinkInv'
  BY <1>a, <1>b, <1>d, <1>c, <1>s, Fields
     DEF LinkInv
<1>3. BindInv'
  BY <1>a, <1>b, <1>d, <1>c, <1>s, Fields
     DEF BindInv, BeingShut
<1>4. ShutInv'
  BY <1>a, <1>b, <1>d, <1>c, <1>s, Fields
     DEF ShutInv
<1>5. QueueInv'
  BY <1>a, <1>b, <1>d, <1>c, <1>s, Fields
     DEF QueueInv
<1>6. WaitInv'
  BY <1>a, <1>b, <1>d, <1>c, <1>s, Fields
     DEF WaitInv
<1>7. DownInv'
  BY <1>a, <1>b, <1>d, <1>c, <1>s, Fields
     DEF DownInv
<1>8. LinkedBack'
  BY <1>a, <1>b, <1>d, <1>c, <1>s, Fields
     DEF LinkedBack
<1>9. PeersAgree'
  BY <1>a, <1>b, <1>d, <1>c, <1>s, Fields
     DEF PeersAgree
<1>10. ServedComplete'
  BY <1>a, <1>b, <1>d, <1>c, <1>s, Fields
     DEF ServedComplete, BeingShut
<1>11. OwnLoop'
  BY <1>a, <1>b, <1>d, <1>c, <1>s, Fields
     DEF OwnLoop, Owner
<1>12. TimersFit'
  BY <1>a, <1>b, <1>d, <1>c, <1>s, Fields
     DEF TimersFit
<1>13. QED
  BY <1>1, <1>2, <1>3, <1>4, <1>5, <1>6, <1>7, <1>8, <1>9, <1>10, <1>11, <1>12

\* The thread in whose loop something happens to a user owns its session.
LEMMA OwnsSession ==
  ASSUME IInv, NEW th \in Thread, NEW u \in User, Idle(th),
         user[u].sess # None, user[u].evt = th \/ user[u].tmr = th,
         th = Main => phase = "timeouts" \/ u \in ready
  PROVE  LET t == user[u].sess IN
         /\ t \in Ticket /\ sess[t].st # "NONE" /\ t \notin down
         /\ sess[t].base = IF th = Main THEN None ELSE th
         /\ \A other \in Thread : shut[other].sess # t
<1> USE NoneAssumption, MainAssumption DEF IInv, Thread
<1> DEFINE t == user[u].sess
<1>1. CASE th \in Child
  BY <1>1, EstFacts DEF Idle
<1>2. CASE th = Main
  <2>1. t \in Ticket /\ sess[t].base = None /\ shut[Main].at = "none"
    BY <1>2, Fields DEF OwnLoop, Owner, Idle
  <2>2. u \in {sess[t].user1, sess[t].user2}
    BY <2>1 DEF LinkedBack
  <2>3. sess[t].st # "NONE" /\ t \notin down
    BY <1>2, <2>1, <2>2 DEF LinkInv, DownInv
  <2>4. \A other \in Thread : shut[other].sess # t
    BY <2>1, <2>2 DEF ShutInv
  <2>5. QED
    BY <1>2, <2>1, <2>3, <2>4
<1>3. QED
  BY <1>1, <1>2

\* ... and begins to shut it down when the user is at its end.
LEMMA EndSession ==
  ASSUME IInv, NEW th \in Thread, NEW u \in User, Idle(th),
         user[u].sess # None, user[u].evt = th \/ user[u].tmr = th,
         th = Main => phase = "timeouts" \/ u \in ready,
         Shutdown(th, user[u].sess, FALSE),
         \/ user' = user
         \/ user' = [user EXCEPT ![u].evt = None]
         \/ user' = [user EXCEPT ![u].tmr = None],
         ready' \subseteq ready,
         UNCHANGED <<sess, down, wait, served, phase, bind>>
  PROVE  IInv'
<1> USE DEF IInv
<1>1. /\ user' \in [User -> UserRecord]
      /\ \A v \in User :
           /\ user'[v].st = user[v].st /\ user'[v].sess = user[v].sess
           /\ user'[v].peer = user[v].peer
           /\ user'[v].evt \in {user[v].evt, None}
           /\ user'[v].tmr \in {user[v].tmr, None}
  <2>1. user[u] \in UserRecord /\ user \in [User -> UserRecord]
    BY Fields DEF TypeOK
  <2>2. QED
    BY <2>1 DEF UserRecord
<1>2. LET t == user[u].sess IN
      /\ t \in Ticket /\ sess[t].st # "NONE" /\ t \notin down
      /\ sess[t].base = IF th = Main THEN None ELSE th
      /\ \A other \in Thread : shut[other].sess # t
  BY OwnsSession
<1>3. /\ sess' \in [Ticket -> SessRecord]
      /\ \A k \in Ticket : sess'[k] = sess[k]
  BY DEF TypeOK
<1> HIDE DEF IInv
<1>4. QED
  BY <1>1, <1>2, <1>3, ShutdownBegins

\* A user without a session is in the main thread's loop.
LEMMA InMain ==
  ASSUME IInv, NEW th \in Thread, NEW u \in User, Idle(th),
         user[u].sess = None, user[u].evt = th \/ user[u].tmr = th
  PROVE  bind.at = "none"
  BY NoneAssumption, MainAssumption DEF IInv, Thread, OwnLoop, Owner, Idle

\* user_event_clean.
LEMMA CleanDoneStep ==
  ASSUME IInv, NEW th \in Thread, NEW u \in User, CleanDone(th, u)
  PROVE  IInv'
<1>1. /\ Idle(th) /\ user[u].evt = th
      /\ th = Main => u \in ready
      /\ ready' \subseteq ready
      /\ UNCHANGED <<sess, down, wait, served, phase, bind>>
  BY DEF CleanDone, InEvents, Handled
<1>2. CASE user[u].sess # None
  BY <1>1, <1>2, EndSession DEF CleanDone, EndUser
<1>3. CASE user[u].sess = None
  <2>1. bind.at = "none"
    BY <1>1, <1>3, InMain
  <2>2. DestroyUser(u) /\ UNCHANGED shut
    BY <1>3 DEF CleanDone, EndUser
  <2>3. QED
    BY <1>1, <1>3, <2>1, <2>2, DestroyAlone
<1>4. QED
  BY <1>2, <1>3

\* EPOLLERR or EPOLLHUP.
LEMMA EventErrorStep ==
  ASSUME IInv, NEW th \in Thread, NEW u \in User, EventError(th, u)
  PROVE  IInv'
<1>1. /\ Idle(th) /\ user[u].evt = th
      /\ th = Main => u \in ready
      /\ ready' \subseteq ready
      /\ UNCHANGED <<sess, down, wait, served, phase, bind>>
  BY DEF EventError, InEvents, Handled
<1>2. CASE user[u].sess # None
  BY <1>1, <1>2, EndSession DEF EventError
<1>3. CASE user[u].sess = None
  <2>1. bind.at = "none"
    BY <1>1, <1>3, InMain
  <2>2. DestroyUser(u) /\ UNCHANGED shut
    BY <1>3 DEF EventError
  <2>3. QED
    BY <1>1, <1>3, <2>1, <2>2, DestroyAlone
<1>4. QED
  BY <1>2, <1>3

\* user_timeout_clean.
LEMMA TimeoutCleanStep ==
  ASSUME IInv, NEW th \in Thread, NEW u \in User, TimeoutClean(th, u)
  PROVE  IInv'
<1>1. /\ Idle(th) /\ user[u].tmr = th
      /\ th = Main => phase = "timeouts"
      /\ ready' \subseteq ready
      /\ UNCHANGED <<sess, down, wait, served, phase, bind>>
  BY DEF TimeoutClean, InTimeouts
<1>2. CASE user[u].sess # None
  BY <1>1, <1>2, EndSession DEF TimeoutClean
<1>3. CASE user[u].sess = None
  <2>1. bind.at = "none"
    BY <1>1, <1>3, InMain
  <2>2. DestroyUser(u) /\ UNCHANGED shut
    BY <1>3 DEF TimeoutClean
  <2>3. QED
    BY <1>1, <1>3, <2>1, <2>2, DestroyAlone
<1>4. QED
  BY <1>2, <1>3

\* u fails and nothing is left to be sent.
LEMMA EstFailsStep ==
  ASSUME IInv, NEW c \in Child, NEW u \in User, EstFails(c, u)
  PROVE  IInv'
<1>1. /\ Idle(c) /\ user[u].evt = c /\ c \in Thread /\ c # Main
      /\ Shutdown(c, user[u].sess, FALSE)
      /\ UNCHANGED <<user, sess, down, wait, served, phase, ready, bind>>
  BY MainAssumption DEF EstFails, InEvents, Thread
<1>2. user[u].sess # None
  BY <1>1, NoneAssumption, MainAssumption DEF IInv, OwnLoop, Owner
<1>3. QED
  BY <1>1, <1>2, EndSession

\* A session times out that a child serves.
LEMMA SessTimeoutStep ==
  ASSUME IInv, NEW c \in Child, NEW t \in Ticket, SessTimeout(c, t)
  PROVE  IInv'
<1> USE NoneAssumption, MainAssumption DEF IInv, Thread
<1>1. /\ Idle(c) /\ sess[t].tmr = c
      /\ sess[t].st \in {"EST", "CLEAN"}
      /\ sess' = [sess EXCEPT ![t].tmr = None]
      /\ Shutdown(c, t, FALSE)
      /\ UNCHANGED <<user, down, wait, served, phase, ready, bind>>
  BY DEF SessTimeout, InTimeouts
<1>2. /\ sess[t].st # "NONE" /\ t \notin down
      /\ sess[t].base = IF c = Main THEN None ELSE c
  BY <1>1, Fields DEF OwnLoop, DownInv, LinkInv
<1>3. \A other \in Thread : shut[other].sess # t
  BY <1>1, <1>2 DEF ShutInv, Idle
<1>4. /\ sess' \in [Ticket -> SessRecord]
      /\ \A k \in Ticket :
           /\ sess'[k].st = sess[k].st /\ sess'[k].base = sess[k].base
           /\ sess'[k].user1 = sess[k].user1
           /\ sess'[k].user2 = sess[k].user2
           /\ sess'[k].tmr \in {sess[k].tmr, None}
  BY <1>1, Fields DEF TypeOK, SessRecord
<1>5. user' \in [User -> UserRecord] /\ \A v \in User : user'[v] = user[v]
  BY <1>1 DEF TypeOK
<1> HIDE DEF IInv
<1>6. QED
  BY <1>1, <1>2, <1>3, <1>4, <1>5, ShutdownBegins

\* A ticket times out that nobody presented.
LEMMA SessTimeoutInitStep ==
  ASSUME IInv, NEW t \in Ticket, SessTimeoutInit(t)
  PROVE  IInv'
<1> USE NoneAssumption, MainAssumption DEF IInv, Thread
<1>1. /\ Idle(Main) /\ sess[t].tmr = Main
      /\ sess[t].st = "INITED"
      /\ sess' = [sess EXCEPT ![t].tmr = None]
      /\ Shutdown(Main, t, TRUE)
      /\ UNCHANGED <<user, down, wait, served, phase, ready, bind>>
  BY DEF SessTimeoutInit, InTimeouts
<1>2. /\ sess[t].st # "NONE" /\ t \notin down
      /\ sess[t].base = IF Main = Main THEN None ELSE Main
  BY <1>1, Fields DEF OwnLoop, DownInv, LinkInv
<1>3. \A other \in Thread : shut[other].sess # t
  BY <1>1, <1>2 DEF ShutInv, Idle
<1>4. /\ sess' \in [Ticket -> SessRecord]
      /\ \A k \in Ticket :
           /\ sess'[k].st = sess[k].st /\ sess'[k].base = sess[k].base
           /\ sess'[k].user1 = sess[k].user1
           /\ sess'[k].user2 = sess[k].user2
           /\ sess'[k].tmr \in {sess[k].tmr, None}
  BY <1>1, Fields DEF TypeOK, SessRecord
<1>5. user' \in [User -> UserRecord] /\ \A v \in User : user'[v] = user[v]
  BY <1>1 DEF TypeOK
<1> HIDE DEF IInv
<1>6. QED
  BY <1>1, <1>2, <1>3, <1>4, <1>5, ShutdownBegins

-----------------------------------------------------------------------------
(* The invariant.                                                          *)

\* Nothing is there at the start.
LEMMA InitIInv ==
  ASSUME Init
  PROVE  IInv
<1> USE NoneAssumption, MainAssumption DEF Init
<1>1. NoUser \in UserRecord /\ NoSession \in SessRecord
  BY DEF NoUser, NoSession, UserRecord, SessRecord, UserStatus, SessStatus
<1>2. TypeOK
  BY <1>1 DEF TypeOK, NotBinding, NotShutting
<1>3. LinkInv /\ BindInv
  BY DEF LinkInv, BindInv, NoUser, NoSession, NotBinding
<1>4. ShutInv
  BY DEF ShutInv, NotShutting
<1>5. QueueInv /\ WaitInv /\ DownInv /\ ServedComplete
  BY DEF QueueInv, WaitInv, DownInv, ServedComplete, NoSession, NoUser
<1>6. LinkedBack /\ PeersAgree
  BY DEF LinkedBack, PeersAgree, NoUser, NoSession
<1>7. OwnLoop /\ TimersFit
  BY DEF OwnLoop, TimersFit, Owner, NoUser, NoSession
<1>8. QED
  BY <1>2, <1>3, <1>4, <1>5, <1>6, <1>7 DEF IInv

\* Every step of every thread preserves it when no ticket is presented of a
\* session that a child is shutting down.
LEMMA NextIInv ==
  ASSUME Overlap = FALSE, IInv, [Next]_vars
  PROVE  IInv'
<1>1. CASE Drain \/ EpollWait \/ EventsHandled
  BY <1>1, DrainStep, EpollWaitStep, EventsHandledStep
<1>2. CASE Environment
  BY <1>2, AcceptStep, TicketInStep DEF Environment
<1>3. CASE MainEvent
  <2>1. PICK u \in User :
          \/ EventNothing(u) \/ AcceptedEnds(u) \/ AuthInvalid(u)
          \/ AuthNoBody(u) \/ CleanDone(Main, u) \/ EventError(Main, u)
          \/ \E t \in Ticket : AuthUser(u, t)
    BY <1>3 DEF MainEvent
  <2>2. Main \in Thread
    BY DEF Thread
  <2>3. QED
    BY <2>1, <2>2, EventNothingStep, AcceptedEndsStep, AuthInvalidStep,
       AuthNoBodyStep, CleanDoneStep, EventErrorStep, AuthUserStep
<1>4. CASE BindStep
  BY <1>4, BindAttachStep, BindWaitStep, BindPairStep DEF BindStep
<1>5. CASE \E t \in Ticket : SessTimeoutInit(t)
  BY <1>5, SessTimeoutInitStep
<1>6. ASSUME NEW th \in Thread, ShutStep(th)
      PROVE  IInv'
  BY <1>6, ShutUser1Step, ShutUser2Step, ShutClearStep, ShutDetachStep,
     ShutDownStep DEF ShutStep
<1>7. ASSUME NEW th \in Thread, NEW u \in User, UserTimeout(th, u)
      PROVE  IInv'
  BY <1>7, TimeoutToCleanStep, TimeoutCleanStep DEF UserTimeout
<1>8. ASSUME NEW c \in Child, ChildEvent(c)
      PROVE  IInv'
  <2>1. PICK u \in User :
          \/ EstRelay(c, u) \/ EstFailsFlush(c, u) \/ EstFails(c, u)
          \/ CleanDone(c, u) \/ EventError(c, u)
    BY <1>8 DEF ChildEvent
  <2>2. c \in Thread
    BY DEF Thread
  <2>3. QED
    BY <2>1, <2>2, EstRelayStep, EstFailsFlushStep, EstFailsStep,
       CleanDoneStep, EventErrorStep
<1>9. ASSUME NEW c \in Child, NEW t \in Ticket,
             TakeSession(c, t) \/ SessTimeout(c, t)
      PROVE  IInv'
  BY <1>9, TakeSessionStep, SessTimeoutStep
<1>10. CASE UNCHANGED vars
  BY <1>10
     DEF vars, IInv, TypeOK, LinkInv, BindInv, BeingShut, ShutInv, QueueInv,
         WaitInv, DownInv, LinkedBack, PeersAgree, ServedComplete, OwnLoop,
         Owner, TimersFit
<1>11. QED
  BY <1>1, <1>2, <1>3, <1>4, <1>5, <1>6, <1>7, <1>8, <1>9, <1>10 DEF Next

-----------------------------------------------------------------------------
(* The theorems.                                                           *)

\* IInv is an invariant of the users and sessions of the forward server, for
\* any number of connections, tickets and child threads, as long as no client
\* presents a ticket in the middle of fwd_session_shutdown.
THEOREM Invariance ==
  ASSUME Overlap = FALSE
  PROVE  Spec => []IInv
<1>1. Init => IInv
  BY InitIInv
<1>2. IInv /\ [Next]_vars => IInv'
  BY NextIInv
<1>3. QED
  BY <1>1, <1>2, PTL DEF Spec

\* Users, sessions, queues and the threads' progress keep their types.
THEOREM TypeCorrect ==
  ASSUME Overlap = FALSE
  PROVE  Spec => []TypeOK
<1>1. IInv => TypeOK
  BY DEF IInv
<1>2. QED
  BY <1>1, Invariance, PTL

\* The assertion of fwd_user_detach: users and sessions point at each other, so
\* that no freed user is reached through a session.
THEOREM LinksBack ==
  ASSUME Overlap = FALSE
  PROVE  Spec => []LinkedBack
<1>1. IInv => LinkedBack
  BY DEF IInv
<1>2. QED
  BY <1>1, Invariance, PTL

\* Peers point at each other, and are two users of one session.
THEOREM PeersMutual ==
  ASSUME Overlap = FALSE
  PROVE  Spec => []PeersAgree
<1>1. IInv => PeersAgree
  BY DEF IInv
<1>2. QED
  BY <1>1, Invariance, PTL

\* The assertions of sess_timeout_est and fwd_child_handle: a session that a
\* child has, and does not end, has two users that are each other's peer.
THEOREM ServedInPairs ==
  ASSUME Overlap = FALSE
  PROVE  Spec => []ServedComplete
<1>1. IInv => ServedComplete
  BY DEF IInv
<1>2. QED
  BY <1>1, Invariance, PTL

\* No thread has an event or a timer of a user or session that another thread
\* owns, so that users and sessions need no lock.
THEOREM OneLoop ==
  ASSUME Overlap = FALSE
  PROVE  Spec => []OwnLoop
<1>1. IInv => OwnLoop
  BY DEF IInv
<1>2. QED
  BY <1>1, Invariance, PTL

\* A session is on one dt_queue at most, and on none when fwd_main_session_down
\* inserts it.
THEOREM OneQueue ==
  ASSUME Overlap = FALSE
  PROVE  Spec => []QueuedOnce
<1>1. IInv => QueuedOnce
  <2> SUFFICES ASSUME IInv PROVE QueuedOnce
    OBVIOUS
  <2>1. /\ down \cap wait = {} /\ down \cap served = {}
        /\ wait \cap served = {}
    BY Fields DEF IInv, QueueInv, DownInv
  <2>2. ASSUME NEW th \in Thread, shut[th].at = "down"
        PROVE  shut[th].sess \notin down \cup wait \cup served
    BY <2>2, ShutFacts
  <2>3. QED
    BY <2>1, <2>2 DEF QueuedOnce
<1>2. QED
  BY <1>1, Invariance, PTL

\* An established user has no timer, and a session has one in the main thread
\* only while its ticket may be presented.
THEOREM TimersRight ==
  ASSUME Overlap = FALSE
  PROVE  Spec => []TimersFit
<1>1. IInv => TimersFit
  BY DEF IInv
<1>2. QED
  BY <1>1, Invariance, PTL

=============================================================================
