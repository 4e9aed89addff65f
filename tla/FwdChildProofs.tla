--------------------------- MODULE FwdChildProofs ---------------------------
(***************************************************************************)
(* Proofs about FwdChild, for any number of children and sessions: the     *)
(* invariant IInv is inductive, hence the types are right, the counters    *)
(* match the queues and no session is stranded.                            *)
(***************************************************************************)
EXTENDS FwdChild, FiniteSetTheorems, TLAPS

\* Child 0, where main_choose_child begins, exists.
LEMMA ZeroIsChild == 0 \in Child
  BY NChildAssumption DEF Child

\* The cardinality of a queue, and how adding and removing one session
\* changes it.
LEMMA QueueCardinality ==
  ASSUME NEW Q \in SUBSET Sess, NEW s \in Sess
  PROVE  /\ Cardinality(Q) \in Nat
         /\ s \notin Q => Cardinality(Q \cup {s}) = Cardinality(Q) + 1
         /\ s \in Q => /\ Cardinality(Q) >= 1
                       /\ Cardinality(Q \ {s}) = Cardinality(Q) - 1
         /\ Cardinality({}) = 0
<1>1. IsFiniteSet(Q)
  BY SessAssumption, FS_Subset
<1>2. Cardinality(Q) \in Nat
  BY <1>1, FS_CardinalityType
<1>3. s \notin Q => Cardinality(Q \cup {s}) = Cardinality(Q) + 1
  BY <1>1, FS_AddElement
<1>4. s \in Q => Cardinality(Q \ {s}) = Cardinality(Q) - 1
  BY <1>1, FS_RemoveElement
<1>5. s \in Q => Cardinality(Q) >= 1
  <2>1. s \in Q => Cardinality(Q) # 0
    BY <1>1, FS_EmptySet
  <2>2. QED
    BY <2>1, <1>2
<1>6. QED
  BY <1>2, <1>3, <1>4, <1>5, FS_EmptySet

\* fwd_child_init establishes the invariant.
LEMMA InitIInv == Init => IInv
<1> SUFFICES ASSUME Init PROVE IInv
  OBVIOUS
<1> USE DEF Init
<1>1. TypeOK
  BY ZeroIsChild, NChildAssumption, CreateFailAssumption
     DEF TypeOK, ChildStatus, ThreadPc, MainPc
<1>2. ThreadInv
  BY DEF ThreadInv
<1>3. HandoverInv
  BY DEF HandoverInv
<1>4. CountersMatch
  BY FS_EmptySet DEF CountersMatch
<1>5. NoSessionStranded
  BY DEF NoSessionStranded
<1>6. QED
  BY <1>1, <1>2, <1>3, <1>4, <1>5 DEF IInv

\* Every step preserves the invariant.
LEMMA NextIInv == IInv /\ [Next]_vars => IInv'
<1> SUFFICES ASSUME IInv, [Next]_vars PROVE IInv'
  OBVIOUS
<1> USE DEF IInv, vars, childVars, mainVars
<1>1. ASSUME NEW s \in Sess, ReleaseCtrl(s) PROVE IInv'
  <2>1. TypeOK'
    BY <1>1, ZeroIsChild, NChildAssumption
       DEF ReleaseCtrl, TypeOK, ChildStatus, ThreadPc, MainPc, Total
  <2>2. ThreadInv'
    BY <1>1 DEF ReleaseCtrl, TypeOK, ThreadInv
  <2>3. HandoverInv'
    BY <1>1 DEF ReleaseCtrl, TypeOK, ThreadInv, HandoverInv, Queued
  <2>4. CountersMatch'
    BY <1>1 DEF ReleaseCtrl, TypeOK, ThreadInv, CountersMatch
  <2>5. NoSessionStranded'
    BY <1>1 DEF ReleaseCtrl, TypeOK, ChildStatus, ThreadPc, MainPc, ThreadInv,
       NoSessionStranded, ServiceComing, InLoop
  <2>6. QED
    BY <2>1, <2>2, <2>3, <2>4, <2>5
<1>2. CASE ChooseChild
  <2>0. i \in Child /\ Total(i) \in Nat /\ i + 1 \in 1 .. NChild
    BY <1>2, NChildAssumption DEF ChooseChild, TypeOK, Total, Child
  <2>1. TypeOK'
    BY <1>2, <2>0 DEF ChooseChild, TypeOK, ChildStatus, ThreadPc, MainPc
  <2>2. ThreadInv'
    BY <1>2 DEF ChooseChild, TypeOK, ThreadInv
  <2>3. HandoverInv'
    BY <1>2 DEF ChooseChild, TypeOK, ThreadInv, HandoverInv
  <2>4. CountersMatch'
    BY <1>2 DEF ChooseChild, TypeOK, ThreadInv, CountersMatch
  <2>5. NoSessionStranded'
    BY <1>2 DEF ChooseChild, TypeOK, ChildStatus, ThreadPc, MainPc, ThreadInv,
       NoSessionStranded, ServiceComing, InLoop
  <2>6. QED
    BY <2>1, <2>2, <2>3, <2>4, <2>5
<1>3. CASE ChooseDone
  BY <1>3 DEF ChooseDone, TypeOK, ChildStatus, ThreadPc, MainPc,
     ThreadInv, HandoverInv, CountersMatch, NoSessionStranded, ServiceComing,
     InLoop
<1>4. CASE SessionAttach
  <2>0. Cardinality(wait[fc] \cup {msess}) = Cardinality(wait[fc]) + 1
    BY <1>4, QueueCardinality DEF SessionAttach, TypeOK, HandoverInv
  <2>1. TypeOK'
    BY <1>4
       DEF SessionAttach, TypeOK, ChildStatus, ThreadPc, MainPc, HandoverInv
  <2>2. ThreadInv'
    BY <1>4 DEF SessionAttach, TypeOK, ThreadInv
  <2>3. HandoverInv'
    BY <1>4 DEF SessionAttach, TypeOK, ThreadInv, HandoverInv
  <2>4. CountersMatch'
    BY <1>4, <2>0 DEF SessionAttach, TypeOK, ThreadInv, CountersMatch
  <2>5. NoSessionStranded'
    BY <1>4 DEF SessionAttach, TypeOK, ChildStatus, ThreadPc, MainPc, ThreadInv,
       NoSessionStranded, ServiceComing, InLoop
  <2>6. QED
    BY <2>1, <2>2, <2>3, <2>4, <2>5
<1>5. CASE CheckStopped
  BY <1>5 DEF CheckStopped, TypeOK, ChildStatus, ThreadPc, MainPc,
     ThreadInv, HandoverInv, CountersMatch, NoSessionStranded, ServiceComing,
     InLoop
<1>6. CASE ChildStop
  BY <1>6 DEF ChildStop, TypeOK, ChildStatus, ThreadPc, MainPc,
     ThreadInv, HandoverInv, CountersMatch, NoSessionStranded, ServiceComing,
     InLoop
<1>7. CASE ChildJoin
  BY <1>7 DEF ChildJoin, TypeOK, ChildStatus, ThreadPc, MainPc,
     ThreadInv, HandoverInv, CountersMatch, NoSessionStranded, ServiceComing,
     InLoop
<1>8. CASE ChildCreate
  <2>1. TypeOK'
    BY <1>8 DEF ChildCreate, TypeOK, ChildStatus, ThreadPc, MainPc
  <2>2. ThreadInv'
    BY <1>8 DEF ChildCreate, TypeOK, ThreadInv, HandoverInv
  <2>3. HandoverInv'
    BY <1>8 DEF ChildCreate, TypeOK, ThreadInv, HandoverInv
  <2>4. CountersMatch'
    BY <1>8 DEF ChildCreate, TypeOK, ThreadInv, CountersMatch, HandoverInv
  <2>5. NoSessionStranded'
    BY <1>8 DEF ChildCreate, TypeOK, ChildStatus, ThreadPc, MainPc, ThreadInv,
       NoSessionStranded, ServiceComing, InLoop
  <2>6. QED
    BY <2>1, <2>2, <2>3, <2>4, <2>5
<1>9. CASE ChildCreateFails
  <2>1. TypeOK'
    BY <1>9, CreateFailAssumption
       DEF ChildCreateFails, TypeOK, ChildStatus, ThreadPc, MainPc
  <2>2. ThreadInv'
    BY <1>9 DEF ChildCreateFails, TypeOK, ThreadInv
  <2>3. HandoverInv'
    BY <1>9 DEF ChildCreateFails, TypeOK, ThreadInv, HandoverInv
  <2>4. CountersMatch'
    BY <1>9 DEF ChildCreateFails, TypeOK, ThreadInv, CountersMatch
  <2>5. NoSessionStranded'
    BY <1>9
       DEF ChildCreateFails, TypeOK, ChildStatus, ThreadPc, MainPc, ThreadInv,
       NoSessionStranded, ServiceComing, InLoop
  <2>6. QED
    BY <2>1, <2>2, <2>3, <2>4, <2>5
<1>10. CASE DrainDown
  BY <1>10 DEF DrainDown, TypeOK, ChildStatus, ThreadPc, MainPc,
     ThreadInv, HandoverInv, CountersMatch, NoSessionStranded, ServiceComing,
     InLoop
<1>11. ASSUME NEW c \in Child, ThreadEntry(c) PROVE IInv'
  BY <1>11 DEF ThreadEntry, TypeOK, ChildStatus, ThreadPc, MainPc,
     ThreadInv, HandoverInv, CountersMatch, NoSessionStranded, ServiceComing,
     InLoop
<1>12. ASSUME NEW c \in Child, CallbackStopped(c) PROVE IInv'
  BY <1>12 DEF CallbackStopped, TypeOK, ChildStatus, ThreadPc, MainPc,
     ThreadInv, HandoverInv, CountersMatch, NoSessionStranded, ServiceComing,
     InLoop
<1>13. ASSUME NEW c \in Child, CallbackLock(c) PROVE IInv'
  BY <1>13 DEF CallbackLock, TypeOK, ChildStatus, ThreadPc, MainPc,
     ThreadInv, HandoverInv, CountersMatch, NoSessionStranded, ServiceComing,
     InLoop
<1>14. ASSUME NEW c \in Child, CallbackEmpty(c) PROVE IInv'
  BY <1>14 DEF CallbackEmpty, TypeOK, ChildStatus, ThreadPc, MainPc,
     ThreadInv, HandoverInv, CountersMatch, NoSessionStranded, ServiceComing,
     InLoop
<1>15. ASSUME NEW c \in Child, CallbackExit(c) PROVE IInv'
  BY <1>15 DEF CallbackExit, TypeOK, ChildStatus, ThreadPc, MainPc,
     ThreadInv, HandoverInv, CountersMatch, NoSessionStranded, ServiceComing,
     InLoop
<1>16. ASSUME NEW c \in Child, CallbackNothing(c) PROVE IInv'
  BY <1>16 DEF CallbackNothing, TypeOK, ChildStatus, ThreadPc, MainPc,
     ThreadInv, HandoverInv, CountersMatch, NoSessionStranded, ServiceComing,
     InLoop
<1>17. ASSUME NEW c \in Child, CallbackTaken(c) PROVE IInv'
  <2>1. TypeOK'
    BY <1>17 DEF CallbackTaken, TypeOK, ChildStatus, ThreadPc, MainPc
  <2>2. ThreadInv'
    BY <1>17 DEF CallbackTaken, TypeOK, ThreadInv
  <2>3. HandoverInv'
    BY <1>17 DEF CallbackTaken, TypeOK, ThreadInv, HandoverInv
  <2>4. CountersMatch'
    BY <1>17, FS_EmptySet DEF CallbackTaken, TypeOK, ThreadInv, CountersMatch
  <2>5. NoSessionStranded'
    BY <1>17
       DEF CallbackTaken, TypeOK, ChildStatus, ThreadPc, MainPc, ThreadInv,
       NoSessionStranded, ServiceComing, InLoop
  <2>6. QED
    BY <2>1, <2>2, <2>3, <2>4, <2>5
<1>18. ASSUME NEW c \in Child, EventsHandled(c) PROVE IInv'
  BY <1>18 DEF EventsHandled, TypeOK, ChildStatus, ThreadPc, MainPc,
     ThreadInv, HandoverInv, CountersMatch, NoSessionStranded, ServiceComing,
     InLoop
<1>19. ASSUME NEW c \in Child, ThreadLeave(c) PROVE IInv'
  BY <1>19 DEF ThreadLeave, TypeOK, ChildStatus, ThreadPc, MainPc,
     ThreadInv, HandoverInv, CountersMatch, NoSessionStranded, ServiceComing,
     InLoop
<1>20. ASSUME NEW c \in Child, NEW s \in Sess, CallbackTake(c, s) PROVE IInv'
  <2>0. /\ Cardinality(sess[c] \cup {s}) = Cardinality(sess[c]) + 1
       /\ Cardinality(wait[c] \ {s}) = Cardinality(wait[c]) - 1
    BY <1>20, QueueCardinality DEF CallbackTake, TypeOK, HandoverInv
  <2>1. TypeOK'
    BY <1>20 DEF CallbackTake, TypeOK, ChildStatus, ThreadPc, MainPc
  <2>2. ThreadInv'
    BY <1>20 DEF CallbackTake, TypeOK, ThreadInv
  <2>3. HandoverInv'
    BY <1>20 DEF CallbackTake, TypeOK, ThreadInv, HandoverInv
  <2>4. CountersMatch'
    BY <1>20, <2>0 DEF CallbackTake, TypeOK, ThreadInv, CountersMatch
  <2>5. NoSessionStranded'
    BY <1>20 DEF CallbackTake, TypeOK, ChildStatus, ThreadPc, MainPc, ThreadInv,
       NoSessionStranded, ServiceComing, InLoop
  <2>6. QED
    BY <2>1, <2>2, <2>3, <2>4, <2>5
<1>21. ASSUME NEW c \in Child, NEW s \in Sess, SessionEnds(c, s) PROVE IInv'
  <2>0. /\ Cardinality(sess[c]) \in Nat /\ Cardinality(sess[c]) >= 1
       /\ Cardinality(sess[c] \ {s}) = Cardinality(sess[c]) - 1
    BY <1>21, QueueCardinality DEF SessionEnds, TypeOK
  <2>1. TypeOK'
    BY <1>21, <2>0
       DEF SessionEnds, TypeOK, ChildStatus, ThreadPc, MainPc, CountersMatch
  <2>2. ThreadInv'
    BY <1>21 DEF SessionEnds, TypeOK, ThreadInv
  <2>3. HandoverInv'
    BY <1>21 DEF SessionEnds, TypeOK, ThreadInv, HandoverInv
  <2>4. CountersMatch'
    BY <1>21, <2>0 DEF SessionEnds, TypeOK, ThreadInv, CountersMatch
  <2>5. NoSessionStranded'
    BY <1>21 DEF SessionEnds, TypeOK, ChildStatus, ThreadPc, MainPc, ThreadInv,
       NoSessionStranded, ServiceComing, InLoop
  <2>6. QED
    BY <2>1, <2>2, <2>3, <2>4, <2>5
<1>22. CASE UNCHANGED vars
  BY <1>22 DEF TypeOK, ChildStatus, ThreadPc, MainPc,
     ThreadInv, HandoverInv, CountersMatch, NoSessionStranded, ServiceComing,
     InLoop
<1>23. QED
  BY <1>1, <1>2, <1>3, <1>4, <1>5, <1>6, <1>7, <1>8, <1>9, <1>10, <1>11,
     <1>12, <1>13, <1>14, <1>15, <1>16, <1>17, <1>18, <1>19, <1>20, <1>21,
     <1>22 DEF Next, Main, MainHandover, Thread

\* IInv is an invariant of the specification, with any number of failing calls
\* of pthread_create.
THEOREM Invariance == Spec => []IInv
  BY InitIInv, NextIInv, PTL DEF Spec

\* The types are right: no counter of a child is ever negative, which is what
\* fwd_child_total_sessions asserts (fwd_child.c:180).
THEOREM TypeCorrect == Spec => []TypeOK
<1>1. IInv => TypeOK
  BY DEF IInv
<1>2. QED
  BY <1>1, Invariance, PTL

\* n_sess and n_wait count the queues; in particular both are zero when a
\* thread decides to end (fwd_child.c:65).
THEOREM CountersCorrect == Spec => []CountersMatch
<1>1. IInv => CountersMatch
  BY DEF IInv
<1>2. QED
  BY <1>1, Invariance, PTL

\* As long as threads can be created, no session is ever on the queues of a
\* child without a thread that serves them or is bound to be started, for any
\* number of children and sessions and every interleaving of fwd_child_callback
\* with fwd_main_session_release_ctrl.
THEOREM NeverStranded == Spec => []NoSessionStranded
<1>1. IInv => NoSessionStranded
  BY DEF IInv
<1>2. QED
  BY <1>1, Invariance, PTL

=============================================================================
