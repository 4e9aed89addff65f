------------------------------ MODULE FwdEvent ------------------------------
(***************************************************************************)
(* Edge-triggered events of one loop, fwd_event.c, as operators on the     *)
(* state of the loop and of the epoll instance behind it:                  *)
(*                                                                         *)
(*   flags  what each socket is registered for (empty: not registered)     *)
(*   ready  the ready list of the epoll instance                           *)
(*   batch  the array evt, filled by epoll_wait: a socket and its events,  *)
(*          or no socket where fwd_event_del has cleared the pointer       *)
(*   cur    cur_fd, the entry that is being handled (0 before the first)   *)
(*                                                                         *)
(* epoll (external): a socket comes on the ready list when something       *)
(* happens that it is registered for, and when epoll_ctl adds or modifies  *)
(* it while the condition holds.  epoll_wait takes it off the list: a      *)
(* condition that stays is not reported again.  "E" stands for EPOLLERR    *)
(* and EPOLLHUP, which are reported whatever the flags are.                *)
(***************************************************************************)
EXTENDS Integers, Sequences, FiniteSets

Flag == {"R", "W"}
Condition == Flag \cup {"E"}

\* The states of a loop with the sockets Fd; `none' is the null pointer.
Loop(Fd, none) ==
  [flags : [Fd -> SUBSET Flag], ready : SUBSET Fd,
   batch : Seq([fd : Fd \cup {none}, ev : SUBSET Condition]), cur : Nat]

IdleLoop(Fd) == [flags |-> [fd \in Fd |-> {}], ready |-> {},
                 batch |-> <<>>, cur |-> 0]

Registered(e, fd) == e.flags[fd] # {}

\* What epoll reports of a socket whose conditions are c.
Reported(e, fd, c) == IF Registered(e, fd) THEN c \cap (e.flags[fd] \cup {"E"})
                      ELSE {}

\* A condition in c comes up at the socket.
Wake(e, fd, c) ==
  IF Reported(e, fd, c) = {} THEN e ELSE [e EXCEPT !.ready = @ \cup {fd}]

\* Variant: the shortcut compares with a subset.
EventAdd_Covered(e, fd, f, c) ==
  IF Registered(e, fd) /\ f \subseteq e.flags[fd] THEN e
  ELSE Wake([e EXCEPT !.flags[fd] = f], fd, c)

\* fwd_event_add with edge triggering: nothing is done when the flags are the
\* same; epoll_ctl arms the socket anew otherwise.  c: its conditions now.
EventAdd(e, fd, f, c) ==
  IF e.flags[fd] = f THEN e ELSE Wake([e EXCEPT !.flags[fd] = f], fd, c)

\* Variant: the entries of the batch are kept.
EventDel_KeepsBatch(e, fd, none) ==
  [e EXCEPT !.flags[fd] = {}, !.ready = @ \ {fd}]

\* fwd_event_del: the socket leaves epoll, and its entries behind the current
\* one leave the batch.
EventDel(e, fd, none) ==
  IF ~Registered(e, fd) THEN e
  ELSE [e EXCEPT !.flags[fd] = {}, !.ready = @ \ {fd},
                 !.batch = [i \in DOMAIN @ |->
                              IF i > e.cur /\ @[i].fd = fd
                              THEN [@[i] EXCEPT !.fd = none] ELSE @[i]]]

\* epoll_wait of fwd_event_handle_evt: the sockets of the ready list that have
\* something to report, in any order.  cond: the conditions of each socket.
Batches(e, cond) ==
  LET some == {fd \in e.ready : Reported(e, fd, cond[fd]) # {}}
      n == Cardinality(some)
  IN {[e EXCEPT !.ready = {}, !.cur = 0,
                !.batch = [i \in 1 .. n |->
                             [fd |-> order[i],
                              ev |-> Reported(e, order[i], cond[order[i]])]]]
      : order \in {s \in [1 .. n -> some] :
                     \A i, j \in 1 .. n : s[i] = s[j] => i = j}}

\* All entries of the batch are handled.
BatchDone(e) == e.cur = Len(e.batch)

\* The loop goes on to the next entry.
Advance(e) == [e EXCEPT !.cur = @ + 1]

=============================================================================
