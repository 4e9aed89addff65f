--------------------------- MODULE FwdQueueProofs ---------------------------
(***************************************************************************)
(* Proofs about FwdQueue: the pointers of the lists are right, for any     *)
(* sessions and children, without Reuse and Race.                          *)
(*                                                                         *)
(* The first part is about dt_queue.h alone: what its macros do to one     *)
(* list, and that they leave everything else as it is.  The second part    *)
(* is about what the lists are meant to hold, and the third about the      *)
(* steps of the threads.                                                   *)
(***************************************************************************)
EXTENDS FwdQueue, TLAPS

-----------------------------------------------------------------------------
(* Lists.                                                                  *)

Pointers == [Node -> [prev : Node, next : Node]]

\* No session is twice in q.
OnceIn(q) == \A i, j \in DOMAIN q : q[i] = q[j] => i = j

Elems(q) == {q[i] : i \in DOMAIN q}

Queues == [List -> Seq(Sess)]

\* The heads are nodes, differ from one another and are no sessions.
LEMMA HeadProps ==
  /\ List \subseteq Node /\ Sess \subseteq Node /\ Down \in List
  /\ \A h \in List : h \notin Sess
  /\ \A c \in Child : /\ Wait(c) \in List /\ Served(c) \in List
                      /\ Wait(c) # Down /\ Served(c) # Down
  /\ \A c, d \in Child : /\ Wait(c) # Served(d)
                         /\ Wait(c) = Wait(d) => c = d
                         /\ Served(c) = Served(d) => c = d
  /\ \A h \in List : h = Down \/ \E c \in Child : h = Wait(c) \/ h = Served(c)
BY NoneAssumption DEF List, Node, Down, Wait, Served

\* A sequence of sessions as a function.
LEMMA SeqProps ==
  ASSUME NEW q \in Seq(Sess)
  PROVE  /\ Len(q) \in Nat /\ DOMAIN q = 1 .. Len(q)
         /\ \A i \in 1 .. Len(q) : q[i] \in Sess
OBVIOUS

\* The nodes of a list, from the head to the head.
LEMMA NodeProps ==
  ASSUME NEW h \in List, NEW q \in Seq(Sess)
  PROVE  /\ \A i \in 1 .. Len(q) : NodeAt(h, q, i) = q[i]
         /\ NodeAt(h, q, 0) = h /\ NodeAt(h, q, Len(q) + 1) = h
         /\ \A i : NodeAt(h, q, i) \in Node
         /\ \A i : NodeAt(h, q, i) = h \/ NodeAt(h, q, i) \in Elems(q)
         /\ Elems(q) \subseteq Sess
<1>1. /\ Len(q) \in Nat /\ DOMAIN q = 1 .. Len(q)
      /\ \A i \in 1 .. Len(q) : q[i] \in Sess
  BY SeqProps
<1>2. 0 \notin 1 .. Len(q) /\ Len(q) + 1 \notin 1 .. Len(q)
  BY <1>1
<1>3. QED
  BY <1>1, <1>2, HeadProps DEF NodeAt, Elems

\* Read forwards no node comes twice, nor read backwards.
LEMMA NodeOnce ==
  ASSUME NEW h \in List, NEW q \in Seq(Sess), OnceIn(q)
  PROVE  /\ \A i, j \in 0 .. Len(q) :
              NodeAt(h, q, i) = NodeAt(h, q, j) => i = j
         /\ \A i, j \in 1 .. Len(q) + 1 :
              NodeAt(h, q, i) = NodeAt(h, q, j) => i = j
<1>1. /\ Len(q) \in Nat /\ DOMAIN q = 1 .. Len(q)
      /\ \A i \in 1 .. Len(q) : q[i] \in Sess
  BY SeqProps
<1>2. \A i \in 1 .. Len(q) : NodeAt(h, q, i) = q[i] /\ q[i] # h
  BY <1>1, NodeProps, HeadProps
<1>3. NodeAt(h, q, 0) = h /\ NodeAt(h, q, Len(q) + 1) = h
  BY NodeProps
<1>4. \A i \in 0 .. Len(q) : i = 0 \/ i \in 1 .. Len(q)
  BY <1>1
<1>5. \A i \in 1 .. Len(q) + 1 : i = Len(q) + 1 \/ i \in 1 .. Len(q)
  BY <1>1
<1>6. \A i, j \in 1 .. Len(q) : q[i] = q[j] => i = j
  BY <1>1 DEF OnceIn
<1>7. ASSUME NEW i \in 0 .. Len(q), NEW j \in 0 .. Len(q),
             NodeAt(h, q, i) = NodeAt(h, q, j)
      PROVE  i = j
  BY <1>2, <1>3, <1>4, <1>6, <1>7
<1>8. ASSUME NEW i \in 1 .. Len(q) + 1, NEW j \in 1 .. Len(q) + 1,
             NodeAt(h, q, i) = NodeAt(h, q, j)
      PROVE  i = j
  BY <1>2, <1>3, <1>5, <1>6, <1>8
<1>9. QED
  BY <1>7, <1>8

\* Pointers that agree on the nodes of a list have the same list.
LEMMA ChainFrame ==
  ASSUME NEW l, NEW r, NEW h \in List, NEW q \in Seq(Sess), NEW half,
         Chained(l, h, q, half),
         \A n \in Node : n = h \/ n \in Elems(q) => r[n] = l[n]
  PROVE  Chained(r, h, q, half)
<1> SUFFICES ASSUME NEW i \in 0 .. Len(q)
             PROVE  LET a == NodeAt(h, q, i)  b == NodeAt(h, q, i + 1) IN
                    /\ r[a].next = b
                    /\ r[b].prev = IF a \in half THEN NodeAt(h, q, i - 1) ELSE a
  BY DEF Chained
<1> DEFINE a == NodeAt(h, q, i)
           b == NodeAt(h, q, i + 1)
<1>1. /\ l[a].next = b
      /\ l[b].prev = IF a \in half THEN NodeAt(h, q, i - 1) ELSE a
  BY DEF Chained
<1>2. a \in Node /\ b \in Node /\ (a = h \/ a \in Elems(q))
      /\ (b = h \/ b \in Elems(q))
  BY NodeProps
<1>3. r[a] = l[a] /\ r[b] = l[b]
  BY <1>2
<1>4. QED
  BY <1>1, <1>3

\* Sessions that are not on a list do not matter to it.
LEMMA ChainHalf ==
  ASSUME NEW l, NEW h \in List, NEW q \in Seq(Sess),
         NEW half \in SUBSET Sess, NEW other \in SUBSET Sess,
         half \cap Elems(q) = other \cap Elems(q),
         Chained(l, h, q, half)
  PROVE  Chained(l, h, q, other)
<1> SUFFICES ASSUME NEW i \in 0 .. Len(q)
             PROVE  LET a == NodeAt(h, q, i)  b == NodeAt(h, q, i + 1) IN
                    /\ l[a].next = b
                    /\ l[b].prev = IF a \in other THEN NodeAt(h, q, i - 1)
                                   ELSE a
  BY DEF Chained
<1> DEFINE a == NodeAt(h, q, i)
           b == NodeAt(h, q, i + 1)
<1>1. /\ l[a].next = b
      /\ l[b].prev = IF a \in half THEN NodeAt(h, q, i - 1) ELSE a
  BY DEF Chained
<1>2. a = h \/ a \in Elems(q)
  BY NodeProps
<1>3. a \in half <=> a \in other
  BY <1>2, HeadProps
<1>4. QED
  BY <1>1, <1>3

-----------------------------------------------------------------------------
(* dt_queue.h.                                                             *)

\* A field of one node is assigned.
LEMMA SetPrev ==
  ASSUME NEW l \in Pointers, NEW n \in Node, NEW m \in Node,
         NEW r, r = [l EXCEPT ![n].prev = m]
  PROVE  /\ r \in Pointers
         /\ \A x \in Node : /\ r[x].next = l[x].next
                            /\ r[x].prev = IF x = n THEN m ELSE l[x].prev
                            /\ x # n => r[x] = l[x]
BY DEF Pointers

\* The other field.
LEMMA SetNext ==
  ASSUME NEW l \in Pointers, NEW n \in Node, NEW m \in Node,
         NEW r, r = [l EXCEPT ![n].next = m]
  PROVE  /\ r \in Pointers
         /\ \A x \in Node : /\ r[x].prev = l[x].prev
                            /\ r[x].next = IF x = n THEN m ELSE l[x].next
                            /\ x # n => r[x] = l[x]
BY DEF Pointers

\* The first assignment of dt_queue_remove, for the k-th session of a list.
LEMMA RemoveBegins ==
  ASSUME NEW l \in Pointers, NEW h \in List, NEW q \in Seq(Sess), OnceIn(q),
         NEW k \in 1 .. Len(q), Chained(l, h, q, {})
  PROVE  LET r == RemoveNext(l, q[k]) IN
         /\ r \in Pointers
         /\ Chained(r, h, q, {q[k]})
         /\ \A n \in Node : n # h /\ n \notin Elems(q) => r[n] = l[n]
<1> DEFINE N(i) == NodeAt(h, q, i)
           r == RemoveNext(l, q[k])
           t == N(k + 1)
           p == N(k - 1)
<1>0. Len(q) \in Nat /\ k \in Nat /\ k >= 1 /\ k <= Len(q) /\ q[k] = N(k)
      /\ \A i : N(i) \in Node /\ (N(i) = h \/ N(i) \in Elems(q))
  BY SeqProps, NodeProps
<1>1. \A i \in 0 .. Len(q) : l[N(i)].next = N(i + 1) /\ l[N(i + 1)].prev = N(i)
  BY DEF Chained
<1>2. /\ \A i, j \in 0 .. Len(q) : N(i) = N(j) => i = j
      /\ \A i, j \in 1 .. Len(q) + 1 : N(i) = N(j) => i = j
  BY NodeOnce
<1> HIDE DEF N
<1>3. l[q[k]].next = t /\ l[q[k]].prev = p
  <2>1. k \in 0 .. Len(q) /\ k - 1 \in 0 .. Len(q) /\ (k - 1) + 1 = k
    BY <1>0
  <2>2. QED
    BY <1>0, <1>1, <2>1
<1>4. r = [l EXCEPT ![t].prev = p]
  BY <1>3 DEF RemoveNext
<1>5. t \in Node /\ p \in Node
  BY <1>0
<1> HIDE DEF r, t, p
<1>6. /\ r \in Pointers
      /\ \A x \in Node : /\ r[x].next = l[x].next
                         /\ r[x].prev = IF x = t THEN p ELSE l[x].prev
                         /\ x # t => r[x] = l[x]
  BY <1>4, <1>5 DEF Pointers
<1>7. ASSUME NEW i \in 0 .. Len(q)
      PROVE  /\ r[N(i)].next = N(i + 1)
             /\ r[N(i + 1)].prev = IF N(i) \in {q[k]} THEN N(i - 1) ELSE N(i)
  <2>1. N(i) \in Node /\ N(i + 1) \in Node
    BY <1>0
  <2>2. N(i) \in {q[k]} <=> i = k
    <3>1. k \in 0 .. Len(q)
      BY <1>0
    <3>2. QED
      BY <1>0, <1>2, <3>1
  <2>3. N(i + 1) = t <=> i = k
    <3>1. i + 1 \in 1 .. Len(q) + 1 /\ k + 1 \in 1 .. Len(q) + 1
          /\ (i + 1 = k + 1 => i = k)
      BY <1>0
    <3>2. QED
      BY <1>2, <3>1 DEF t
  <2>4. QED
    BY <1>1, <1>6, <2>1, <2>2, <2>3 DEF p
<1>8. Chained(r, h, q, {q[k]})
  BY <1>7 DEF Chained, N
<1>9. \A n \in Node : n # h /\ n \notin Elems(q) => r[n] = l[n]
  BY <1>0, <1>6 DEF t
<1>10. QED
  BY <1>6, <1>8, <1>9 DEF r

\* The k-th element leaves a sequence.
LEMMA RemovedProps ==
  ASSUME NEW q \in Seq(Sess), OnceIn(q), NEW k \in 1 .. Len(q)
  PROVE  LET r == RemovedAt(q, k) IN
         /\ r \in Seq(Sess) /\ Len(r) = Len(q) - 1
         /\ \A i \in 1 .. Len(q) - 1 :
              r[i] = IF i < k THEN q[i] ELSE q[i + 1]
         /\ OnceIn(r) /\ Elems(r) = Elems(q) \ {q[k]}
<1> DEFINE r == RemovedAt(q, k)
<1>0. Len(q) \in Nat /\ DOMAIN q = 1 .. Len(q) /\ k \in Nat /\ k >= 1
      /\ k <= Len(q) /\ Len(q) - 1 \in Nat
      /\ \A i \in 1 .. Len(q) : q[i] \in Sess
  BY SeqProps
<1>1. ASSUME NEW i \in 1 .. Len(q) - 1
      PROVE  i \in 1 .. Len(q) /\ i + 1 \in 1 .. Len(q)
  BY <1>0
<1>2. r \in [1 .. Len(q) - 1 -> Sess]
      /\ \A i \in 1 .. Len(q) - 1 : r[i] = IF i < k THEN q[i] ELSE q[i + 1]
  BY <1>0, <1>1 DEF RemovedAt
<1> HIDE DEF r
<1>3. r \in Seq(Sess) /\ Len(r) = Len(q) - 1 /\ DOMAIN r = 1 .. Len(q) - 1
  <2>1. PICK m \in Nat : m = Len(q) - 1
    BY <1>0
  <2>2. r \in [1 .. m -> Sess]
    BY <1>2, <2>1
  <2>3. r \in Seq(Sess) /\ Len(r) = m /\ DOMAIN r = 1 .. m
    BY <2>2
  <2>4. QED
    BY <2>1, <2>3
<1>4. \A i, j \in 1 .. Len(q) : q[i] = q[j] => i = j
  BY <1>0 DEF OnceIn
<1>5. ASSUME NEW i \in 1 .. Len(q) - 1, NEW j \in 1 .. Len(q) - 1, r[i] = r[j]
      PROVE  i = j
  <2> DEFINE a == IF i < k THEN i ELSE i + 1
             b == IF j < k THEN j ELSE j + 1
  <2>1. a \in 1 .. Len(q) /\ b \in 1 .. Len(q) /\ r[i] = q[a] /\ r[j] = q[b]
    BY <1>1, <1>2
  <2>2. a = b
    BY <1>4, <1>5, <2>1
  <2>3. QED
    BY <1>0, <2>2
<1>6. ASSUME NEW i \in 1 .. Len(q) - 1
      PROVE  r[i] \in Elems(q) /\ r[i] # q[k]
  <2> DEFINE a == IF i < k THEN i ELSE i + 1
  <2>1. a \in 1 .. Len(q) /\ r[i] = q[a]
    BY <1>1, <1>2
  <2>2. a # k
    BY <1>0
  <2>3. QED
    BY <1>0, <1>4, <2>1, <2>2 DEF Elems
<1>7. ASSUME NEW i \in 1 .. Len(q), q[i] # q[k]
      PROVE  \E j \in 1 .. Len(q) - 1 : r[j] = q[i]
  <2>1. i # k
    BY <1>7
  <2>2. CASE i < k
    <3>1. i \in 1 .. Len(q) - 1
      BY <1>0, <2>2
    <3>2. QED
      BY <1>2, <2>2, <3>1
  <2>3. CASE i > k
    <3>1. i - 1 \in 1 .. Len(q) - 1 /\ ~(i - 1 < k) /\ (i - 1) + 1 = i
      BY <1>0, <2>3
    <3>2. r[i - 1] = q[i]
      BY <1>2, <3>1
    <3>3. QED
      BY <3>1, <3>2
  <2>4. QED
    BY <1>0, <2>1, <2>2, <2>3
<1>8. OnceIn(r)
  BY <1>3, <1>5 DEF OnceIn
<1>9. Elems(r) = Elems(q) \ {q[k]}
  <2>1. Elems(r) = {r[i] : i \in 1 .. Len(q) - 1}
    BY <1>3 DEF Elems
  <2>2. Elems(q) = {q[i] : i \in 1 .. Len(q)}
    BY <1>0 DEF Elems
  <2>3. QED
    BY <1>6, <1>7, <2>1, <2>2
<1>10. QED
  BY <1>2, <1>3, <1>8, <1>9 DEF r

\* The second assignment of dt_queue_remove.
LEMMA RemoveEnds ==
  ASSUME NEW l \in Pointers, NEW h \in List, NEW q \in Seq(Sess), OnceIn(q),
         NEW k \in 1 .. Len(q), Chained(l, h, q, {q[k]})
  PROVE  LET r == RemovePrev(l, q[k]) IN
         /\ r \in Pointers
         /\ Chained(r, h, RemovedAt(q, k), {})
         /\ \A n \in Node : n # h /\ n \notin Elems(q) => r[n] = l[n]
<1> DEFINE N(i) == NodeAt(h, q, i)
           r == RemovePrev(l, q[k])
           t == N(k + 1)
           p == N(k - 1)
           s == RemovedAt(q, k)
           M(i) == NodeAt(h, s, i)
<1>0. Len(q) \in Nat /\ k \in Nat /\ k >= 1 /\ k <= Len(q) /\ q[k] = N(k)
      /\ \A i : N(i) \in Node /\ (N(i) = h \/ N(i) \in Elems(q))
  BY SeqProps, NodeProps
<1>1. \A i \in 0 .. Len(q) :
        /\ l[N(i)].next = N(i + 1)
        /\ l[N(i + 1)].prev = IF N(i) \in {q[k]} THEN N(i - 1) ELSE N(i)
  BY DEF Chained
<1>2. /\ \A i, j \in 0 .. Len(q) : N(i) = N(j) => i = j
      /\ \A i, j \in 1 .. Len(q) + 1 : N(i) = N(j) => i = j
  BY NodeOnce
<1>m. /\ s \in Seq(Sess) /\ Len(s) = Len(q) - 1
      /\ \A i \in 1 .. Len(q) - 1 : s[i] = IF i < k THEN q[i] ELSE q[i + 1]
  BY RemovedProps
<1>n. ASSUME NEW i \in 0 .. Len(q)
      PROVE  M(i) = IF i < k THEN N(i) ELSE N(i + 1)
  <2> HIDE DEF s
  <2>1. /\ \A j \in 1 .. Len(s) : M(j) = s[j]
        /\ M(0) = h /\ M(Len(s) + 1) = h
    BY <1>m, NodeProps
  <2>2. /\ \A j \in 1 .. Len(q) : N(j) = q[j]
        /\ N(0) = h /\ N(Len(q) + 1) = h
    BY NodeProps
  <2> HIDE DEF M, N
  <2>3. CASE i = 0
    BY <1>0, <2>1, <2>2, <2>3
  <2>4. CASE i = Len(q)
    <3>1. Len(s) + 1 = Len(q) /\ ~(Len(q) < k)
      BY <1>0, <1>m
    <3>2. QED
      BY <2>1, <2>2, <2>4, <3>1
  <2>5. CASE i # 0 /\ i # Len(q)
    <3>1. i \in 1 .. Len(q) - 1 /\ i \in 1 .. Len(q) /\ i + 1 \in 1 .. Len(q)
          /\ i \in 1 .. Len(s)
      BY <1>0, <1>m, <2>5
    <3>2. M(i) = IF i < k THEN q[i] ELSE q[i + 1]
      BY <1>m, <2>1, <3>1
    <3>3. QED
      BY <2>2, <3>1, <3>2
  <2>6. QED
    BY <2>3, <2>4, <2>5
<1> HIDE DEF N, M, s
<1>e. \A i \in 0 .. Len(q) : N(i) \in {q[k]} <=> i = k
  <2>1. k \in 0 .. Len(q)
    BY <1>0
  <2>2. QED
    BY <1>0, <1>2, <2>1
<1>3. l[q[k]].next = t /\ l[q[k]].prev = p
  <2>1. k \in 0 .. Len(q) /\ k - 1 \in 0 .. Len(q) /\ (k - 1) + 1 = k
        /\ k - 1 # k
    BY <1>0
  <2>2. N(k - 1) \notin {q[k]}
    BY <1>e, <2>1
  <2>3. QED
    BY <1>0, <1>1, <2>1, <2>2
<1>4. r = [l EXCEPT ![p].next = t]
  BY <1>3 DEF RemovePrev
<1>5. t \in Node /\ p \in Node
  BY <1>0
<1> HIDE DEF r, t, p
<1>6. /\ r \in Pointers
      /\ \A x \in Node : /\ r[x].prev = l[x].prev
                         /\ r[x].next = IF x = p THEN t ELSE l[x].next
                         /\ x # p => r[x] = l[x]
  BY <1>4, <1>5 DEF Pointers
<1>7. ASSUME NEW j \in 0 .. Len(q) - 1
      PROVE  r[M(j)].next = M(j + 1) /\ r[M(j + 1)].prev = M(j)
  <2>0. j \in 0 .. Len(q) /\ j + 1 \in 0 .. Len(q) /\ k - 1 \in 0 .. Len(q)
    BY <1>0
  <2>1. CASE j + 1 < k
    <3>1. M(j) = N(j) /\ M(j + 1) = N(j + 1)
      BY <1>0, <1>n, <2>0, <2>1
    <3>2. j # k /\ j # k - 1
      BY <1>0, <2>1
    <3>3. N(j) # p /\ N(j) \notin {q[k]}
      BY <1>2, <1>e, <2>0, <3>2 DEF p
    <3>4. QED
      BY <1>0, <1>1, <1>6, <2>0, <3>1, <3>3
  <2>2. CASE j + 1 = k
    <3>1. M(j) = p /\ M(j + 1) = t /\ k \in 0 .. Len(q)
      <4>1. j < k /\ ~(j + 1 < k) /\ j = k - 1 /\ (j + 1) + 1 = k + 1
            /\ k \in 0 .. Len(q)
        BY <1>0, <2>2
      <4>2. QED
        BY <1>n, <2>0, <4>1 DEF p, t
    <3>2. l[t].prev = p
      BY <1>1, <1>e, <3>1 DEF p, t
    <3>3. QED
      BY <1>5, <1>6, <3>1, <3>2
  <2>3. CASE j + 1 > k
    <3>1. M(j) = N(j + 1) /\ M(j + 1) = N((j + 1) + 1)
      <4>1. ~(j < k) /\ ~(j + 1 < k)
        BY <1>0, <2>3
      <4>2. QED
        BY <1>n, <2>0, <4>1
    <3>2. j + 1 # k /\ j + 1 # k - 1
      BY <1>0, <2>3
    <3>3. N(j + 1) # p /\ N(j + 1) \notin {q[k]}
      BY <1>2, <1>e, <2>0, <3>2 DEF p
    <3>4. QED
      BY <1>0, <1>1, <1>6, <2>0, <3>1, <3>3
  <2>4. QED
    BY <1>0, <2>1, <2>2, <2>3
<1>8. Chained(r, h, s, {})
  BY <1>m, <1>7 DEF Chained, M
<1>9. \A n \in Node : n # h /\ n \notin Elems(q) => r[n] = l[n]
  BY <1>0, <1>6 DEF p
<1>10. QED
  BY <1>6, <1>8, <1>9 DEF r, s

\* dt_queue_remove.
LEMMA RemoveProps ==
  ASSUME NEW l \in Pointers, NEW h \in List, NEW q \in Seq(Sess), OnceIn(q),
         NEW k \in 1 .. Len(q), Chained(l, h, q, {})
  PROVE  LET r == Remove(l, q[k]) IN
         /\ r \in Pointers
         /\ Chained(r, h, RemovedAt(q, k), {})
         /\ \A n \in Node : n # h /\ n \notin Elems(q) => r[n] = l[n]
<1> DEFINE m == RemoveNext(l, q[k])
<1>1. /\ m \in Pointers
      /\ Chained(m, h, q, {q[k]})
      /\ \A n \in Node : n # h /\ n \notin Elems(q) => m[n] = l[n]
  BY RemoveBegins
<1>2. Remove(l, q[k]) = RemovePrev(m, q[k])
  BY DEF Remove
<1> HIDE DEF m
<1>3. LET r == RemovePrev(m, q[k]) IN
      /\ r \in Pointers
      /\ Chained(r, h, RemovedAt(q, k), {})
      /\ \A n \in Node : n # h /\ n \notin Elems(q) => r[n] = m[n]
  BY <1>1, RemoveEnds
<1>4. QED
  BY <1>1, <1>2, <1>3

\* dt_queue_insert_tail, of a session that is not on the list.
LEMMA InsertProps ==
  ASSUME NEW l \in Pointers, NEW h \in List, NEW q \in Seq(Sess), OnceIn(q),
         NEW x \in Sess, x \notin Elems(q), Chained(l, h, q, {})
  PROVE  LET r == InsertTail(l, h, x) IN
         /\ r \in Pointers
         /\ Chained(r, h, Append(q, x), {})
         /\ \A n \in Node : n # h /\ n # x /\ n \notin Elems(q) => r[n] = l[n]
<1> DEFINE N(i) == NodeAt(h, q, i)
           M(i) == NodeAt(h, Append(q, x), i)
           r == InsertTail(l, h, x)
           z == N(Len(q))
<1>0. /\ Len(q) \in Nat /\ x \in Node /\ h \in Node /\ x # h
      /\ \A i : N(i) \in Node /\ (N(i) = h \/ N(i) \in Elems(q)) /\ N(i) # x
  BY SeqProps, NodeProps, HeadProps
<1>1. \A i \in 0 .. Len(q) : l[N(i)].next = N(i + 1) /\ l[N(i + 1)].prev = N(i)
  BY DEF Chained
<1>2. /\ \A i, j \in 0 .. Len(q) : N(i) = N(j) => i = j
      /\ \A i, j \in 1 .. Len(q) + 1 : N(i) = N(j) => i = j
  BY NodeOnce
<1>h. N(Len(q) + 1) = h
  BY NodeProps
<1>m. /\ \A i \in 0 .. Len(q) : M(i) = N(i)
      /\ M(Len(q) + 1) = x /\ M(Len(q) + 2) = h
  <2>1. /\ Append(q, x) \in Seq(Sess) /\ Len(Append(q, x)) = Len(q) + 1
        /\ \A i \in 1 .. Len(q) : Append(q, x)[i] = q[i]
        /\ Append(q, x)[Len(q) + 1] = x
    BY <1>0
  <2> DEFINE s == Append(q, x)
  <2> HIDE DEF s
  <2>2. /\ \A i \in 1 .. Len(s) : NodeAt(h, s, i) = s[i]
        /\ NodeAt(h, s, 0) = h /\ NodeAt(h, s, Len(s) + 1) = h
    BY <2>1, NodeProps DEF s
  <2>3. \A i \in 1 .. Len(q) : N(i) = q[i]
    BY NodeProps
  <2>4. N(0) = h
    BY NodeProps
  <2>5. \A i \in 1 .. Len(q) + 1 : M(i) = s[i]
    BY <2>1, <2>2 DEF s
  <2>6. M(0) = h /\ M((Len(q) + 1) + 1) = h
    BY <2>1, <2>2 DEF s
  <2>7. \A i \in 1 .. Len(q) : i \in 1 .. Len(q) + 1
    BY <1>0
  <2>8. \A i \in 0 .. Len(q) : i = 0 \/ i \in 1 .. Len(q)
    BY <1>0
  <2>9. Len(q) + 1 \in 1 .. Len(q) + 1 /\ (Len(q) + 1) + 1 = Len(q) + 2
    BY <1>0
  <2> HIDE DEF M, N
  <2>10. \A i \in 0 .. Len(q) : M(i) = N(i)
    BY <2>1, <2>3, <2>4, <2>5, <2>6, <2>7, <2>8 DEF s
  <2>11. M(Len(q) + 1) = x
    BY <2>1, <2>5, <2>9 DEF s
  <2>12. M(Len(q) + 2) = h
    BY <2>6, <2>9
  <2>13. QED
    BY <2>10, <2>11, <2>12
<1> HIDE DEF N, M
<1>z. l[h].prev = z /\ z \in Node /\ z # x
  <2>1. Len(q) \in 0 .. Len(q)
    BY <1>0
  <2>2. QED
    BY <1>0, <1>1, <1>h, <2>1
<1> HIDE DEF z
<1>r. /\ r \in Pointers
      /\ \A n \in Node :
           /\ r[n].prev = IF n = h THEN x ELSE IF n = x THEN z ELSE l[n].prev
           /\ r[n].next = IF n = x THEN h ELSE IF n = z THEN x ELSE l[n].next
           /\ n # h /\ n # x /\ n # z => r[n] = l[n]
  <2> DEFINE l1 == [l EXCEPT ![x].prev = z]
             l2 == [l1 EXCEPT ![z].next = x]
             l3 == [l2 EXCEPT ![x].next = h]
             l4 == [l3 EXCEPT ![h].prev = x]
  <2>1. l1 \in Pointers
        /\ \A n \in Node : /\ l1[n].next = l[n].next
                           /\ l1[n].prev = IF n = x THEN z ELSE l[n].prev
                           /\ n # x => l1[n] = l[n]
    BY <1>0, <1>z, SetPrev DEF l1
  <2>2. r = l4
    <3>1. l1[x].prev = z
      BY <1>0, <2>1
    <3>2. r = [[[l1 EXCEPT ![l1[x].prev].next = x]
                   EXCEPT ![x].next = h] EXCEPT ![h].prev = x]
      BY <1>z DEF InsertTail
    <3>3. QED
      BY <3>1, <3>2
  <2> HIDE DEF l1, r
  <2>3. l2 \in Pointers
        /\ \A n \in Node : /\ l2[n].prev = l1[n].prev
                           /\ l2[n].next = IF n = z THEN x ELSE l1[n].next
                           /\ n # z => l2[n] = l1[n]
    <3>1. l1 \in Pointers /\ z \in Node /\ x \in Node
      BY <1>0, <1>z, <2>1
    <3>2. QED
      BY <3>1 DEF Pointers
  <2> HIDE DEF l2
  <2>4. l3 \in Pointers
        /\ \A n \in Node : /\ l3[n].prev = l2[n].prev
                           /\ l3[n].next = IF n = x THEN h ELSE l2[n].next
                           /\ n # x => l3[n] = l2[n]
    BY <1>0, <2>3, SetNext DEF l3
  <2> HIDE DEF l3
  <2>5. l4 \in Pointers
        /\ \A n \in Node : /\ l4[n].next = l3[n].next
                           /\ l4[n].prev = IF n = h THEN x ELSE l3[n].prev
                           /\ n # h => l4[n] = l3[n]
    BY <1>0, <2>4, SetPrev DEF l4
  <2> HIDE DEF l4
  <2>6. QED
    BY <2>1, <2>2, <2>3, <2>4, <2>5
<1> HIDE DEF r
<1>3. ASSUME NEW j \in 0 .. Len(q) + 1
      PROVE  r[M(j)].next = M(j + 1) /\ r[M(j + 1)].prev = M(j)
  <2>1. CASE j < Len(q)
    <3>1. j \in 0 .. Len(q) /\ j + 1 \in 0 .. Len(q) /\ j # Len(q)
          /\ j + 1 \in 1 .. Len(q) + 1 /\ j + 1 # Len(q) + 1
          /\ Len(q) \in 0 .. Len(q) /\ Len(q) + 1 \in 1 .. Len(q) + 1
      BY <1>0, <2>1
    <3>2. M(j) = N(j) /\ M(j + 1) = N(j + 1)
      BY <1>m, <3>1
    <3>3. N(j) # z /\ N(j + 1) # h
      BY <1>2, <1>h, <3>1 DEF z
    <3>4. QED
      BY <1>0, <1>1, <1>r, <3>1, <3>2, <3>3
  <2>2. CASE j = Len(q)
    <3>1. M(j) = z /\ M(j + 1) = x
      <4>1. Len(q) \in 0 .. Len(q)
        BY <1>0
      <4>2. QED
        BY <1>m, <2>2, <4>1 DEF z
    <3>2. QED
      BY <1>0, <1>z, <1>r, <3>1
  <2>3. CASE j = Len(q) + 1
    <3>1. M(j) = x /\ M(j + 1) = h
      <4>1. (Len(q) + 1) + 1 = Len(q) + 2
        BY <1>0
      <4>2. QED
        BY <1>m, <2>3, <4>1
    <3>2. QED
      BY <1>0, <1>r, <3>1
  <2>4. QED
    BY <1>0, <2>1, <2>2, <2>3
<1>4. Chained(r, h, Append(q, x), {})
  <2>1. Len(Append(q, x)) = Len(q) + 1
    OBVIOUS
  <2>2. QED
    BY <1>3, <2>1 DEF Chained, M
<1>5. \A n \in Node : n # h /\ n # x /\ n \notin Elems(q) => r[n] = l[n]
  BY <1>0, <1>r DEF z
<1>6. QED
  BY <1>4, <1>5, <1>r DEF r

\* A session that points at itself is not removed from anything.
LEMMA RemoveUnlinked ==
  ASSUME NEW l \in Pointers, NEW s \in Sess,
         l[s] = [prev |-> s, next |-> s]
  PROVE  RemoveNext(l, s) = l /\ RemovePrev(l, s) = l
BY HeadProps DEF Pointers, RemoveNext, RemovePrev

\* A new element at the end of a sequence.
LEMMA AppendProps ==
  ASSUME NEW q \in Seq(Sess), OnceIn(q), NEW x \in Sess, x \notin Elems(q)
  PROVE  /\ Append(q, x) \in Seq(Sess)
         /\ OnceIn(Append(q, x))
         /\ Elems(Append(q, x)) = Elems(q) \cup {x}
<1> DEFINE r == Append(q, x)
<1>1. Len(q) \in Nat /\ DOMAIN q = 1 .. Len(q)
  BY SeqProps
<1>2. /\ r \in Seq(Sess) /\ Len(r) = Len(q) + 1 /\ DOMAIN r = 1 .. Len(q) + 1
      /\ \A i \in 1 .. Len(q) : r[i] = q[i]
      /\ r[Len(q) + 1] = x
  OBVIOUS
<1> HIDE DEF r
<1>3. \A i \in 1 .. Len(q) + 1 : i \in 1 .. Len(q) \/ i = Len(q) + 1
  BY <1>1
<1>4. \A i \in 1 .. Len(q) : i \in 1 .. Len(q) + 1
  BY <1>1
<1>4a. Len(q) + 1 \in 1 .. Len(q) + 1
  BY <1>1
<1>5. \A i \in 1 .. Len(q) : q[i] # x
  BY <1>1 DEF Elems
<1>6. OnceIn(r)
  BY <1>1, <1>2, <1>3, <1>5 DEF OnceIn
<1>7. Elems(r) = Elems(q) \cup {x}
  BY <1>1, <1>2, <1>3, <1>4, <1>4a DEF Elems
<1>8. QED
  BY <1>2, <1>6, <1>7 DEF r

-----------------------------------------------------------------------------
(* All the lists.                                                          *)

\* No session is on two lists, or twice on one.
Separate(Q) ==
  /\ \A h \in List : OnceIn(Q[h])
  /\ \A g, h \in List : g # h => Elems(Q[g]) \cap Elems(Q[h]) = {}

\* Pointers l are those of lists that hold Q.
Lists(l, Q, half) ==
  /\ l \in Pointers /\ Q \in Queues /\ Separate(Q)
  /\ \A h \in List : Chained(l, h, Q[h], half)

OnNone(Q, x) == \A h \in List : x \notin Elems(Q[h])

\* Without and the appending of the actions, for any lists.
Drop(Q, s) ==
  [h \in List |->
     IF \E k \in DOMAIN Q[h] : Q[h][k] = s
     THEN RemovedAt(Q[h], CHOOSE k \in DOMAIN Q[h] : Q[h][k] = s)
     ELSE Q[h]]
Add(Q, h, s) == [Q EXCEPT ![h] = Append(@, s)]

\* What the lists hold when a session is taken off them.
LEMMA DropProps ==
  ASSUME NEW Q \in Queues, Separate(Q), NEW s \in Sess
  PROVE  /\ Drop(Q, s) \in Queues /\ Separate(Drop(Q, s))
         /\ \A h \in List : Elems(Drop(Q, s)[h]) = Elems(Q[h]) \ {s}
         /\ \A h \in List : s \notin Elems(Q[h]) => Drop(Q, s)[h] = Q[h]
         /\ \A h \in List : \A k \in 1 .. Len(Q[h]) :
              Q[h][k] = s => Drop(Q, s)[h] = RemovedAt(Q[h], k)
<1> DEFINE D == Drop(Q, s)
<1>1. ASSUME NEW h \in List
      PROVE  /\ D[h] \in Seq(Sess) /\ OnceIn(D[h])
             /\ Elems(D[h]) = Elems(Q[h]) \ {s}
             /\ s \notin Elems(Q[h]) => D[h] = Q[h]
             /\ \A k \in 1 .. Len(Q[h]) :
                  Q[h][k] = s => D[h] = RemovedAt(Q[h], k)
  <2>0. /\ Q[h] \in Seq(Sess) /\ OnceIn(Q[h]) /\ DOMAIN Q[h] = 1 .. Len(Q[h])
    BY SeqProps DEF Separate, Queues
  <2>1. CASE s \in Elems(Q[h])
    <3>1. PICK k \in 1 .. Len(Q[h]) : Q[h][k] = s
      BY <2>0, <2>1 DEF Elems
    <3>2. \A j \in 1 .. Len(Q[h]) : Q[h][j] = s => j = k
      BY <2>0, <3>1 DEF OnceIn
    <3>3. (CHOOSE j \in DOMAIN Q[h] : Q[h][j] = s) = k
      BY <2>0, <3>1, <3>2
    <3>4. D[h] = RemovedAt(Q[h], k)
      BY <2>0, <3>1, <3>3 DEF Drop
    <3>5. /\ RemovedAt(Q[h], k) \in Seq(Sess) /\ OnceIn(RemovedAt(Q[h], k))
          /\ Elems(RemovedAt(Q[h], k)) = Elems(Q[h]) \ {Q[h][k]}
      BY <2>0, RemovedProps
    <3> HIDE DEF D
    <3>6. QED
      BY <2>1, <3>1, <3>2, <3>4, <3>5
  <2>2. CASE s \notin Elems(Q[h])
    <3>1. \A k \in 1 .. Len(Q[h]) : Q[h][k] # s
      BY <2>0, <2>2 DEF Elems
    <3>2. D[h] = Q[h]
      BY <2>0, <3>1 DEF Drop
    <3> HIDE DEF D
    <3>3. QED
      BY <2>0, <2>2, <3>1, <3>2
  <2>3. QED
    BY <2>1, <2>2
<1>2. D = [h \in List |-> D[h]]
  BY DEF Drop
<1> HIDE DEF D
<1>3. D \in Queues
  BY <1>1, <1>2 DEF Queues
<1>4. Separate(D)
  BY <1>1 DEF Separate
<1>5. QED
  BY <1>1, <1>3, <1>4 DEF D

\* What the lists hold when a session is put at the end of one.
LEMMA AddProps ==
  ASSUME NEW Q \in Queues, Separate(Q), NEW s \in Sess,
         OnNone(Q, s), NEW h \in List
  PROVE  /\ Add(Q, h, s) \in Queues /\ Separate(Add(Q, h, s))
         /\ Add(Q, h, s)[h] = Append(Q[h], s)
         /\ Elems(Add(Q, h, s)[h]) = Elems(Q[h]) \cup {s}
         /\ \A g \in List : g # h => Add(Q, h, s)[g] = Q[g]
<1> DEFINE A == Add(Q, h, s)
<1>1. /\ Append(Q[h], s) \in Seq(Sess)
      /\ OnceIn(Append(Q[h], s))
      /\ Elems(Append(Q[h], s)) = Elems(Q[h]) \cup {s}
  BY AppendProps DEF Separate, OnNone, Queues
<1>2. A \in Queues
  BY <1>1 DEF Add, Queues
<1>3. A[h] = Append(Q[h], s) /\ \A g \in List : g # h => A[g] = Q[g]
  BY DEF Add, Queues
<1> HIDE DEF A
<1>4. Separate(A)
  <2>1. ASSUME NEW g \in List, NEW f \in List, g # f
        PROVE  Elems(A[g]) \cap Elems(A[f]) = {}
    <3>1. /\ Elems(Q[g]) \cap Elems(Q[f]) = {}
          /\ s \notin Elems(Q[g]) /\ s \notin Elems(Q[f])
      BY <2>1 DEF Separate, OnNone
    <3>2. /\ g = h \/ A[g] = Q[g]
          /\ f = h \/ A[f] = Q[f]
          /\ Elems(A[h]) = Elems(Q[h]) \cup {s}
      BY <1>1, <1>3
    <3>3. QED
      BY <2>1, <3>1, <3>2
  <2>2. ASSUME NEW g \in List
        PROVE  OnceIn(A[g])
    <3>1. g = h \/ A[g] = Q[g]
      BY <1>3
    <3>2. QED
      BY <1>1, <1>3, <3>1 DEF Separate
  <2>3. QED
    BY <2>1, <2>2 DEF Separate
<1>5. QED
  BY <1>1, <1>2, <1>3, <1>4 DEF A

\* Pointers that differ on the nodes of one list only.
LEMMA OtherLists ==
  ASSUME NEW l, NEW r, NEW Q, NEW half, Lists(l, Q, half),
         NEW g \in List, NEW x \in Sess,
         \A n \in Node : n # g /\ n # x /\ n \notin Elems(Q[g]) => r[n] = l[n],
         \A h \in List : h # g => x \notin Elems(Q[h])
  PROVE  /\ \A h \in List : h # g => Chained(r, h, Q[h], half)
         /\ \A n \in Sess : OnNone(Q, n) /\ n # x => r[n] = l[n]
<1>1. ASSUME NEW h \in List, h # g
      PROVE  Chained(r, h, Q[h], half)
  <2>1. Q[h] \in Seq(Sess) /\ Q[g] \in Seq(Sess) /\ Chained(l, h, Q[h], half)
    BY DEF Lists, Queues
  <2>2. Elems(Q[h]) \subseteq Sess /\ Elems(Q[g]) \subseteq Sess
    BY <2>1, NodeProps
  <2>3. Elems(Q[g]) \cap Elems(Q[h]) = {}
    BY <1>1 DEF Lists, Separate
  <2>4. \A n \in Node : n = h \/ n \in Elems(Q[h]) => r[n] = l[n]
    BY <1>1, <2>2, <2>3, HeadProps
  <2>5. QED
    BY <2>1, <2>4, ChainFrame
<1>2. ASSUME NEW n \in Sess, OnNone(Q, n), n # x
      PROVE  r[n] = l[n]
  BY <1>2, HeadProps DEF OnNone
<1>3. QED
  BY <1>1, <1>2

\* dt_queue_remove, of a session that is on a list; half of another removal
\* may be done on another list.
LEMMA DropLists ==
  ASSUME NEW l, NEW Q, NEW half \in SUBSET Sess, Lists(l, Q, half),
         NEW g \in List, NEW s \in Elems(Q[g]), half \cap Elems(Q[g]) = {}
  PROVE  /\ Lists(Remove(l, s), Drop(Q, s), half)
         /\ \A n \in Sess : OnNone(Q, n) => Remove(l, s)[n] = l[n]
<1> DEFINE r == Remove(l, s)
           D == Drop(Q, s)
<1>0. /\ l \in Pointers /\ Q \in Queues /\ Separate(Q)
      /\ Q[g] \in Seq(Sess) /\ OnceIn(Q[g]) /\ Chained(l, g, Q[g], half)
      /\ DOMAIN Q[g] = 1 .. Len(Q[g]) /\ Elems(Q[g]) \subseteq Sess
  BY SeqProps, NodeProps DEF Lists, Separate, Queues
<1>1. PICK k \in 1 .. Len(Q[g]) : Q[g][k] = s
  BY <1>0 DEF Elems
<1>2. s \in Sess /\ \A h \in List : h # g => s \notin Elems(Q[h])
  BY <1>0 DEF Separate
<1>3. /\ D \in Queues /\ Separate(D)
      /\ \A h \in List : Elems(D[h]) = Elems(Q[h]) \ {s}
      /\ \A h \in List : h # g => D[h] = Q[h]
      /\ D[g] = RemovedAt(Q[g], k)
  <2>1. /\ D \in Queues /\ Separate(D)
        /\ \A h \in List : Elems(D[h]) = Elems(Q[h]) \ {s}
        /\ \A h \in List : s \notin Elems(Q[h]) => D[h] = Q[h]
        /\ \A h \in List : \A j \in 1 .. Len(Q[h]) :
             Q[h][j] = s => D[h] = RemovedAt(Q[h], j)
    BY <1>0, <1>2, DropProps
  <2> HIDE DEF D
  <2>2. QED
    BY <1>1, <1>2, <2>1
<1>4. Chained(l, g, Q[g], {})
  BY <1>0, ChainHalf
<1>5. LET m == Remove(l, Q[g][k]) IN
      /\ m \in Pointers
      /\ Chained(m, g, RemovedAt(Q[g], k), {})
      /\ \A n \in Node : n # g /\ n \notin Elems(Q[g]) => m[n] = l[n]
  BY <1>0, <1>4, RemoveProps
<1>6. /\ r \in Pointers /\ Chained(r, g, D[g], {})
      /\ \A n \in Node : n # g /\ n \notin Elems(Q[g]) => r[n] = l[n]
  BY <1>1, <1>3, <1>5
<1> HIDE DEF r, D
<1>7. Chained(r, g, D[g], half)
  <2>1. D[g] \in Seq(Sess) /\ {} \cap Elems(D[g]) = half \cap Elems(D[g])
        /\ {} \in SUBSET Sess
    BY <1>3 DEF Queues
  <2>2. QED
    BY <1>6, <2>1, ChainHalf
<1>8. /\ \A h \in List : h # g => Chained(r, h, Q[h], half)
      /\ \A n \in Sess : OnNone(Q, n) => r[n] = l[n]
  <2>1. \A n \in Node : n # g /\ n # s /\ n \notin Elems(Q[g]) => r[n] = l[n]
    BY <1>6
  <2>2. /\ \A h \in List : h # g => Chained(r, h, Q[h], half)
        /\ \A n \in Sess : OnNone(Q, n) /\ n # s => r[n] = l[n]
    BY <1>2, <2>1, OtherLists
  <2>3. ~OnNone(Q, s)
    BY DEF OnNone
  <2>4. QED
    BY <2>2, <2>3
<1>9. \A h \in List : Chained(r, h, D[h], half)
  BY <1>3, <1>7, <1>8
<1>10. QED
  BY <1>3, <1>6, <1>8, <1>9 DEF Lists, r, D

\* dt_queue_insert_tail, of a session that is on no list.
LEMMA AddLists ==
  ASSUME NEW l, NEW Q, NEW half \in SUBSET Sess, Lists(l, Q, half),
         NEW g \in List, NEW s \in Sess, OnNone(Q, s),
         half \cap Elems(Q[g]) = {}, s \notin half
  PROVE  /\ Lists(InsertTail(l, g, s), Add(Q, g, s), half)
         /\ \A n \in Sess :
              OnNone(Q, n) /\ n # s => InsertTail(l, g, s)[n] = l[n]
<1> DEFINE r == InsertTail(l, g, s)
           A == Add(Q, g, s)
<1>0. /\ l \in Pointers /\ Q \in Queues /\ Separate(Q)
      /\ Q[g] \in Seq(Sess) /\ OnceIn(Q[g]) /\ Chained(l, g, Q[g], half)
  BY DEF Lists, Separate, Queues
<1>1. /\ A \in Queues /\ Separate(A)
      /\ A[g] = Append(Q[g], s) /\ Elems(A[g]) = Elems(Q[g]) \cup {s}
      /\ \A h \in List : h # g => A[h] = Q[h]
  BY <1>0, AddProps
<1>2. Chained(l, g, Q[g], {})
  BY <1>0, ChainHalf
<1>3. /\ r \in Pointers /\ Chained(r, g, Append(Q[g], s), {})
      /\ \A n \in Node : n # g /\ n # s /\ n \notin Elems(Q[g]) => r[n] = l[n]
  <2>1. s \notin Elems(Q[g])
    BY DEF OnNone
  <2>2. QED
    BY <1>0, <1>2, <2>1, InsertProps
<1> HIDE DEF r, A
<1>4. Chained(r, g, A[g], half)
  <2>1. A[g] \in Seq(Sess) /\ {} \cap Elems(A[g]) = half \cap Elems(A[g])
        /\ {} \in SUBSET Sess /\ Chained(r, g, A[g], {})
    BY <1>1, <1>3 DEF Queues
  <2>2. QED
    BY <2>1, ChainHalf
<1>5. /\ \A h \in List : h # g => Chained(r, h, Q[h], half)
      /\ \A n \in Sess : OnNone(Q, n) /\ n # s => r[n] = l[n]
  <2>1. \A h \in List : h # g => s \notin Elems(Q[h])
    BY DEF OnNone
  <2>2. QED
    BY <1>3, <2>1, OtherLists
<1>6. \A h \in List : Chained(r, h, A[h], half)
  BY <1>1, <1>4, <1>5
<1>7. QED
  BY <1>1, <1>3, <1>5, <1>6 DEF Lists, r, A

\* The two assignments of dt_queue_remove one by one, of a session that is on
\* a list or points at itself.
LEMMA BeginLists ==
  ASSUME NEW l, NEW Q, Lists(l, Q, {}), NEW s \in Sess,
         OnNone(Q, s) => l[s] = [prev |-> s, next |-> s]
  PROVE  /\ Lists(RemoveNext(l, s), Q, {s})
         /\ \A n \in Sess : OnNone(Q, n) => RemoveNext(l, s)[n] = l[n]
<1> DEFINE r == RemoveNext(l, s)
<1>0. l \in Pointers /\ Q \in Queues /\ Separate(Q)
  BY DEF Lists
<1>1. ASSUME NEW m, NEW h \in List, s \notin Elems(Q[h]),
             Chained(m, h, Q[h], {})
      PROVE  Chained(m, h, Q[h], {s})
  <2>1. Q[h] \in Seq(Sess) /\ {} \cap Elems(Q[h]) = {s} \cap Elems(Q[h])
        /\ {} \in SUBSET Sess /\ {s} \in SUBSET Sess
    BY <1>0, <1>1 DEF Queues
  <2>2. QED
    BY <1>1, <2>1, ChainHalf
<1>2. CASE OnNone(Q, s)
  <2>1. r = l
    BY <1>0, <1>2, RemoveUnlinked
  <2>2. \A h \in List : Chained(l, h, Q[h], {s})
    BY <1>1, <1>2 DEF Lists, OnNone
  <2>3. QED
    BY <1>0, <2>1, <2>2 DEF Lists
<1>3. ASSUME NEW g \in List, s \in Elems(Q[g])
      PROVE  /\ Lists(r, Q, {s})
             /\ \A n \in Sess : OnNone(Q, n) => r[n] = l[n]
  <2>0. /\ Q[g] \in Seq(Sess) /\ OnceIn(Q[g]) /\ Chained(l, g, Q[g], {})
        /\ DOMAIN Q[g] = 1 .. Len(Q[g])
    BY <1>0, SeqProps DEF Lists, Separate, Queues
  <2>1. PICK k \in 1 .. Len(Q[g]) : Q[g][k] = s
    BY <1>3, <2>0 DEF Elems
  <2>2. LET m == RemoveNext(l, Q[g][k]) IN
        /\ m \in Pointers
        /\ Chained(m, g, Q[g], {Q[g][k]})
        /\ \A n \in Node : n # g /\ n \notin Elems(Q[g]) => m[n] = l[n]
    BY <1>0, <2>0, RemoveBegins
  <2>3. /\ r \in Pointers /\ Chained(r, g, Q[g], {s})
        /\ \A n \in Node : n # g /\ n \notin Elems(Q[g]) => r[n] = l[n]
    BY <2>1, <2>2
  <2> HIDE DEF r
  <2>4. /\ \A h \in List : h # g => Chained(r, h, Q[h], {})
        /\ \A n \in Sess : OnNone(Q, n) => r[n] = l[n]
    <3>1. \A n \in Node : n # g /\ n # s /\ n \notin Elems(Q[g]) => r[n] = l[n]
      BY <2>3
    <3>2. \A h \in List : h # g => s \notin Elems(Q[h])
      BY <1>0, <1>3 DEF Separate
    <3>3. /\ \A h \in List : h # g => Chained(r, h, Q[h], {})
          /\ \A n \in Sess : OnNone(Q, n) /\ n # s => r[n] = l[n]
      BY <3>1, <3>2, OtherLists
    <3>4. ~OnNone(Q, s)
      BY <1>3 DEF OnNone
    <3>5. QED
      BY <3>3, <3>4
  <2>5. ASSUME NEW h \in List, h # g
        PROVE  Chained(r, h, Q[h], {s})
    <3>1. s \notin Elems(Q[h])
      BY <1>0, <1>3, <2>5 DEF Separate
    <3>2. QED
      BY <1>1, <2>4, <2>5, <3>1
  <2>6. QED
    BY <1>0, <2>3, <2>4, <2>5 DEF Lists
<1>4. QED
  BY <1>2, <1>3 DEF OnNone

\* The second assignment.
LEMMA EndLists ==
  ASSUME NEW l, NEW Q, NEW s \in Sess, Lists(l, Q, {s}),
         OnNone(Q, s) => l[s] = [prev |-> s, next |-> s]
  PROVE  /\ Lists(RemovePrev(l, s), Drop(Q, s), {})
         /\ \A n \in Sess : OnNone(Q, n) => RemovePrev(l, s)[n] = l[n]
<1> DEFINE r == RemovePrev(l, s)
           D == Drop(Q, s)
<1>0. l \in Pointers /\ Q \in Queues /\ Separate(Q)
  BY DEF Lists
<1>d. /\ D \in Queues /\ Separate(D)
      /\ \A h \in List : Elems(D[h]) = Elems(Q[h]) \ {s}
      /\ \A h \in List : s \notin Elems(Q[h]) => D[h] = Q[h]
      /\ \A h \in List : \A k \in 1 .. Len(Q[h]) :
           Q[h][k] = s => D[h] = RemovedAt(Q[h], k)
  BY <1>0, DropProps
<1> HIDE DEF D
<1>1. ASSUME NEW m, NEW h \in List, s \notin Elems(Q[h]),
             Chained(m, h, Q[h], {s})
      PROVE  Chained(m, h, D[h], {})
  <2>1. Q[h] \in Seq(Sess) /\ {} \cap Elems(Q[h]) = {s} \cap Elems(Q[h])
        /\ {} \in SUBSET Sess /\ {s} \in SUBSET Sess
    BY <1>0, <1>1 DEF Queues
  <2>2. Chained(m, h, Q[h], {})
    BY <1>1, <2>1, ChainHalf
  <2>3. QED
    BY <1>1, <1>d, <2>2
<1>2. CASE OnNone(Q, s)
  <2>1. r = l
    BY <1>0, <1>2, RemoveUnlinked
  <2>2. \A h \in List : Chained(l, h, D[h], {})
    BY <1>1, <1>2 DEF Lists, OnNone
  <2>3. QED
    BY <1>0, <1>d, <2>1, <2>2 DEF Lists, D
<1>3. ASSUME NEW g \in List, s \in Elems(Q[g])
      PROVE  /\ Lists(r, D, {})
             /\ \A n \in Sess : OnNone(Q, n) => r[n] = l[n]
  <2>0. /\ Q[g] \in Seq(Sess) /\ OnceIn(Q[g]) /\ Chained(l, g, Q[g], {s})
        /\ DOMAIN Q[g] = 1 .. Len(Q[g])
    BY <1>0, SeqProps DEF Lists, Separate, Queues
  <2>1. PICK k \in 1 .. Len(Q[g]) : Q[g][k] = s
    BY <1>3, <2>0 DEF Elems
  <2>2. LET m == RemovePrev(l, Q[g][k]) IN
        /\ m \in Pointers
        /\ Chained(m, g, RemovedAt(Q[g], k), {})
        /\ \A n \in Node : n # g /\ n \notin Elems(Q[g]) => m[n] = l[n]
    BY <1>0, <2>0, <2>1, RemoveEnds
  <2>3. /\ r \in Pointers /\ Chained(r, g, D[g], {})
        /\ \A n \in Node : n # g /\ n \notin Elems(Q[g]) => r[n] = l[n]
    BY <1>d, <2>1, <2>2
  <2> HIDE DEF r
  <2>4. /\ \A h \in List : h # g => Chained(r, h, Q[h], {s})
        /\ \A n \in Sess : OnNone(Q, n) => r[n] = l[n]
    <3>1. \A n \in Node : n # g /\ n # s /\ n \notin Elems(Q[g]) => r[n] = l[n]
      BY <2>3
    <3>2. \A h \in List : h # g => s \notin Elems(Q[h])
      BY <1>0, <1>3 DEF Separate
    <3>3. /\ \A h \in List : h # g => Chained(r, h, Q[h], {s})
          /\ \A n \in Sess : OnNone(Q, n) /\ n # s => r[n] = l[n]
      BY <3>1, <3>2, OtherLists
    <3>4. ~OnNone(Q, s)
      BY <1>3 DEF OnNone
    <3>5. QED
      BY <3>3, <3>4
  <2>5. ASSUME NEW h \in List, h # g
        PROVE  Chained(r, h, D[h], {})
    <3>1. s \notin Elems(Q[h])
      BY <1>0, <1>3, <2>5 DEF Separate
    <3>2. QED
      BY <1>1, <2>4, <2>5, <3>1
  <2>6. QED
    BY <1>d, <2>3, <2>4, <2>5 DEF Lists
<1>4. QED
  BY <1>2, <1>3 DEF OnNone, D

\* The first session of a list, and a list without one.
LEMMA FirstOf ==
  ASSUME NEW l, NEW Q, NEW half \in SUBSET Sess, Lists(l, Q, half),
         NEW h \in List
  PROVE  /\ l[h].next \in Sess => l[h].next \in Elems(Q[h])
         /\ QueueEmpty(l, h) /\ half = {} => Elems(Q[h]) = {}
<1> DEFINE q == Q[h]
<1>0. /\ q \in Seq(Sess) /\ Chained(l, h, q, half) /\ Len(q) \in Nat
      /\ DOMAIN q = 1 .. Len(q) /\ h \notin Sess
  BY SeqProps, HeadProps DEF Lists, Queues
<1> HIDE DEF q
<1>1. /\ NodeAt(h, q, 0) = h /\ NodeAt(h, q, Len(q) + 1) = h
      /\ NodeAt(h, q, 1) = h \/ NodeAt(h, q, 1) \in Elems(q)
      /\ \A i \in 1 .. Len(q) : NodeAt(h, q, i) = q[i]
      /\ Elems(q) \subseteq Sess
  BY <1>0, NodeProps
<1>2. l[h].next = NodeAt(h, q, 1)
  <2>1. 0 \in 0 .. Len(q) /\ 0 + 1 = 1
    BY <1>0
  <2>2. l[NodeAt(h, q, 0)].next = NodeAt(h, q, 0 + 1)
    BY <1>0, <2>1 DEF Chained
  <2>3. QED
    BY <1>1, <2>1, <2>2
<1>3. ASSUME QueueEmpty(l, h), half = {}
      PROVE  Elems(q) = {}
  <2>1. Len(q) \in 0 .. Len(q)
    BY <1>0
  <2>2. l[h].prev = NodeAt(h, q, Len(q))
    BY <1>0, <1>1, <1>3, <2>1 DEF Chained
  <2>3. NodeAt(h, q, Len(q)) = h
    BY <1>3, <2>2 DEF QueueEmpty
  <2>4. CASE Len(q) = 0
    BY <1>0, <2>4 DEF Elems
  <2>5. CASE Len(q) # 0
    <3>1. Len(q) \in 1 .. Len(q)
      BY <1>0, <2>5
    <3>2. q[Len(q)] \in Elems(q)
      BY <1>0, <3>1 DEF Elems
    <3>3. QED
      BY <1>0, <1>1, <2>3, <3>1, <3>2
  <2>6. QED
    BY <2>4, <2>5
<1>4. QED
  BY <1>0, <1>1, <1>2, <1>3 DEF q

-----------------------------------------------------------------------------
(* The invariant.                                                          *)

\* The model's name for it.
LEMMA HoldsElems == \A h \in List : Holds(h) = Elems(queue[h])
BY DEF Holds, Elems

\* OnOneList, list by list.
LEMMA SeparateIs ==
  ASSUME NEW Q \in Queues
  PROVE  (\A g, h \in List : \A i \in DOMAIN Q[g], j \in DOMAIN Q[h] :
            Q[g][i] = Q[h][j] => g = h /\ i = j) <=> Separate(Q)
<1> DEFINE One == \A g, h \in List : \A i \in DOMAIN Q[g], j \in DOMAIN Q[h] :
                    Q[g][i] = Q[h][j] => g = h /\ i = j
<1>1. ASSUME One
      PROVE  Separate(Q)
  <2>1. ASSUME NEW h \in List
        PROVE  OnceIn(Q[h])
    BY <1>1 DEF OnceIn
  <2>2. ASSUME NEW g \in List, NEW h \in List, g # h
        PROVE  Elems(Q[g]) \cap Elems(Q[h]) = {}
    BY <1>1, <2>2 DEF Elems
  <2>3. QED
    BY <2>1, <2>2 DEF Separate
<1>2. ASSUME Separate(Q)
      PROVE  One
  <2>1. SUFFICES ASSUME NEW g \in List, NEW h \in List,
                        NEW i \in DOMAIN Q[g], NEW j \in DOMAIN Q[h],
                        Q[g][i] = Q[h][j]
                 PROVE  g = h /\ i = j
    OBVIOUS
  <2>2. Q[g][i] \in Elems(Q[g]) /\ Q[h][j] \in Elems(Q[h])
    BY DEF Elems
  <2>3. g = h
    BY <1>2, <2>1, <2>2 DEF Separate
  <2>4. QED
    BY <1>2, <2>1, <2>3 DEF Separate, OnceIn
<1>3. QED
  BY <1>1, <1>2

\* TypeOK is about the pointers and the lists, and about the rest.
Flat ==
  /\ st \in [Sess -> {"NONE", "INITED", "WATTING", "EST", "CLEAN", "ERROR"}]
  /\ base \in [Sess -> Child \cup {None}]
  /\ users \in [Sess -> 0 .. 2]
  /\ tmr \subseteq Sess /\ fresh \subseteq Sess /\ taken \subseteq Sess
  /\ phase \in {"drain", "timeouts", "fired", "uninit", "events", "attach"}
  /\ cur \in (Sess \cup {None}) \X (Child \cup {None})

\* The invariant in terms of all the lists.
LEMMA InvIs ==
  IInv <=> /\ Flat /\ Lists(link, queue, Half)
           /\ DownInv /\ ChildInv /\ FreeInv /\ AttachInv /\ UninitInv
<1>1. TypeOK <=>
        Flat /\ link \in Pointers /\ queue \in Queues
  BY DEF TypeOK, Flat, Pointers, Queues
<1>2. queue \in Queues => (OnOneList <=> Separate(queue))
  <2>1. SUFFICES ASSUME queue \in Queues
                 PROVE  OnOneList <=> Separate(queue)
    OBVIOUS
  <2>2. (\A g, h \in List :
           \A i \in DOMAIN queue[g], j \in DOMAIN queue[h] :
             queue[g][i] = queue[h][j] => g = h /\ i = j)
          <=> Separate(queue)
    BY <2>1, SeparateIs
  <2>3. QED
    BY <2>2 DEF OnOneList
<1>3. ChainInv <=> \A h \in List : Chained(link, h, queue[h], Half)
  BY DEF ChainInv
<1>4. QED
  BY <1>1, <1>2, <1>3 DEF IInv, Lists

\* The same, after a step.
LEMMA InvIsPrime ==
  IInv' <=> /\ Flat' /\ Lists(link', queue', Half')
           /\ DownInv' /\ ChildInv' /\ FreeInv' /\ AttachInv' /\ UninitInv'
<1>1. TypeOK' <=>
        Flat' /\ link' \in Pointers /\ queue' \in Queues
  BY DEF TypeOK, Flat, Pointers, Queues
<1>2. queue' \in Queues => (OnOneList' <=> Separate(queue'))
  <2>1. SUFFICES ASSUME queue' \in Queues
                 PROVE  OnOneList' <=> Separate(queue')
    OBVIOUS
  <2>2. (\A g, h \in List :
           \A i \in DOMAIN queue'[g], j \in DOMAIN queue'[h] :
             queue'[g][i] = queue'[h][j] => g = h /\ i = j)
          <=> Separate(queue')
    BY <2>1, SeparateIs
  <2>3. QED
    BY <2>2 DEF OnOneList
<1>3. ChainInv' <=> \A h \in List : Chained(link', h, queue'[h], Half')
  BY DEF ChainInv
<1>4. QED
  BY <1>1, <1>2, <1>3 DEF IInv, Lists

\* Where a session may be: DownInv, ChildInv and FreeInv for one session.
Place(s) ==
  /\ s \in Elems(queue[Down]) =>
       /\ st[s] # "NONE" /\ base[s] = None /\ s \notin tmr \cup taken
       /\ users[s] = 0 \/ s \in fresh \/ phase = "drain"
  /\ \A c \in Child :
       s \in Elems(queue[Wait(c)]) \cup Elems(queue[Served(c)]) <=> base[s] = c
  /\ base[s] # None => /\ st[s] # "NONE" /\ users[s] = 2
                       /\ s \notin tmr \cup taken
  /\ st[s] = "NONE" => users[s] = 0 /\ base[s] = None /\ s \notin tmr
  /\ st[s] # "NONE" /\ s \notin taken /\ OnNone(queue, s)
       => link[s] = [prev |-> s, next |-> s]

\* The invariant gives every session its place.
LEMMA Placed ==
  ASSUME IInv, NEW s \in Sess
  PROVE  /\ Place(s)
         /\ base[s] = None /\ s \notin Elems(queue[Down]) => OnNone(queue, s)
<1>1. DownInv /\ ChildInv /\ FreeInv /\ base[s] \in Child \cup {None}
  BY DEF IInv, TypeOK
<1>2. /\ Holds(Down) = Elems(queue[Down])
      /\ \A c \in Child : /\ Holds(Wait(c)) = Elems(queue[Wait(c)])
                          /\ Holds(Served(c)) = Elems(queue[Served(c)])
      /\ \A h \in List : Holds(h) = Elems(queue[h])
  BY HoldsElems, HeadProps
<1>3. s \in Elems(queue[Down]) =>
        /\ st[s] # "NONE" /\ base[s] = None /\ s \notin tmr \cup taken
        /\ users[s] = 0 \/ s \in fresh \/ phase = "drain"
  BY <1>1, <1>2 DEF DownInv
<1>4. \A c \in Child :
        s \in Elems(queue[Wait(c)]) \cup Elems(queue[Served(c)])
          <=> base[s] = c
  BY <1>1, <1>2 DEF ChildInv
<1>5. base[s] # None => /\ st[s] # "NONE" /\ users[s] = 2
                        /\ s \notin tmr \cup taken
  BY <1>1 DEF ChildInv
<1>6. base[s] = None /\ s \notin Elems(queue[Down]) => OnNone(queue, s)
  BY <1>4, NoneAssumption, HeadProps DEF OnNone
<1>7. /\ st[s] # "NONE" /\ s \notin taken /\ OnNone(queue, s)
           => link[s] = [prev |-> s, next |-> s]
      /\ st[s] = "NONE" => users[s] = 0 /\ base[s] = None /\ s \notin tmr
  BY <1>1, <1>2 DEF FreeInv, Unlinked, OnNone
<1>8. QED
  BY <1>3, <1>4, <1>5, <1>6, <1>7 DEF Place

\* The session that is being freed is on the main thread's list, and one whose
\* removal has begun has no child.
LEMMA BusyOne ==
  ASSUME IInv
  PROVE  /\ phase \in {"fired", "uninit"} =>
              /\ cur[1] \in Sess /\ cur[1] \in Elems(queue[Down])
              /\ st[cur[1]] = "ERROR" /\ users[cur[1]] = 0
              /\ base[cur[1]] = None /\ cur[1] \notin tmr \cup taken
         /\ Half \in SUBSET Sess
         /\ \A n \in Half : n \in Sess /\ base[n] = None
<1>1. ASSUME phase \in {"fired", "uninit"}
      PROVE  /\ cur[1] \in Sess /\ cur[1] \in Elems(queue[Down])
             /\ st[cur[1]] = "ERROR" /\ users[cur[1]] = 0
             /\ base[cur[1]] = None /\ cur[1] \notin tmr \cup taken
  <2>1. /\ cur[1] \in Holds(Down) /\ st[cur[1]] = "ERROR"
        /\ users[cur[1]] = 0
    BY <1>1 DEF IInv, UninitInv
  <2>2. Holds(Down) = Elems(queue[Down]) /\ Elems(queue[Down]) \subseteq Sess
    BY InvIs, HoldsElems, HeadProps, NodeProps DEF Lists, Queues
  <2>3. base[cur[1]] = None /\ cur[1] \notin tmr \cup taken
    BY <2>1 DEF IInv, DownInv
  <2>4. QED
    BY <2>1, <2>2, <2>3
<1>2. ASSUME phase = "attach"
      PROVE  cur[1] \in Sess /\ base[cur[1]] = None
  BY <1>2 DEF IInv, AttachInv
<1>3. QED
  BY <1>1, <1>2 DEF Half

\* A step on a session with a child leaves the one that is being freed alone.
LEMMA UninitStays ==
  ASSUME IInv, cur' = cur, phase' = phase, NEW s \in Sess, base[s] # None,
         \A x \in Sess : x # s =>
           /\ st'[x] = st[x] /\ users'[x] = users[x]
           /\ x \in Elems(queue[Down]) => x \in Elems(queue'[Down])
  PROVE  UninitInv'
<1>1. Holds(Down)' = Elems(queue'[Down])
  BY DEF Holds, Elems
<1>2. QED
  BY <1>1, BusyOne DEF UninitInv

\* The invariant holds again when every session has its place.
LEMMA Parts ==
  ASSUME \A s \in Sess : Place(s)',
         Flat', Lists(link', queue', Half'), AttachInv', UninitInv'
  PROVE  IInv'
<1>1. \A h \in List : Holds(h)' = Elems(queue'[h])
  BY DEF Holds, Elems
<1>2. Elems(queue'[Down]) \subseteq Sess
  BY NodeProps, HeadProps DEF Lists, Queues
<1>3. DownInv'
  BY <1>2 DEF DownInv, Place, Holds, Elems
<1>4. ChildInv'
  <2>1. \A c \in Child : /\ Holds(Wait(c))' = Elems(queue'[Wait(c)])
                         /\ Holds(Served(c))' = Elems(queue'[Served(c)])
    BY <1>1, HeadProps
  <2>2. ASSUME NEW s \in Sess, NEW c \in Child
        PROVE  /\ s \in Elems(queue'[Wait(c)]) \cup Elems(queue'[Served(c)])
                    <=> base'[s] = c
               /\ base'[s] = c => /\ st'[s] # "NONE" /\ users'[s] = 2
                                  /\ s \notin tmr' \cup taken'
    <3>1. Place(s)' /\ c # None
      BY NoneAssumption
    <3>2. s \in Elems(queue'[Wait(c)]) \cup Elems(queue'[Served(c)])
            <=> base'[s] = c
      BY <3>1 DEF Place
    <3>3. base'[s] # None => /\ st'[s] # "NONE" /\ users'[s] = 2
                             /\ s \notin tmr' \cup taken'
      BY <3>1 DEF Place
    <3>4. QED
      BY <3>1, <3>2, <3>3
  <2>3. QED
    BY <2>1, <2>2 DEF ChildInv
<1>5. FreeInv'
  <2>1. SUFFICES ASSUME NEW s \in Sess
                 PROVE  /\ st'[s] = "NONE" =>
                             users'[s] = 0 /\ base'[s] = None /\ s \notin tmr'
                        /\ st'[s] # "NONE" /\ s \notin taken'
                             /\ (\A h \in List : s \notin Holds(h)')
                             => link'[s] = [prev |-> s, next |-> s]
    BY DEF FreeInv, Unlinked
  <2>2. QED
    BY <1>1 DEF OnNone, Place
<1>6. QED
  BY <1>3, <1>4, <1>5, InvIsPrime

-----------------------------------------------------------------------------
(* The steps.                                                              *)

\* Every list is empty.
LEMMA InitInv == Init => IInv
<1> SUFFICES ASSUME Init
             PROVE  IInv
  OBVIOUS
<1>1. queue \in Queues /\ \A h \in List : queue[h] = <<>>
  BY DEF Init, Queues
<1>2. TypeOK
  BY <1>1, HeadProps DEF Init, TypeOK, Node
<1>3. \A h \in List : Len(queue[h]) = 0 /\ DOMAIN queue[h] = {}
  BY <1>1
<1>4. \A h \in List : Holds(h) = {}
  BY <1>3 DEF Holds
<1>5. ASSUME NEW h \in List
      PROVE  Chained(link, h, queue[h], Half)
  <2>1. Half = {} /\ link[h] = [prev |-> h, next |-> h]
    BY HeadProps DEF Init, Half
  <2>2. NodeAt(h, queue[h], 0) = h /\ NodeAt(h, queue[h], 1) = h
    BY <1>3 DEF NodeAt
  <2>3. \A i \in 0 .. Len(queue[h]) : i = 0 /\ i + 1 = 1
    BY <1>3
  <2>4. QED
    BY <2>1, <2>2, <2>3 DEF Chained
<1>6. ChainInv
  BY <1>5 DEF ChainInv
<1>7. OnOneList
  BY <1>3 DEF OnOneList
<1>8. DownInv /\ ChildInv
  BY <1>4, NoneAssumption, HeadProps DEF Init, DownInv, ChildInv
<1>9. FreeInv /\ AttachInv /\ UninitInv
  BY DEF Init, FreeInv, AttachInv, UninitInv
<1>10. QED
  BY <1>2, <1>6, <1>7, <1>8, <1>9 DEF IInv

\* main_event_cb takes the first session off its list.
LEMMA DrainTakeInv ==
  ASSUME IInv, DrainTake
  PROVE  IInv'
<1> DEFINE s == link[Down].next
<1>0. /\ Flat /\ Lists(link, queue, {}) /\ Half = {} /\ Half' = {}
      /\ s \in Sess /\ Down \in List
  BY InvIs, HeadProps DEF DrainTake, Half
<1>1. s \in Elems(queue[Down])
  BY <1>0, FirstOf
<1>2. /\ link' = Remove(link, s) /\ queue' = Drop(queue, s)
      /\ st' = [st EXCEPT ![s] = "INITED"] /\ tmr' = tmr \cup {s}
      /\ taken' = taken \cup {s} /\ base' = base /\ users' = users
      /\ phase' = phase /\ fresh' = fresh /\ cur' = cur /\ phase = "drain"
  BY DEF DrainTake, Without, Drop
<1> HIDE DEF s
<1>3. /\ Lists(link', queue', {})
      /\ \A n \in Sess : OnNone(queue, n) => link'[n] = link[n]
  BY <1>0, <1>1, <1>2, DropLists
<1>4. \A h \in List : Elems(queue'[h]) = Elems(queue[h]) \ {s}
  BY <1>0, <1>2, DropProps DEF Lists
<1>5. Flat' /\ AttachInv' /\ UninitInv'
  BY <1>0, <1>2 DEF Flat, AttachInv, UninitInv
<1>6. ASSUME NEW x \in Sess
      PROVE  Place(x)'
  <2>1. Place(x) /\ Place(s)
    BY <1>0, Placed
  <2>2. /\ Elems(queue'[Down]) = Elems(queue[Down]) \ {s}
        /\ \A c \in Child :
             /\ Elems(queue'[Wait(c)]) = Elems(queue[Wait(c)]) \ {s}
             /\ Elems(queue'[Served(c)]) = Elems(queue[Served(c)]) \ {s}
    BY <1>4, HeadProps
  <2>3. x # s /\ OnNone(queue', x) => OnNone(queue, x)
    BY <1>4 DEF OnNone
  <2>4. CASE x = s
    BY <1>0, <1>1, <1>2, <2>1, <2>2, <2>4, NoneAssumption DEF Place, Flat
  <2>5. CASE x # s
    <3>1. /\ st'[x] = st[x] /\ base'[x] = base[x] /\ users'[x] = users[x]
          /\ x \in tmr' <=> x \in tmr
          /\ x \in taken' <=> x \in taken
          /\ x \in fresh' <=> x \in fresh
          /\ phase' = phase
      BY <1>0, <1>2, <2>5 DEF Flat
    <3>2. /\ x \in Elems(queue'[Down]) <=> x \in Elems(queue[Down])
          /\ \A c \in Child :
               x \in Elems(queue'[Wait(c)]) \cup Elems(queue'[Served(c)])
                 <=> x \in Elems(queue[Wait(c)]) \cup Elems(queue[Served(c)])
      BY <2>2, <2>5
    <3>3. OnNone(queue', x) => OnNone(queue, x) /\ link'[x] = link[x]
      BY <1>3, <2>3, <2>5
    <3>4. QED
      BY <2>1, <3>1, <3>2, <3>3 DEF Place
  <2>6. QED
    BY <2>4, <2>5
<1>7. QED
  BY <1>0, <1>3, <1>5, <1>6, Parts

\* main_event_cb has emptied its list.
LEMMA DrainDoneInv ==
  ASSUME IInv, DrainDone
  PROVE  IInv'
<1>0. Flat /\ Lists(link, queue, {}) /\ Half' = {} /\ Down \in List
  BY InvIs, HeadProps DEF DrainDone, Half
<1>1. Elems(queue[Down]) = {}
  BY <1>0, FirstOf DEF DrainDone
<1>2. /\ link' = link /\ queue' = queue /\ st' = st /\ tmr' = tmr
      /\ taken' = taken /\ base' = base /\ users' = users /\ fresh' = fresh
      /\ cur' = cur /\ phase' = "timeouts"
  BY DEF DrainDone
<1>3. Flat' /\ AttachInv' /\ UninitInv' /\ Lists(link', queue', Half')
  BY <1>0, <1>2 DEF Flat, AttachInv, UninitInv
<1>4. ASSUME NEW x \in Sess
      PROVE  Place(x)'
  <2>1. Place(x)
    BY Placed
  <2>2. QED
    BY <1>1, <1>2, <2>1 DEF Place
<1>5. QED
  BY <1>3, <1>4, Parts

\* The main loop goes on; a session on its list waits for the drain.
LEMMA NextPhaseInv ==
  ASSUME IInv, NextPhase
  PROVE  IInv'
<1>0. Flat /\ Lists(link, queue, {}) /\ Half' = {}
  BY InvIs DEF NextPhase, Half
<1>1. /\ link' = link /\ queue' = queue /\ st' = st /\ tmr' = tmr
      /\ taken' = taken /\ base' = base /\ users' = users /\ cur' = cur
      /\ \/ phase = "timeouts" /\ phase' = "events" /\ fresh' = fresh
         \/ phase = "events" /\ phase' = "drain" /\ fresh' = {}
  BY DEF NextPhase
<1>2. Flat' /\ AttachInv' /\ UninitInv' /\ Lists(link', queue', Half')
  BY <1>0, <1>1 DEF Flat, AttachInv, UninitInv
<1>3. ASSUME NEW x \in Sess
      PROVE  Place(x)'
  <2>1. Place(x)
    BY Placed
  <2>2. QED
    BY <1>1, <2>1 DEF Place
<1>4. QED
  BY <1>2, <1>3, Parts

\* A session that is on the list gets a user, in this batch.
LEMMA BindInv ==
  ASSUME IInv, NEW s \in Sess, Bind(s)
  PROVE  IInv'
<1>0. Flat /\ Lists(link, queue, {}) /\ Half' = {}
  BY InvIs DEF Bind, Half
<1>1. /\ link' = link /\ queue' = queue /\ taken' = taken /\ base' = base
      /\ cur' = cur /\ phase' = phase /\ phase = "events" /\ users[s] = 0
      /\ users' = [users EXCEPT ![s] = 1] /\ tmr' = tmr \ {s}
      /\ st' = [st EXCEPT ![s] = "WATTING"] /\ fresh' = fresh \cup {s}
      /\ st[s] # "NONE"
  BY DEF Bind, InUse
<1>2. Flat' /\ AttachInv' /\ UninitInv' /\ Lists(link', queue', Half')
  BY <1>0, <1>1 DEF Flat, AttachInv, UninitInv
<1>3. ASSUME NEW x \in Sess
      PROVE  Place(x)'
  <2>1. Place(x)
    BY Placed
  <2>2. CASE x = s
    <3>1. base[x] = None
      BY <1>1, <2>1, <2>2 DEF Place
    <3>2. st'[x] = "WATTING" /\ x \in fresh' /\ x \notin tmr'
      BY <1>0, <1>1, <2>2 DEF Flat
    <3>3. QED
      BY <1>1, <2>1, <2>2, <3>1, <3>2 DEF Place
  <2>3. CASE x # s
    <3>1. st'[x] = st[x] /\ users'[x] = users[x] /\ (x \in tmr' <=> x \in tmr)
          /\ (x \in fresh' <=> x \in fresh)
      BY <1>0, <1>1, <2>3 DEF Flat
    <3>2. QED
      BY <1>1, <2>1, <3>1 DEF Place
  <2>4. QED
    BY <2>2, <2>3
<1>4. QED
  BY <1>2, <1>3, Parts

\* The session is in no step of being attached, for it has a child.
LEMMA SessionCleanInv ==
  ASSUME IInv, NEW s \in Sess, SessionClean(s)
  PROVE  IInv'
<1>0. Flat /\ Lists(link, queue, Half) /\ AttachInv
  BY InvIs
<1>1. /\ link' = link /\ queue' = queue /\ taken' = taken /\ base' = base
      /\ cur' = cur /\ phase' = phase /\ users' = users /\ tmr' = tmr
      /\ fresh' = fresh /\ st' = [st EXCEPT ![s] = "CLEAN"]
      /\ st[s] = "EST" /\ base[s] # None
  BY DEF SessionClean
<1>2. Half' = Half
  BY <1>1 DEF Half
<1>3. \A x \in Sess : st'[x] = "NONE" <=> st[x] = "NONE"
  BY <1>0, <1>1 DEF Flat
<1>4. Flat' /\ Lists(link', queue', Half')
  BY <1>0, <1>1, <1>2 DEF Flat
<1>5. AttachInv' /\ UninitInv'
  <2>1. AttachInv'
    BY <1>0, <1>1, <1>3 DEF AttachInv
  <2>2. \A x \in Sess : x # s => st'[x] = st[x]
    BY <1>0, <1>1 DEF Flat
  <2>3. QED
    BY <1>1, <2>1, <2>2, UninitStays
<1>6. ASSUME NEW x \in Sess
      PROVE  Place(x)'
  <2>1. Place(x)
    BY Placed
  <2>2. QED
    BY <1>1, <1>3, <2>1 DEF Place
<1>7. QED
  BY <1>4, <1>5, <1>6, Parts

\* The link of a session that does not exist is on no list.
LEMMA TicketInInv ==
  ASSUME IInv, NEW s \in Sess, TicketIn(s)
  PROVE  IInv'
<1>0. Flat /\ Lists(link, queue, {}) /\ Half' = {}
  BY InvIs DEF TicketIn, Half
<1>1. /\ link' = [link EXCEPT ![s] = [prev |-> s, next |-> s]]
      /\ st' = [st EXCEPT ![s] = "INITED"] /\ tmr' = tmr \cup {s}
      /\ taken' = taken \ {s} /\ base' = base /\ users' = users
      /\ phase' = phase /\ fresh' = fresh /\ queue' = queue /\ cur' = cur
      /\ phase = "events" /\ st[s] = "NONE"
  BY DEF TicketIn, QueueInit
<1>2. OnNone(queue, s)
  <2>1. Place(s) /\ (base[s] = None /\ s \notin Elems(queue[Down])
                       => OnNone(queue, s))
    BY Placed
  <2>2. QED
    BY <1>1, <2>1 DEF Place
<1>3. /\ link' \in Pointers /\ link'[s] = [prev |-> s, next |-> s]
      /\ \A n \in Node : n # s => link'[n] = link[n]
  BY <1>0, <1>1, HeadProps DEF Lists, Pointers
<1>4. Lists(link', queue', {})
  <2>1. ASSUME NEW h \in List
        PROVE  Chained(link', h, queue[h], {})
    <3>1. queue[h] \in Seq(Sess) /\ Chained(link, h, queue[h], {})
          /\ s \notin Elems(queue[h]) /\ s # h
      BY <1>0, <1>2, HeadProps DEF Lists, OnNone, Queues
    <3>2. \A n \in Node : n = h \/ n \in Elems(queue[h]) => link'[n] = link[n]
      BY <1>3, <3>1
    <3>3. QED
      BY <3>1, <3>2, ChainFrame
  <2>2. QED
    BY <1>0, <1>1, <1>3, <2>1 DEF Lists
<1>5. Flat' /\ AttachInv' /\ UninitInv'
  BY <1>0, <1>1 DEF Flat, AttachInv, UninitInv
<1>6. ASSUME NEW x \in Sess
      PROVE  Place(x)'
  <2>1. Place(x)
    BY Placed
  <2>2. CASE x = s
    <3>1. /\ x \notin Elems(queue[Down])
          /\ \A c \in Child : x \notin Elems(queue[Wait(c)])
                              /\ x \notin Elems(queue[Served(c)])
      BY <1>2, <2>2, HeadProps DEF OnNone
    <3>2. st'[x] = "INITED" /\ base[x] = None
      BY <1>0, <1>1, <2>1, <2>2 DEF Flat, Place
    <3>3. QED
      BY <1>1, <1>3, <2>1, <2>2, <3>1, <3>2 DEF Place
  <2>3. CASE x # s
    <3>1. st'[x] = st[x] /\ link'[x] = link[x] /\ (x \in tmr' <=> x \in tmr)
          /\ (x \in taken' <=> x \in taken)
      BY <1>0, <1>1, <1>3, <2>3, HeadProps DEF Flat
    <3>2. QED
      BY <1>1, <2>1, <3>1 DEF Place
  <2>4. QED
    BY <2>2, <2>3
<1>7. QED
  BY <1>0, <1>4, <1>5, <1>6, Parts

\* Without Reuse the session is on a list or has never been on one, so that
\* its removal is right in both cases.
LEMMA AttachBeginsInv ==
  ASSUME Reuse = FALSE, IInv, NEW s \in Sess, NEW c \in Child,
         AttachBegins(s, c)
  PROVE  IInv'
<1>0. Flat /\ Lists(link, queue, {})
  BY InvIs DEF AttachBegins, Half
<1>1. /\ link' = RemoveNext(link, s) /\ st' = st /\ base' = base
      /\ queue' = queue /\ taken' = taken /\ fresh' = fresh
      /\ users' = [users EXCEPT ![s] = 2] /\ tmr' = tmr \ {s}
      /\ phase = "events" /\ phase' = "attach" /\ cur' = <<s, c>>
      /\ s \notin taken /\ users[s] = 1 /\ st[s] # "NONE"
  BY DEF AttachBegins, InUse
<1>2. Half' = {s}
  BY <1>1 DEF Half
<1>3. Place(s)
  BY Placed
<1>4. base[s] = None /\ (OnNone(queue, s) => link[s] = [prev |-> s, next |-> s])
  BY <1>1, <1>3 DEF Place
<1>5. /\ Lists(link', queue', {s})
      /\ \A n \in Sess : OnNone(queue, n) => link'[n] = link[n]
  BY <1>0, <1>1, <1>4, BeginLists
<1>6. Flat'
  BY <1>0, <1>1 DEF Flat
<1>7. AttachInv' /\ UninitInv'
  <2>1. users'[s] = 2 /\ s \notin tmr'
    BY <1>0, <1>1 DEF Flat
  <2>2. QED
    BY <1>1, <1>4, <2>1 DEF AttachInv, UninitInv
<1>8. ASSUME NEW x \in Sess
      PROVE  Place(x)'
  <2>1. Place(x)
    BY Placed
  <2>2. OnNone(queue, x) => link'[x] = link[x]
    BY <1>5
  <2>3. CASE x = s
    <3>1. s \in Elems(queue[Down]) => s \in fresh
      BY <1>1, <1>3 DEF Place
    <3>2. QED
      BY <1>1, <1>4, <2>1, <2>2, <2>3, <3>1 DEF Place
  <2>4. CASE x # s
    <3>1. users'[x] = users[x] /\ (x \in tmr' <=> x \in tmr)
      BY <1>0, <1>1, <2>4 DEF Flat
    <3>2. QED
      BY <1>1, <2>1, <2>2, <3>1 DEF Place
  <2>5. QED
    BY <2>3, <2>4
<1>9. QED
  BY <1>2, <1>5, <1>6, <1>7, <1>8, Parts

\* A move is a removal and an insertion.
LEMMA MovedToIs ==
  ASSUME NEW h \in List, NEW s \in Sess
  PROVE  MovedTo(h, s) = Add(Drop(queue, s), h, s)
BY DEF MovedTo, Without, Add, Drop

\* A session that was removed, which gave pointers m, is put at the end of
\* list g; the others stay where they are.
LEMMA MoveLists ==
  ASSUME queue \in Queues, Separate(queue),
         NEW s \in Sess, NEW g \in List, NEW half \in SUBSET Sess, NEW m,
         Lists(m, Drop(queue, s), half), s \notin half,
         half \cap Elems(queue[g]) = {},
         \A n \in Sess : OnNone(queue, n) => m[n] = link[n],
         link' = InsertTail(m, g, s), queue' = MovedTo(g, s)
  PROVE  /\ Lists(link', queue', half)
         /\ s \in Elems(queue'[g]) /\ ~OnNone(queue', s)
         /\ \A h \in List : h # g => s \notin Elems(queue'[h])
         /\ \A x \in Sess : x # s =>
              /\ \A h \in List : x \in Elems(queue'[h]) <=> x \in Elems(queue[h])
              /\ OnNone(queue, x) => link'[x] = link[x]
<1> DEFINE D == Drop(queue, s)
           A == Add(D, g, s)
<1>1. queue' = A
  BY MovedToIs
<1>2. /\ D \in Queues /\ Separate(D)
      /\ \A h \in List : Elems(D[h]) = Elems(queue[h]) \ {s}
  BY DropProps
<1>3. Lists(m, D, half)
  OBVIOUS
<1> HIDE DEF D
<1>4. OnNone(D, s) /\ half \cap Elems(D[g]) = {}
  BY <1>2 DEF OnNone
<1>5. /\ A \in Queues /\ Separate(A)
      /\ A[g] = Append(D[g], s)
      /\ Elems(A[g]) = Elems(D[g]) \cup {s}
      /\ \A h \in List : h # g => A[h] = D[h]
  BY <1>2, <1>4, AddProps
<1>6. /\ Lists(InsertTail(m, g, s), A, half)
      /\ \A n \in Sess : OnNone(D, n) /\ n # s => InsertTail(m, g, s)[n] = m[n]
  BY <1>3, <1>4, AddLists
<1> HIDE DEF A
<1>7. s \in Elems(A[g]) /\ \A h \in List : h # g => s \notin Elems(A[h])
  BY <1>2, <1>5
<1>8. ASSUME NEW x \in Sess, x # s
      PROVE  /\ \A h \in List : x \in Elems(A[h]) <=> x \in Elems(queue[h])
             /\ OnNone(queue, x) => link'[x] = link[x]
  <2>1. \A h \in List : x \in Elems(D[h]) <=> x \in Elems(queue[h])
    BY <1>2, <1>8
  <2>2. ASSUME NEW h \in List
        PROVE  x \in Elems(A[h]) <=> x \in Elems(D[h])
    BY <1>5, <1>8
  <2>3. OnNone(queue, x) => OnNone(D, x)
    BY <2>1 DEF OnNone
  <2>4. QED
    BY <1>6, <1>8, <2>1, <2>2, <2>3
<1>9. ~OnNone(A, s)
  BY <1>7 DEF OnNone
<1>10. QED
  BY <1>1, <1>6, <1>7, <1>8, <1>9

\* The place of a session that nothing happened to.
LEMMA StaysPlaced ==
  ASSUME IInv, NEW x \in Sess,
         st'[x] = st[x], base'[x] = base[x], users'[x] = users[x],
         x \in tmr' <=> x \in tmr, x \in taken' <=> x \in taken,
         x \in fresh' <=> x \in fresh, phase = "drain" => phase' = "drain",
         \A h \in List : x \in Elems(queue'[h]) <=> x \in Elems(queue[h]),
         OnNone(queue, x) => link'[x] = link[x]
  PROVE  Place(x)'
<1>1. Place(x)
  BY Placed
<1>2. /\ x \in Elems(queue'[Down]) <=> x \in Elems(queue[Down])
      /\ \A c \in Child :
           /\ x \in Elems(queue'[Wait(c)]) <=> x \in Elems(queue[Wait(c)])
           /\ x \in Elems(queue'[Served(c)]) <=> x \in Elems(queue[Served(c)])
      /\ OnNone(queue', x) <=> OnNone(queue, x)
  BY HeadProps DEF OnNone
<1>3. QED
  BY <1>1, <1>2 DEF Place

\* The removal is completed, and the session waits for its child.
LEMMA SessionAttachInv ==
  ASSUME IInv, SessionAttach
  PROVE  IInv'
<1> DEFINE s == cur[1]
           c == cur[2]
<1>0. /\ Flat /\ Lists(link, queue, {s}) /\ Half' = {}
      /\ s \in Sess /\ c \in Child /\ st[s] # "NONE" /\ base[s] = None
      /\ users[s] = 2 /\ s \notin tmr \cup taken
  BY InvIs DEF SessionAttach, Half, AttachInv
<1>1. /\ link' = InsertTail(RemovePrev(link, s), Wait(c), s)
      /\ queue' = MovedTo(Wait(c), s) /\ base' = [base EXCEPT ![s] = c]
      /\ st' = st /\ users' = users /\ tmr' = tmr /\ fresh' = fresh
      /\ taken' = taken \ {s} /\ phase = "attach" /\ phase' = "events"
      /\ cur' = <<None, None>>
  BY DEF SessionAttach
<1> HIDE DEF s, c
<1>g. Wait(c) \in List
  BY <1>0, HeadProps
<1>3. Place(s)
  BY <1>0, Placed
<1>4. /\ Lists(RemovePrev(link, s), Drop(queue, s), {})
      /\ \A n \in Sess : OnNone(queue, n) => RemovePrev(link, s)[n] = link[n]
  <2>1. OnNone(queue, s) => link[s] = [prev |-> s, next |-> s]
    BY <1>0, <1>3 DEF Place
  <2>2. QED
    BY <1>0, <2>1, EndLists
<1>5. /\ Lists(link', queue', {})
      /\ s \in Elems(queue'[Wait(c)]) /\ ~OnNone(queue', s)
      /\ \A h \in List : h # Wait(c) => s \notin Elems(queue'[h])
      /\ \A x \in Sess : x # s =>
           /\ \A h \in List : x \in Elems(queue'[h]) <=> x \in Elems(queue[h])
           /\ OnNone(queue, x) => link'[x] = link[x]
  <2> DEFINE m == RemovePrev(link, s)
             half == {}
             g == Wait(c)
  <2>1. /\ Lists(m, Drop(queue, s), half)
        /\ \A n \in Sess : OnNone(queue, n) => m[n] = link[n]
        /\ half \in SUBSET Sess /\ s \notin half
        /\ half \cap Elems(queue[g]) = {}
        /\ link' = InsertTail(m, g, s) /\ queue' = MovedTo(g, s)
        /\ g \in List
    BY <1>1, <1>4, <1>g
  <2>2. queue \in Queues /\ Separate(queue) /\ s \in Sess
    BY <1>0 DEF Lists
  <2> HIDE DEF m, half, g
  <2>3. /\ Lists(link', queue', half)
        /\ s \in Elems(queue'[g]) /\ ~OnNone(queue', s)
        /\ \A h \in List : h # g => s \notin Elems(queue'[h])
        /\ \A x \in Sess : x # s =>
             /\ \A h \in List : x \in Elems(queue'[h]) <=> x \in Elems(queue[h])
             /\ OnNone(queue, x) => link'[x] = link[x]
    BY <2>1, <2>2, MoveLists
  <2>4. QED
    BY <2>3 DEF half, g
<1>6. Flat' /\ AttachInv' /\ UninitInv'
  BY <1>0, <1>1 DEF Flat, AttachInv, UninitInv
<1>7. ASSUME NEW x \in Sess
      PROVE  Place(x)'
  <2>1. CASE x = s
    <3>1. base'[s] = c /\ c # None
      BY <1>0, <1>1, NoneAssumption DEF Flat
    <3>2. /\ s \notin Elems(queue'[Down])
          /\ \A d \in Child : /\ d # c => s \notin Elems(queue'[Wait(d)])
                              /\ s \notin Elems(queue'[Served(d)])
      BY <1>0, <1>5, HeadProps
    <3>3. QED
      BY <1>0, <1>1, <1>5, <2>1, <3>1, <3>2 DEF Place
  <2>2. CASE x # s
    <3>1. base'[x] = base[x] /\ (x \in taken' <=> x \in taken)
      BY <1>0, <1>1, <2>2 DEF Flat
    <3>2. QED
      BY <1>1, <1>5, <2>2, <3>1, StaysPlaced
  <2>3. QED
    BY <2>1, <2>2
<1>8. QED
  BY <1>0, <1>5, <1>6, <1>7, Parts

\* A session with its only user, which was not bound in this batch, is on no
\* list: main_event_cb has come by since it was put down.
LEMMA MainShutdownInv ==
  ASSUME IInv, NEW s \in Sess, MainShutdown(s)
  PROVE  IInv'
<1>0. Flat /\ Lists(link, queue, {}) /\ Half' = {} /\ Down \in List
  BY InvIs, HeadProps DEF MainShutdown, Half
<1>1. /\ link' = InsertTail(link, Down, s) /\ queue' = Add(queue, Down, s)
      /\ users' = [users EXCEPT ![s] = 0] /\ tmr' = tmr \ {s}
      /\ taken' = taken \ {s} /\ st' = st /\ base' = base /\ phase' = phase
      /\ fresh' = fresh /\ cur' = cur /\ phase \in {"timeouts", "events"}
      /\ users[s] = 1 /\ base[s] = None /\ s \notin fresh
  BY DEF MainShutdown, Add
<1>2. OnNone(queue, s) /\ st[s] # "NONE"
  <2>1. Place(s) /\ (base[s] = None /\ s \notin Elems(queue[Down])
                       => OnNone(queue, s))
    BY Placed
  <2>2. QED
    BY <1>1, <2>1 DEF Place
<1>3. /\ queue \in Queues /\ Separate(queue)
  BY <1>0 DEF Lists
<1>4. /\ Lists(link', queue', {})
      /\ \A n \in Sess : OnNone(queue, n) /\ n # s => link'[n] = link[n]
  BY <1>0, <1>1, <1>2, AddLists
<1>5. /\ Elems(queue'[Down]) = Elems(queue[Down]) \cup {s}
      /\ \A g \in List : g # Down => queue'[g] = queue[g]
  <2> DEFINE A == Add(queue, Down, s)
  <2>1. /\ A \in Queues /\ Separate(A)
        /\ A[Down] = Append(queue[Down], s)
        /\ Elems(A[Down]) = Elems(queue[Down]) \cup {s}
        /\ \A g \in List : g # Down => A[g] = queue[g]
    BY <1>0, <1>2, <1>3, AddProps
  <2> HIDE DEF A
  <2>2. QED
    BY <1>1, <2>1 DEF A
<1>6. Flat' /\ AttachInv' /\ UninitInv'
  BY <1>0, <1>1 DEF Flat, AttachInv, UninitInv
<1>7. ASSUME NEW x \in Sess
      PROVE  Place(x)'
  <2>1. CASE x = s
    <3>1. users'[s] = 0 /\ s \notin tmr' \cup taken'
      BY <1>0, <1>1 DEF Flat
    <3>2. \A c \in Child : s \notin Elems(queue'[Wait(c)])
                           /\ s \notin Elems(queue'[Served(c)])
      BY <1>2, <1>5, HeadProps DEF OnNone
    <3>3. ~OnNone(queue', s)
      BY <1>0, <1>5 DEF OnNone
    <3>4. QED
      BY <1>1, <1>2, <1>5, <2>1, <3>1, <3>2, <3>3, NoneAssumption DEF Place
  <2>2. CASE x # s
    <3>1. users'[x] = users[x] /\ (x \in tmr' <=> x \in tmr)
          /\ (x \in taken' <=> x \in taken)
      BY <1>0, <1>1, <2>2 DEF Flat
    <3>2. \A h \in List : x \in Elems(queue'[h]) <=> x \in Elems(queue[h])
      BY <1>5, <2>2
    <3>3. QED
      BY <1>1, <1>4, <2>2, <3>1, <3>2, StaysPlaced
  <2>3. QED
    BY <2>1, <2>2
<1>8. QED
  BY <1>0, <1>4, <1>6, <1>7, Parts

\* A session whose timeout is pending is on no list.
LEMMA TimeoutInitInv ==
  ASSUME IInv, NEW s \in Sess, TimeoutInit(s)
  PROVE  IInv'
<1>0. Flat /\ Lists(link, queue, {}) /\ Half' = {} /\ Down \in List
  BY InvIs, HeadProps DEF TimeoutInit, Half
<1>1. /\ link' = InsertTail(link, Down, s) /\ queue' = Add(queue, Down, s)
      /\ st' = [st EXCEPT ![s] = "ERROR"] /\ base' = base
      /\ users' = [users EXCEPT ![s] = 0] /\ tmr' = tmr \ {s}
      /\ taken' = taken \ {s} /\ fresh' = fresh /\ cur' = <<s, None>>
      /\ phase = "timeouts" /\ phase' = "fired" /\ s \in tmr
  BY DEF TimeoutInit, Add
<1>2. OnNone(queue, s) /\ base[s] = None
  <2>1. Place(s) /\ (base[s] = None /\ s \notin Elems(queue[Down])
                       => OnNone(queue, s))
    BY Placed
  <2>2. QED
    BY <1>1, <2>1 DEF Place
<1>3. queue \in Queues /\ Separate(queue)
  BY <1>0 DEF Lists
<1>4. /\ Lists(link', queue', {})
      /\ \A n \in Sess : OnNone(queue, n) /\ n # s => link'[n] = link[n]
  BY <1>0, <1>1, <1>2, AddLists
<1>5. /\ Elems(queue'[Down]) = Elems(queue[Down]) \cup {s}
      /\ \A g \in List : g # Down => queue'[g] = queue[g]
  <2> DEFINE A == Add(queue, Down, s)
  <2>1. /\ A \in Queues /\ Separate(A)
        /\ A[Down] = Append(queue[Down], s)
        /\ Elems(A[Down]) = Elems(queue[Down]) \cup {s}
        /\ \A g \in List : g # Down => A[g] = queue[g]
    BY <1>0, <1>2, <1>3, AddProps
  <2> HIDE DEF A
  <2>2. QED
    BY <1>1, <2>1 DEF A
<1>s. st'[s] = "ERROR" /\ users'[s] = 0 /\ s \notin tmr' \cup taken'
  BY <1>0, <1>1 DEF Flat
<1>6. Flat' /\ AttachInv'
  BY <1>0, <1>1 DEF Flat, AttachInv
<1>u. UninitInv'
  <2>1. cur'[1] = s /\ Holds(Down)' = Elems(queue'[Down])
    BY <1>1 DEF Holds, Elems
  <2>2. QED
    BY <1>5, <1>s, <2>1 DEF UninitInv
<1>7. ASSUME NEW x \in Sess
      PROVE  Place(x)'
  <2>1. CASE x = s
    <3>1. \A c \in Child : s \notin Elems(queue'[Wait(c)])
                           /\ s \notin Elems(queue'[Served(c)])
      BY <1>2, <1>5, HeadProps DEF OnNone
    <3>2. ~OnNone(queue', s)
      BY <1>0, <1>5 DEF OnNone
    <3>3. QED
      BY <1>1, <1>2, <1>5, <1>s, <2>1, <3>1, <3>2, NoneAssumption DEF Place
  <2>2. CASE x # s
    <3>1. users'[x] = users[x] /\ st'[x] = st[x] /\ (x \in tmr' <=> x \in tmr)
          /\ (x \in taken' <=> x \in taken)
      BY <1>0, <1>1, <2>2 DEF Flat
    <3>2. \A h \in List : x \in Elems(queue'[h]) <=> x \in Elems(queue[h])
      BY <1>5, <2>2
    <3>3. QED
      BY <1>1, <1>4, <2>2, <3>1, <3>2, StaysPlaced
  <2>3. QED
    BY <2>1, <2>2
<1>8. QED
  BY <1>0, <1>4, <1>6, <1>7, <1>u, Parts

\* The first assignment of the removal in fwd_session_uninit.
LEMMA UninitBeginsInv ==
  ASSUME IInv, UninitBegins
  PROVE  IInv'
<1> DEFINE s == cur[1]
<1>0. /\ Flat /\ Lists(link, queue, {}) /\ s \in Sess
      /\ s \in Elems(queue[Down]) /\ Down \in List
  BY InvIs, HeadProps, BusyOne DEF UninitBegins, Half
<1>1. /\ link' = RemoveNext(link, s) /\ st' = st /\ base' = base
      /\ users' = users /\ tmr' = tmr /\ fresh' = fresh /\ queue' = queue
      /\ taken' = taken /\ cur' = cur /\ phase = "fired" /\ phase' = "uninit"
  BY DEF UninitBegins
<1>2. Half' = {s}
  BY <1>1 DEF Half
<1>3. Flat' /\ AttachInv' /\ UninitInv'
  <2>1. Flat' /\ AttachInv'
    BY <1>0, <1>1 DEF Flat, AttachInv
  <2>2. Holds(Down)' = Elems(queue[Down])
    BY <1>1 DEF Holds, Elems
  <2>3. QED
    BY <1>1, <2>1, <2>2, BusyOne DEF UninitInv
<1> HIDE DEF s
<1>4. ~OnNone(queue, s)
  BY <1>0 DEF OnNone
<1>5. /\ Lists(link', queue', {s})
      /\ \A n \in Sess : OnNone(queue, n) => link'[n] = link[n]
  BY <1>0, <1>1, <1>4, BeginLists
<1>6. ASSUME NEW x \in Sess
      PROVE  Place(x)'
  BY <1>1, <1>5, StaysPlaced
<1>7. QED
  BY <1>2, <1>3, <1>5, <1>6, Parts

\* The second one; the session is freed.
LEMMA UninitEndsInv ==
  ASSUME IInv, UninitEnds
  PROVE  IInv'
<1> DEFINE s == cur[1]
<1>0. /\ Flat /\ Lists(link, queue, {s}) /\ Half' = {} /\ s \in Sess
      /\ s \in Elems(queue[Down]) /\ Down \in List /\ users[s] = 0
      /\ base[s] = None /\ s \notin tmr \cup taken
  BY InvIs, HeadProps, BusyOne DEF UninitEnds, Half
<1>1. /\ link' = RemovePrev(link, s) /\ queue' = Drop(queue, s)
      /\ st' = [st EXCEPT ![s] = "NONE"] /\ base' = base /\ users' = users
      /\ tmr' = tmr /\ fresh' = fresh /\ taken' = taken
      /\ cur' = <<None, None>> /\ phase = "uninit" /\ phase' = "timeouts"
  BY DEF UninitEnds, Without, Drop
<1> HIDE DEF s
<1>2. Flat' /\ AttachInv' /\ UninitInv'
  BY <1>0, <1>1 DEF Flat, AttachInv, UninitInv
<1>3. ~OnNone(queue, s)
  BY <1>0 DEF OnNone
<1>4. /\ Lists(link', queue', {})
      /\ \A n \in Sess : OnNone(queue, n) => link'[n] = link[n]
  BY <1>0, <1>1, <1>3, EndLists
<1>5. \A h \in List : Elems(queue'[h]) = Elems(queue[h]) \ {s}
  <2>1. queue \in Queues /\ Separate(queue)
    BY <1>0 DEF Lists
  <2>2. \A h \in List : Elems(Drop(queue, s)[h]) = Elems(queue[h]) \ {s}
    BY <1>0, <2>1, DropProps
  <2>3. QED
    BY <1>1, <2>2
<1>6. ASSUME NEW x \in Sess
      PROVE  Place(x)'
  <2>1. CASE x = s
    <3>1. st'[s] = "NONE"
      BY <1>0, <1>1 DEF Flat
    <3>2. /\ s \notin Elems(queue'[Down])
          /\ \A c \in Child : s \notin Elems(queue'[Wait(c)])
                              /\ s \notin Elems(queue'[Served(c)])
      BY <1>5, HeadProps
    <3>3. QED
      BY <1>0, <1>1, <2>1, <3>1, <3>2, NoneAssumption DEF Place
  <2>2. CASE x # s
    <3>1. st'[x] = st[x]
      BY <1>0, <1>1, <2>2 DEF Flat
    <3>2. \A h \in List : x \in Elems(queue'[h]) <=> x \in Elems(queue[h])
      BY <1>5, <2>2
    <3>3. QED
      BY <1>1, <1>4, <2>2, <3>1, <3>2, StaysPlaced
  <2>3. QED
    BY <2>1, <2>2
<1>7. QED
  BY <1>0, <1>2, <1>4, <1>6, Parts

\* A session leaves one list for another.  The removal that fwd_main may have
\* begun is of a session that has no child.
LEMMA CallbackTakeInv ==
  ASSUME IInv, NEW c \in Child, CallbackTake(c)
  PROVE  IInv'
<1> DEFINE s == link[Wait(c)].next
<1>0. /\ Flat /\ Lists(link, queue, Half) /\ AttachInv /\ s \in Sess
      /\ Wait(c) \in List /\ Served(c) \in List
      /\ queue \in Queues /\ Separate(queue)
  BY InvIs, HeadProps DEF CallbackTake, Lists
<1>h. Half \in SUBSET Sess /\ \A n \in Half : n \in Sess /\ base[n] = None
  BY BusyOne
<1>1. /\ link' = InsertTail(Remove(link, s), Served(c), s)
      /\ queue' = MovedTo(Served(c), s) /\ base' = [base EXCEPT ![s] = c]
      /\ st' = [st EXCEPT ![s] = "EST"] /\ users' = users /\ tmr' = tmr
      /\ phase' = phase /\ fresh' = fresh /\ taken' = taken /\ cur' = cur
  BY DEF CallbackTake
<1>2. s \in Elems(queue[Wait(c)])
  BY <1>0, <1>h, FirstOf
<1>3. Half' = Half
  BY <1>1 DEF Half
<1> HIDE DEF s
<1>4. /\ base[s] = c /\ c # None
      /\ \A n \in Elems(queue[Wait(c)]) \cup Elems(queue[Served(c)]) :
           n \in Sess => base[n] = c
  BY <1>0, <1>2, Placed, NoneAssumption DEF Place
<1>5. /\ s \notin Half /\ Half \cap Elems(queue[Wait(c)]) = {}
      /\ Half \cap Elems(queue[Served(c)]) = {}
  BY <1>h, <1>4
<1>6. /\ Lists(link', queue', Half)
      /\ s \in Elems(queue'[Served(c)]) /\ ~OnNone(queue', s)
      /\ \A h \in List : h # Served(c) => s \notin Elems(queue'[h])
      /\ \A x \in Sess : x # s =>
           /\ \A h \in List : x \in Elems(queue'[h]) <=> x \in Elems(queue[h])
           /\ OnNone(queue, x) => link'[x] = link[x]
  <2> DEFINE m == Remove(link, s)
             f == Wait(c)
             g == Served(c)
             half == Half
  <2>1. /\ f \in List /\ s \in Elems(queue[f]) /\ half \cap Elems(queue[f]) = {}
        /\ half \in SUBSET Sess /\ Lists(link, queue, half)
        /\ g \in List /\ s \notin half /\ half \cap Elems(queue[g]) = {}
        /\ link' = InsertTail(m, g, s) /\ queue' = MovedTo(g, s)
    BY <1>0, <1>1, <1>2, <1>h, <1>5
  <2>e. queue \in Queues /\ Separate(queue) /\ s \in Sess
    BY <1>0
  <2> HIDE DEF f, g, half
  <2>2. /\ Lists(Remove(link, s), Drop(queue, s), half)
        /\ \A n \in Sess : OnNone(queue, n) => Remove(link, s)[n] = link[n]
    BY <2>1, DropLists
  <2>3. /\ Lists(m, Drop(queue, s), half)
        /\ \A n \in Sess : OnNone(queue, n) => m[n] = link[n]
    BY <2>2
  <2> HIDE DEF m
  <2>4. /\ Lists(link', queue', half)
        /\ s \in Elems(queue'[g]) /\ ~OnNone(queue', s)
        /\ \A h \in List : h # g => s \notin Elems(queue'[h])
        /\ \A x \in Sess : x # s =>
             /\ \A h \in List : x \in Elems(queue'[h]) <=> x \in Elems(queue[h])
             /\ OnNone(queue, x) => link'[x] = link[x]
    BY <2>1, <2>3, <2>e, MoveLists
  <2>5. QED
    BY <2>4 DEF g, half
<1>7. Flat'
  BY <1>0, <1>1 DEF Flat
<1>8. AttachInv'
  <2>1. SUFFICES ASSUME phase = "attach"
                 PROVE  AttachInv'
    BY <1>1 DEF AttachInv
  <2>2. /\ cur \in Sess \X Child /\ st[cur[1]] # "NONE" /\ base[cur[1]] = None
        /\ users[cur[1]] = 2 /\ cur[1] \notin tmr \cup taken /\ cur[1] \in Sess
    BY <1>0, <2>1 DEF AttachInv
  <2>3. cur[1] # s
    BY <1>4, <2>2
  <2>4. st'[cur[1]] = st[cur[1]] /\ base'[cur[1]] = base[cur[1]]
    BY <1>0, <1>1, <2>2, <2>3 DEF Flat
  <2>5. QED
    BY <1>1, <2>2, <2>4 DEF AttachInv
<1>u. UninitInv'
  <2>1. \A x \in Sess : x # s =>
          /\ st'[x] = st[x]
          /\ x \in Elems(queue[Down]) => x \in Elems(queue'[Down])
    BY <1>0, <1>1, <1>6, HeadProps DEF Flat
  <2>2. QED
    BY <1>0, <1>1, <1>4, <2>1, UninitStays
<1>9. ASSUME NEW x \in Sess
      PROVE  Place(x)'
  <2>1. CASE x = s
    <3>1. base'[s] = c /\ st'[s] = "EST"
      BY <1>0, <1>1 DEF Flat
    <3>2. /\ s \notin Elems(queue'[Down])
          /\ \A d \in Child : /\ d # c => s \notin Elems(queue'[Served(d)])
                              /\ s \notin Elems(queue'[Wait(d)])
      BY <1>0, <1>6, HeadProps
    <3>3. users[s] = 2 /\ s \notin tmr \cup taken
      BY <1>0, <1>4, Placed DEF Place
    <3>4. QED
      BY <1>1, <1>4, <1>6, <2>1, <3>1, <3>2, <3>3 DEF Place
  <2>2. CASE x # s
    <3>1. st'[x] = st[x] /\ base'[x] = base[x]
      BY <1>0, <1>1, <2>2 DEF Flat
    <3>2. QED
      BY <1>1, <1>6, <2>2, <3>1, StaysPlaced
  <2>3. QED
    BY <2>1, <2>2
<1>10. QED
  BY <1>3, <1>6, <1>7, <1>8, <1>u, <1>9, Parts

\* A session leaves its child for the main thread's list.
LEMMA SessionDownInv ==
  ASSUME Race = FALSE, IInv, NEW s \in Sess, SessionDown(s)
  PROVE  IInv'
<1>0. /\ Flat /\ Lists(link, queue, {}) /\ Half' = {} /\ Down \in List
      /\ queue \in Queues /\ Separate(queue)
  BY InvIs, HeadProps DEF SessionDown, Lists, Half
<1>1. /\ link' = InsertTail(Remove(link, s), Down, s)
      /\ queue' = MovedTo(Down, s) /\ base' = [base EXCEPT ![s] = None]
      /\ users' = [users EXCEPT ![s] = 0] /\ st' = st /\ tmr' = tmr
      /\ phase' = phase /\ fresh' = fresh /\ taken' = taken /\ cur' = cur
      /\ base[s] # None /\ phase \notin {"attach", "uninit"}
  BY DEF SessionDown
<1>2. Place(s)
  BY Placed
<1>3. PICK f \in List : s \in Elems(queue[f])
  <2>1. base[s] \in Child
    BY <1>0, <1>1 DEF Flat
  <2>2. s \in Elems(queue[Wait(base[s])]) \cup Elems(queue[Served(base[s])])
    BY <1>2, <2>1 DEF Place
  <2>3. QED
    BY <2>1, <2>2, HeadProps
<1>4. /\ Lists(link', queue', {})
      /\ s \in Elems(queue'[Down]) /\ ~OnNone(queue', s)
      /\ \A h \in List : h # Down => s \notin Elems(queue'[h])
      /\ \A x \in Sess : x # s =>
           /\ \A h \in List : x \in Elems(queue'[h]) <=> x \in Elems(queue[h])
           /\ OnNone(queue, x) => link'[x] = link[x]
  <2> DEFINE m == Remove(link, s)
             g == Down
             half == {}
  <2>1. /\ half \cap Elems(queue[f]) = {}
        /\ half \in SUBSET Sess /\ Lists(link, queue, half)
        /\ g \in List /\ s \notin half /\ half \cap Elems(queue[g]) = {}
        /\ link' = InsertTail(m, g, s) /\ queue' = MovedTo(g, s)
    BY <1>0, <1>1
  <2>e. queue \in Queues /\ Separate(queue) /\ s \in Sess
    BY <1>0
  <2> HIDE DEF g, half
  <2>2. /\ Lists(Remove(link, s), Drop(queue, s), half)
        /\ \A n \in Sess : OnNone(queue, n) => Remove(link, s)[n] = link[n]
    BY <1>3, <2>1, DropLists
  <2>3. /\ Lists(m, Drop(queue, s), half)
        /\ \A n \in Sess : OnNone(queue, n) => m[n] = link[n]
    BY <2>2
  <2> HIDE DEF m
  <2>4. /\ Lists(link', queue', half)
        /\ s \in Elems(queue'[g]) /\ ~OnNone(queue', s)
        /\ \A h \in List : h # g => s \notin Elems(queue'[h])
        /\ \A x \in Sess : x # s =>
             /\ \A h \in List : x \in Elems(queue'[h]) <=> x \in Elems(queue[h])
             /\ OnNone(queue, x) => link'[x] = link[x]
    BY <2>1, <2>3, <2>e, MoveLists
  <2>5. QED
    BY <2>4 DEF g, half
<1>5. Flat' /\ AttachInv' /\ UninitInv'
  <2>1. Flat' /\ AttachInv'
    BY <1>0, <1>1 DEF Flat, AttachInv
  <2>2. \A x \in Sess : x # s =>
          /\ st'[x] = st[x] /\ users'[x] = users[x]
          /\ x \in Elems(queue[Down]) => x \in Elems(queue'[Down])
    BY <1>0, <1>1, <1>4 DEF Flat
  <2>3. QED
    BY <1>1, <2>1, <2>2, UninitStays
<1>6. ASSUME NEW x \in Sess
      PROVE  Place(x)'
  <2>1. CASE x = s
    <3>1. base'[s] = None /\ users'[s] = 0
      BY <1>0, <1>1 DEF Flat
    <3>2. \A d \in Child : /\ s \notin Elems(queue'[Served(d)])
                           /\ s \notin Elems(queue'[Wait(d)])
      BY <1>4, HeadProps
    <3>3. st[s] # "NONE" /\ s \notin tmr \cup taken
      BY <1>1, <1>2 DEF Place
    <3>4. QED
      BY <1>1, <1>4, <2>1, <3>1, <3>2, <3>3, NoneAssumption DEF Place
  <2>2. CASE x # s
    <3>1. users'[x] = users[x] /\ base'[x] = base[x]
      BY <1>0, <1>1, <2>2 DEF Flat
    <3>2. QED
      BY <1>1, <1>4, <2>2, <3>1, StaysPlaced
  <2>3. QED
    BY <2>1, <2>2
<1>7. QED
  BY <1>0, <1>4, <1>5, <1>6, Parts

\* Every step preserves the invariant.
LEMMA StepInv ==
  ASSUME Reuse = FALSE, Race = FALSE, IInv, [Next]_vars
  PROVE  IInv'
<1>1. CASE UNCHANGED vars
  <2>0. Flat /\ Lists(link, queue, Half) /\ AttachInv /\ UninitInv
    BY InvIs
  <2>1. /\ link' = link /\ st' = st /\ base' = base /\ users' = users
        /\ tmr' = tmr /\ phase' = phase /\ cur' = cur /\ fresh' = fresh
        /\ queue' = queue /\ taken' = taken
    BY <1>1 DEF vars
  <2>2. Half' = Half
    BY <2>1 DEF Half
  <2>3. Flat' /\ AttachInv' /\ UninitInv' /\ Lists(link', queue', Half')
    BY <2>0, <2>1, <2>2 DEF Flat, AttachInv, UninitInv, Holds
  <2>4. \A x \in Sess : Place(x)'
    BY <2>1, StaysPlaced
  <2>5. QED
    BY <2>3, <2>4, Parts
<1>2. CASE DrainTake
  BY <1>2, DrainTakeInv
<1>3. CASE DrainDone
  BY <1>3, DrainDoneInv
<1>4. CASE SessionAttach
  BY <1>4, SessionAttachInv
<1>5. CASE NextPhase
  BY <1>5, NextPhaseInv
<1>6. ASSUME NEW s \in Sess, TicketIn(s)
      PROVE  IInv'
  BY <1>6, TicketInInv
<1>7. ASSUME NEW s \in Sess, Bind(s)
      PROVE  IInv'
  BY <1>7, BindInv
<1>8. ASSUME NEW s \in Sess, MainShutdown(s)
      PROVE  IInv'
  BY <1>8, MainShutdownInv
<1>9. ASSUME NEW s \in Sess, TimeoutInit(s)
      PROVE  IInv'
  BY <1>9, TimeoutInitInv
<1>10. ASSUME NEW s \in Sess, SessionClean(s)
       PROVE  IInv'
  BY <1>10, SessionCleanInv
<1>11. ASSUME NEW s \in Sess, SessionDown(s)
       PROVE  IInv'
  BY <1>11, SessionDownInv
<1>12. ASSUME NEW s \in Sess, NEW c \in Child, AttachBegins(s, c)
       PROVE  IInv'
  BY <1>12, AttachBeginsInv
<1>13. ASSUME NEW c \in Child, CallbackTake(c)
       PROVE  IInv'
  BY <1>13, CallbackTakeInv
<1>14. CASE UninitBegins
  BY <1>14, UninitBeginsInv
<1>15. CASE UninitEnds
  BY <1>15, UninitEndsInv
<1>16. QED
  BY <1>1, <1>2, <1>3, <1>4, <1>5, <1>6, <1>7, <1>8, <1>9, <1>10, <1>11,
     <1>12, <1>13, <1>14, <1>15 DEF Next, MainSteps

-----------------------------------------------------------------------------
(* The theorems: while no ticket is presented again after main_event_cb    *)
(* took its session off the list, and no child puts a session down in the  *)
(* middle of a removal that takes no mutex, of fwd_child_session_attach    *)
(* (fwd_child.c:188) or of fwd_session_uninit (fwd_session.c:190).         *)

\* The invariant holds in every state, for any sessions and children, also in
\* the middle of these two removals, as long as no child puts a session down
\* there.
THEOREM Invariance ==
  ASSUME Reuse = FALSE, Race = FALSE
  PROVE  Spec => []IInv
<1>1. IInv /\ [Next]_vars => IInv'
  BY StepInv
<1>2. QED
  BY <1>1, InitInv, PTL DEF Spec

\* The pointers always lead to nodes and the states are those of the code.
THEOREM TypeCorrect ==
  ASSUME Reuse = FALSE, Race = FALSE
  PROVE  Spec => []TypeOK
<1>1. IInv => TypeOK
  BY DEF IInv
<1>2. QED
  BY <1>1, Invariance, PTL

\* Read forwards and backwards, the lists of dt_queue.h hold what the callers
\* put on them, in that order: the blind removal of fwd_child_session_attach
\* and the one of fwd_session_uninit break none, as long as no child puts a
\* session down between the two assignments of these (Race = FALSE), which the
\* code does not prevent.
THEOREM ListsCorrect ==
  ASSUME Reuse = FALSE, Race = FALSE
  PROVE  Spec => []ListsRight
<1>1. IInv => ListsRight
  <2>1. SUFFICES ASSUME IInv, phase \notin {"attach", "uninit"},
                        NEW h \in List
                 PROVE  \A i \in 0 .. Len(queue[h]) :
                          LET a == NodeAt(h, queue[h], i)
                              b == NodeAt(h, queue[h], i + 1)
                          IN link[a].next = b /\ link[b].prev = a
    BY DEF ListsRight
  <2>2. Chained(link, h, queue[h], {})
    BY <2>1 DEF IInv, ChainInv, Half
  <2>3. QED
    BY <2>2 DEF Chained
<1>2. QED
  BY <1>1, Invariance, PTL

\* The one link of a session (fwd_session.list) is never on two lists of the
\* main thread and the children, nor twice on one.
THEOREM OneList ==
  ASSUME Reuse = FALSE, Race = FALSE
  PROVE  Spec => []OnOneList
<1>1. IInv => OnOneList
  BY DEF IInv
<1>2. QED
  BY <1>1, Invariance, PTL

\* The assertion of sess_timeout_init holds: the main thread never frees a
\* session that a child has.
THEOREM FiredFree ==
  ASSUME Reuse = FALSE, Race = FALSE
  PROVE  Spec => []FiredIsFree
<1>1. IInv => FiredIsFree
  <2>1. SUFFICES ASSUME IInv, NEW s \in tmr
                 PROVE  base[s] = None
    BY DEF FiredIsFree
  <2>2. s \in Sess
    BY <2>1 DEF IInv, TypeOK
  <2>3. QED
    BY <2>1, <2>2, Placed DEF Place
<1>2. QED
  BY <1>1, Invariance, PTL

=============================================================================
