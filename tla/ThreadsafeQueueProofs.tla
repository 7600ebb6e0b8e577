----------------------- MODULE ThreadsafeQueueProofs -----------------------
(***************************************************************************)
(* Proofs, for any finite set of threads and any number of items, that the *)
(* queues of ThreadsafeQueue implement Fifo, that the two ends of          *)
(* version_2 stay apart, and that with one mutex no push is forgotten.     *)
(***************************************************************************)
EXTENDS ThreadsafeQueue, SequenceTheorems, FiniteSetTheorems, WellFoundedInduction, TLAPS

Pcs == PushPcs \cup {"idle", "notify", "lock", "test", "block", "waiting", "woken",
                     "pop", "read"}

TypeOK ==
  /\ kind \in Kinds
  /\ queue_ \in Seq(1 .. MaxItems)
  /\ head_ \in Nodes /\ tail_ \in Nodes
  /\ data_ \in [Nodes -> Nodes] /\ next_ \in [Nodes -> Nodes]
  /\ head_mutex_ \in Threads \cup {Free} /\ tail_mutex_ \in Threads \cup {Free}
  /\ pc \in [Threads -> Pcs]
  /\ call \in [Threads -> {"none", "wait_and_pop", "try_pop"}]
  /\ own \in [Threads -> Nodes]
  /\ calls \in 0 .. MaxItems
  /\ got \in [Threads -> Seq(Nodes)]

OneMutexPcs ==
  kind # "version_2" => \A t \in Threads : pc[t] \in {"idle", "notify", "waiting", "woken"}

(* Who is between a lock and its unlock, and nobody else, has the mutex.     *)
Locked ==
  \A t \in Threads :
    /\ pc[t] \in {"data", "next", "tail"} <=> tail_mutex_ = t
    /\ pc[t] \in {"test", "block", "pop"} <=> head_mutex_ = t

(* The items that are being pushed are different ones, and the one who has   *)
(* tail_mutex_ has written to the last node what it had to.                  *)
Pushing ==
  \A t \in Threads :
    /\ pc[t] \in PushPcs =>
         /\ own[t] \in 1 .. calls
         /\ \A u \in Threads \ {t} : pc[u] \in PushPcs => own[u] # own[t]
    /\ pc[t] \in {"next", "tail"} => data_[tail_] = own[t]
    /\ pc[t] = "tail" => next_[tail_] = own[t]

NodesOf(s) == {s[i] : i \in DOMAIN s}

(* s has all the nodes that were ever linked, in that order, up to the last; *)
(* a node has the item whose push linked the next node to it.                *)
Linked(tl, nx, da, s) ==
  /\ s # <<>>
  /\ s[1] = Null
  /\ s[Len(s)] = tl
  /\ \A i, j \in DOMAIN s : s[i] = s[j] => i = j
  /\ \A i \in 1 .. Len(s) - 1 : nx[s[i]] = s[i + 1] /\ da[s[i]] = s[i + 1]
  /\ \A n \in Nodes : n \notin NodesOf(s) => nx[n] = Null

(* The h-th is the head; the nodes of those who read are before it.          *)
Shape(s, h) ==
  /\ s[h] = head_
  /\ \A n \in 1 .. calls : n \in NodesOf(s) \/ \E t \in Threads : pc[t] \in PushPcs /\ own[t] = n
  /\ \A n \in NodesOf(s) : n <= calls
  /\ \A t \in Threads :
       /\ pc[t] \in PushPcs => own[t] \notin NodesOf(s)
       /\ pc[t] = "pop" => h < Len(s)
       /\ pc[t] = "read" => /\ \E j \in 1 .. h - 1 : own[t] = s[j]
                            /\ \A u \in Threads \ {t} : pc[u] = "read" => own[u] # own[t]

ListInv ==
  kind = "version_2" =>
    \E s \in Seq(Nodes) : Linked(tail_, next_, data_, s) /\ \E h \in DOMAIN s : Shape(s, h)

IInv == TypeOK /\ OneMutexPcs /\ Locked /\ Pushing /\ ListInv

-----------------------------------------------------------------------------
(* What the linked list holds.                                               *)

(* The function that Chain is, of the fields that it reads.                  *)
ChainOf(tl, nx, da) ==
  CHOOSE f : f = [n \in Nodes |->
                    IF n = tl \/ nx[n] = Null THEN <<>> ELSE <<da[n]>> \o f[nx[n]]]

(* What comes after the i-th.                                                *)
Rest(s, i) == SubSeq(s, i + 1, Len(s))

(* A set of numbers that is not empty has a least: instead of an induction   *)
(* along the next pointers of the list (threadsafe_queue.cc:143-152).        *)
LEMMA LeastNumber ==
  ASSUME NEW T \in SUBSET Nat, T # {}
  PROVE  \E w \in T : \A x \in T : w <= x
<1>1. PICK w \in T : \A x \in T : ~(<<x, w>> \in OpToRel(<, Nat))
  BY NatLessThanWellFounded, WFMin, Zenon
<1>2. \A x \in T : ~(x < w)
  BY <1>1 DEF OpToRel
<1> QED
  BY <1>2

(* What comes after a node, and after the next one: the pops of the front    *)
(* (threadsafe_queue.cc:148-152).                                            *)
LEMMA RestProperties ==
  ASSUME NEW s \in Seq(Nodes), NEW i \in DOMAIN s
  PROVE  /\ Rest(s, i) \in Seq(Nodes) /\ Len(Rest(s, i)) = Len(s) - i
         /\ i = Len(s) => Rest(s, i) = <<>>
         /\ i < Len(s) => /\ Rest(s, i) # <<>>
                          /\ Rest(s, i) = <<s[i + 1]>> \o Rest(s, i + 1)
                          /\ Head(Rest(s, i)) = s[i + 1]
                          /\ Tail(Rest(s, i)) = Rest(s, i + 1)
<1>1. Len(s) \in Nat /\ DOMAIN s = 1 .. Len(s) /\ \A k \in 1 .. Len(s) : s[k] \in Nodes
  BY LenProperties, ElementOfSeq
<1>2. Rest(s, i) \in Seq(Nodes) /\ Len(Rest(s, i)) = Len(s) - i
  <2>1. i + 1 \in Int /\ \A k \in i + 1 .. Len(s) : s[k] \in Nodes
    BY <1>1
  <2> QED
    BY <1>1, <2>1, SubSeqProperties DEF Rest
<1>3. i = Len(s) => Rest(s, i) = <<>>
  BY <1>1, SubSeqEmpty DEF Rest
<1>4. ASSUME i < Len(s)
      PROVE  /\ Rest(s, i) # <<>>
             /\ Rest(s, i) = <<s[i + 1]>> \o Rest(s, i + 1)
             /\ Head(Rest(s, i)) = s[i + 1]
             /\ Tail(Rest(s, i)) = Rest(s, i + 1)
  <2>1. i + 1 \in 1 .. Len(s) /\ Len(s) \in i + 1 .. Len(s)
    BY <1>1, <1>4
  <2>2. Rest(s, i) # <<>>
    <3>1. Len(Rest(s, i)) # 0
      BY <1>1, <1>2, <1>4
    <3> QED
      BY <3>1, EmptySeq
  <2>3. Rest(s, i) = <<s[i + 1]>> \o Rest(s, i + 1)
    BY <2>1, SubSeqRecursiveFirst DEF Rest
  <2>4. Head(Rest(s, i)) = s[i + 1] /\ Tail(Rest(s, i)) = Rest(s, i + 1)
    BY <2>1, HeadTailOfSubSeq DEF Rest
  <2> QED
    BY <2>2, <2>3, <2>4
<1> QED
  BY <1>1, <1>2, <1>3, <1>4

(* A node linked at the end is at the end of what comes after any node       *)
(* (threadsafe_queue.cc:219-224).                                            *)
LEMMA RestAppend ==
  ASSUME NEW s \in Seq(Nodes), NEW i \in DOMAIN s, NEW n \in Nodes
  PROVE  Rest(Append(s, n), i) = Append(Rest(s, i), n)
<1> DEFINE a == Append(s, n)
<1>1. /\ Len(s) \in Nat /\ DOMAIN s = 1 .. Len(s)
      /\ a \in Seq(Nodes) /\ Len(a) = Len(s) + 1 /\ a[Len(s) + 1] = n
      /\ \A k \in 1 .. Len(s) : a[k] = s[k] /\ s[k] \in Nodes
  BY LenProperties, ElementOfSeq, AppendProperties
<1> HIDE DEF a
<1>2. Rest(a, i) = SubSeq(a, i + 1, Len(s)) \o <<n>>
  <2>1. i + 1 \in 1 .. Len(a) /\ Len(a) \in i + 1 .. Len(a) /\ Len(a) - 1 = Len(s)
    BY <1>1
  <2> QED
    BY <1>1, <2>1, SubSeqRecursiveSecond DEF Rest
<1>3. SubSeq(a, i + 1, Len(s)) = SubSeq(s, i + 1, Len(s))
  <2>1. i + 1 \in Int /\ Len(s) \in Int /\ \A k \in i + 1 .. Len(s) : s[k] \in Nodes /\ a[k] = s[k]
    BY <1>1
  <2> DEFINE l == SubSeq(a, i + 1, Len(s))
             r == SubSeq(s, i + 1, Len(s))
             m == IF i + 1 <= Len(s) THEN Len(s) - (i + 1) + 1 ELSE 0
  <2>2. l \in Seq(Nodes) /\ Len(l) = m /\ \A k \in 1 .. Len(s) - (i + 1) + 1 : l[k] = a[i + 1 + k - 1]
    BY <2>1, SubSeqProperties
  <2>3. r \in Seq(Nodes) /\ Len(r) = m /\ \A k \in 1 .. Len(s) - (i + 1) + 1 : r[k] = s[i + 1 + k - 1]
    BY <2>1, SubSeqProperties
  <2> HIDE DEF l, r
  <2>4. \A k \in 1 .. m : l[k] = r[k]
    BY <1>1, <2>1, <2>2, <2>3
  <2>5. l = r
    BY <2>2, <2>3, <2>4, SeqEqual
  <2> QED
    BY <2>5 DEF l, r
<1>4. Append(Rest(s, i), n) = Rest(s, i) \o <<n>>
  BY RestProperties, AppendIsConcat
<1> QED
  BY <1>2, <1>3, <1>4 DEF Rest, a

(* Only the last node is the tail, and no node comes before the first        *)
(* (threadsafe_queue.cc:219-224).                                            *)
LEMMA LinkedNode ==
  ASSUME NEW s \in Seq(Nodes), NEW tl, NEW nx, NEW da, Linked(tl, nx, da, s),
         NEW i \in DOMAIN s, i < Len(s)
  PROVE  /\ i + 1 \in DOMAIN s /\ s[i] # tl /\ s[i + 1] # Null
         /\ nx[s[i]] = s[i + 1] /\ da[s[i]] = s[i + 1]
<1>1. Len(s) \in Nat /\ DOMAIN s = 1 .. Len(s)
  BY LenProperties
<1>2. i \in 1 .. Len(s) - 1 /\ i + 1 \in DOMAIN s /\ 1 \in DOMAIN s /\ Len(s) \in DOMAIN s
  BY <1>1
<1>3. i # Len(s) /\ i + 1 # 1
  BY <1>1
<1>4. \A j, k \in DOMAIN s : s[j] = s[k] => j = k
  BY DEF Linked
<1>5. s[i] # s[Len(s)] /\ s[i + 1] # s[1]
  BY <1>2, <1>3, <1>4
<1> QED
  BY <1>2, <1>5 DEF Linked

(* There is a function that Chain's definition describes: the next pointers  *)
(* have no cycle (threadsafe_queue.cc:219-224).                              *)
LEMMA ChainRecursion ==
  ASSUME NEW s \in Seq(Nodes), NEW tl \in Nodes, NEW nx \in [Nodes -> Nodes],
         NEW da \in [Nodes -> Nodes], Linked(tl, nx, da, s)
  PROVE  ChainOf(tl, nx, da) =
           [n \in Nodes |-> IF n = tl \/ nx[n] = Null THEN <<>>
                            ELSE <<da[n]>> \o ChainOf(tl, nx, da)[nx[n]]]
<1> DEFINE at(n) == CHOOSE i \in DOMAIN s : s[i] = n
           f == [n \in Nodes |-> IF n \in NodesOf(s) THEN Rest(s, at(n)) ELSE <<>>]
           e(n) == IF n = tl \/ nx[n] = Null THEN <<>> ELSE <<da[n]>> \o f[nx[n]]
<1>0. Len(s) \in Nat
  BY LenProperties
<1>1. /\ Len(s) \in Nat \ {0} /\ DOMAIN s = 1 .. Len(s)
      /\ \A i \in 1 .. Len(s) : s[i] \in Nodes /\ at(s[i]) = i /\ s[i] \in NodesOf(s)
  <2>1. Len(s) \in Nat \ {0} /\ DOMAIN s = 1 .. Len(s) /\ \A i \in 1 .. Len(s) : s[i] \in Nodes
    BY LenProperties, ElementOfSeq, EmptySeq DEF Linked
  <2>2. \A i \in DOMAIN s : at(s[i]) \in DOMAIN s /\ s[at(s[i])] = s[i]
    OBVIOUS
  <2> QED
    BY <2>1, <2>2 DEF Linked, NodesOf
<1> HIDE DEF at
<1>2. \A i \in 1 .. Len(s) : f[s[i]] = Rest(s, i)
  BY <1>1
<1>3. ASSUME NEW n \in Nodes
      PROVE  f[n] = e(n)
  <2>1. CASE n \notin NodesOf(s)
    BY <2>1 DEF Linked
  <2>2. CASE n \in NodesOf(s)
    <3>1. PICK i \in 1 .. Len(s) : n = s[i]
      BY <2>2, <1>1 DEF NodesOf
    <3>2. CASE i = Len(s)
      BY <1>1, <1>2, <3>1, <3>2, RestProperties DEF Linked
    <3>3. CASE i < Len(s)
      <4>1. /\ i + 1 \in 1 .. Len(s) /\ n # tl /\ s[i + 1] # Null
            /\ nx[n] = s[i + 1] /\ da[n] = s[i + 1]
        BY <1>1, <3>1, <3>3, LinkedNode
      <4>2. Rest(s, i) = <<s[i + 1]>> \o Rest(s, i + 1)
        BY <1>1, <3>1, <3>3, RestProperties
      <4> QED
        BY <1>2, <3>1, <4>1, <4>2
    <3>4. i = Len(s) \/ i < Len(s)
      BY <1>0
    <3> QED
      BY <3>2, <3>3, <3>4
  <2> QED
    BY <2>1, <2>2
<1>4. f = [n \in Nodes |-> e(n)]
  BY <1>3
<1> HIDE DEF f
<1> QED
  BY <1>4 DEF ChainOf

(* From a linked node on, the list holds the nodes, and so the items, that   *)
(* were linked after it, in that order (threadsafe_queue.cc:143-152,         *)
(* 219-224).                                                                 *)
LEMMA ChainIsRest ==
  ASSUME NEW s \in Seq(Nodes), NEW tl \in Nodes, NEW nx \in [Nodes -> Nodes],
         NEW da \in [Nodes -> Nodes], Linked(tl, nx, da, s), NEW h \in DOMAIN s
  PROVE  ChainOf(tl, nx, da)[s[h]] = Rest(s, h)
<1> DEFINE c == ChainOf(tl, nx, da)
           Wrong == {d \in 0 .. Len(s) - 1 : c[s[Len(s) - d]] # Rest(s, Len(s) - d)}
<1>1. /\ Len(s) \in Nat \ {0} /\ DOMAIN s = 1 .. Len(s)
      /\ \A i \in 1 .. Len(s) : s[i] \in Nodes
  BY LenProperties, ElementOfSeq, EmptySeq DEF Linked
<1>c. c = [n \in Nodes |-> IF n = tl \/ nx[n] = Null THEN <<>> ELSE <<da[n]>> \o c[nx[n]]]
  BY ChainRecursion
<1> HIDE DEF c
<1>2. \A n \in Nodes : c[n] = IF n = tl \/ nx[n] = Null THEN <<>> ELSE <<da[n]>> \o c[nx[n]]
  BY <1>c
<1>3. Wrong = {}
  <2> SUFFICES ASSUME Wrong # {} PROVE FALSE
    OBVIOUS
  <2>1. Wrong \in SUBSET Nat
    BY <1>1
  <2>2. PICK d \in Wrong : \A x \in Wrong : d <= x
    BY <2>1, LeastNumber
  <2>3. d \in 0 .. Len(s) - 1 /\ d \in Nat /\ c[s[Len(s) - d]] # Rest(s, Len(s) - d)
    BY <1>1, <2>2
  <2> DEFINE i == Len(s) - d
  <2>4. i \in 1 .. Len(s)
    BY <1>1, <2>3
  <2>5. CASE d = 0
    <3>1. i = Len(s) /\ s[i] = tl
      BY <1>1, <2>5 DEF Linked
    <3> QED
      BY <1>1, <1>2, <2>3, <2>4, <3>1, RestProperties
  <2>6. CASE d > 0
    <3>1. d - 1 \in 0 .. Len(s) - 1 /\ d - 1 < d /\ Len(s) - (d - 1) = i + 1
      BY <1>1, <2>3, <2>6
    <3>2. d - 1 \notin Wrong
      <4>1. d - 1 \in Wrong => d <= d - 1
        BY <2>2
      <4> QED
        BY <2>3, <4>1
    <3>3. c[s[i + 1]] = Rest(s, i + 1)
      BY <3>1, <3>2
    <3>4. i < Len(s) /\ i \in DOMAIN s
      BY <1>1, <2>3, <2>4, <2>6
    <3>5. s[i] # tl /\ nx[s[i]] = s[i + 1] /\ da[s[i]] = s[i + 1] /\ s[i + 1] # Null
      BY <3>4, LinkedNode
    <3>6. c[s[i]] = <<s[i + 1]>> \o c[s[i + 1]]
      BY <1>1, <1>2, <2>4, <3>5
    <3>7. Rest(s, i) = <<s[i + 1]>> \o Rest(s, i + 1)
      BY <1>1, <2>4, <3>4, RestProperties
    <3> QED
      BY <2>3, <3>3, <3>6, <3>7
  <2> QED
    BY <2>3, <2>5, <2>6
<1>4. Len(s) - h \in 0 .. Len(s) - 1 /\ Len(s) - (Len(s) - h) = h
  BY <1>1
<1>5. Len(s) - h \notin Wrong
  BY <1>3
<1> QED
  BY <1>4, <1>5 DEF c

-----------------------------------------------------------------------------
(* The inductive invariant.                                                  *)

(* The queue is empty and nobody has called (threadsafe_queue.cc:199-201).   *)
LEMMA Initiation == Init => IInv
<1> SUFFICES ASSUME Init PROVE IInv
  OBVIOUS
<1> USE QueueAssumption DEF Init, Nodes, Null, PushPcs
<1>1. TypeOK
  BY DEF TypeOK, Pcs
<1>2. OneMutexPcs /\ Locked /\ Pushing
  BY DEF OneMutexPcs, Locked, Pushing
<1>3. ListInv
  <2> DEFINE s == <<Null>>
  <2>1. s \in Seq(Nodes) /\ s # <<>> /\ Len(s) = 1 /\ DOMAIN s = {1} /\ s[1] = Null
    OBVIOUS
  <2> HIDE DEF s
  <2>2. NodesOf(s) = {Null}
    BY <2>1 DEF NodesOf
  <2>3. Linked(tail_, next_, data_, s)
    BY <2>1 DEF Linked
  <2>4. Shape(s, 1)
    BY <2>1, <2>2 DEF Shape
  <2> QED
    BY <2>1, <2>3, <2>4 DEF ListInv
<1> QED
  BY <1>1, <1>2, <1>3 DEF IInv

(* notify_one: at most one thread, that waited, is where it was not, and it  *)
(* is woken (threadsafe_queue.cc:85, BlockingQueue.cc:25).                   *)
LEMMA NotifyOne ==
  ASSUME NEW p \in [Threads -> Pcs], notify_one(p)
  PROVE  /\ pc' \in [Threads -> Pcs]
         /\ \A u \in Threads : pc'[u] = p[u] \/ (p[u] = "waiting" /\ pc'[u] = "woken")
  BY DEF notify_one, Waiting, Pcs

(* A step of a queue with one mutex (threadsafe_queue.cc:81-121,             *)
(* BlockingQueue.cc:19-35).                                                  *)
LEMMA OneMutexKept ==
  ASSUME IInv, kind # "version_2", TypeOK', UNCHANGED <<kind, list, locks>>,
         \A t \in Threads : pc'[t] \in {"idle", "notify", "waiting", "woken"}
  PROVE  IInv'
<1>1. OneMutexPcs' /\ ListInv'
  BY DEF OneMutexPcs, ListInv
<1>2. Locked'
  BY DEF IInv, OneMutexPcs, Locked, locks
<1>3. Pushing'
  BY DEF Pushing, PushPcs
<1> QED
  BY <1>1, <1>2, <1>3 DEF IInv

(* A step that leaves the list as it is (threadsafe_queue.cc:143-234).       *)
LEMMA ListKept ==
  ASSUME IInv, UNCHANGED <<kind, list, calls>>,
         \A u \in Threads :
           /\ pc'[u] \in PushPcs <=> pc[u] \in PushPcs
           /\ pc'[u] \in PushPcs => own'[u] = own[u]
           /\ pc'[u] = "read" => pc[u] = "read" /\ own'[u] = own[u]
           /\ pc'[u] = "pop" => pc[u] = "pop" \/ head_ # tail_
  PROVE  ListInv'
<1> SUFFICES ASSUME kind = "version_2"
             PROVE  ListInv'
  BY DEF ListInv
<1>1. PICK s \in Seq(Nodes) : Linked(tail_, next_, data_, s) /\ \E h \in DOMAIN s : Shape(s, h)
  BY DEF IInv, ListInv
<1>2. PICK h \in DOMAIN s : Shape(s, h)
  BY <1>1
<1>3. head_ # tail_ => h < Len(s)
  <2>1. Len(s) \in Nat /\ DOMAIN s = 1 .. Len(s)
    BY LenProperties
  <2>2. h = Len(s) => head_ = tail_
    BY <1>1, <1>2 DEF Linked, Shape
  <2> QED
    BY <2>1, <2>2
<1>4. Linked(tail_, next_, data_, s)'
  BY <1>1 DEF list, Linked
<1>5. Shape(s, h)'
  BY <1>2, <1>3 DEF Shape, list
<1> QED
  BY <1>4, <1>5 DEF ListInv

(* The steps of threadsafer_queue and BlockingQueue, and those that only     *)
(* notify or wake up, keep the invariant.                                    *)
LEMMA OneMutexStep ==
  ASSUME IInv, NEW t \in Threads,
         push(t) \/ put(t) \/ try_pop(t) \/ wait_and_pop(t)
  PROVE  IInv'
<1> USE QueueAssumption
<1>1. kind # "version_2"
  BY DEF push, put, try_pop, wait_and_pop
<1>2. \A u \in Threads : pc[u] \in {"idle", "notify", "waiting", "woken"}
  BY <1>1 DEF IInv, OneMutexPcs
<1>3. CASE push(t)
  <2>1. queue_' \in Seq(1 .. MaxItems) /\ calls' \in 0 .. MaxItems
    <3>1. calls + 1 \in 1 .. MaxItems
      BY <1>3 DEF push, IInv, TypeOK
    <3> QED
      BY <1>3, <3>1, AppendProperties DEF push, IInv, TypeOK
  <2>2. /\ pc' \in [Threads -> Pcs]
        /\ \A u \in Threads : pc'[u] \in {"idle", "notify", "waiting", "woken"}
    BY <1>2, <1>3, NotifyOne DEF push, IInv, TypeOK
  <2>3. TypeOK'
    BY <1>3, <2>1, <2>2 DEF push, IInv, TypeOK, list, locks
  <2> QED
    BY <1>1, <1>3, <2>2, <2>3, OneMutexKept DEF push
<1>4. CASE put(t)
  <2>1. queue_' \in Seq(1 .. MaxItems) /\ calls' \in 0 .. MaxItems
    <3>1. calls + 1 \in 1 .. MaxItems
      BY <1>4 DEF put, IInv, TypeOK
    <3> QED
      BY <1>4, <3>1, AppendProperties DEF put, IInv, TypeOK
  <2>2. /\ pc' \in [Threads -> Pcs]
        /\ \A u \in Threads : pc'[u] \in {"idle", "notify", "waiting", "woken"}
    BY <1>2, <1>4 DEF put, Goto, IInv, TypeOK, Pcs
  <2>3. TypeOK'
    BY <1>4, <2>1, <2>2 DEF put, IInv, TypeOK, list, locks
  <2> QED
    BY <1>1, <1>4, <2>2, <2>3, OneMutexKept DEF put
<1>5. CASE queue_ # <<>> /\ Take(t)
  <2>1. Head(queue_) \in 1 .. MaxItems /\ Tail(queue_) \in Seq(1 .. MaxItems)
    BY <1>5, HeadTailProperties DEF IInv, TypeOK
  <2>2. got' \in [Threads -> Seq(Nodes)]
    <3>1. Append(got[t], Head(queue_)) \in Seq(Nodes)
      BY <2>1, AppendProperties DEF IInv, TypeOK, Nodes
    <3> QED
      BY <1>5, <3>1 DEF Take, IInv, TypeOK
  <2>3. /\ pc' \in [Threads -> Pcs]
        /\ \A u \in Threads : pc'[u] \in {"idle", "notify", "waiting", "woken"}
    BY <1>2, <1>5 DEF Take, Goto, IInv, TypeOK, Pcs
  <2>4. TypeOK'
    BY <1>5, <2>1, <2>2, <2>3 DEF Take, IInv, TypeOK, list, locks
  <2> QED
    BY <1>1, <1>5, <2>3, <2>4, OneMutexKept DEF Take
<1>6. CASE Goto(t, "waiting") /\ UNCHANGED <<kind, queue_, list, locks, call, own, calls, got>>
  <2>1. /\ pc' \in [Threads -> Pcs]
        /\ \A u \in Threads : pc'[u] \in {"idle", "notify", "waiting", "woken"}
    BY <1>2, <1>6 DEF Goto, IInv, TypeOK, Pcs
  <2>2. TypeOK'
    BY <1>6, <2>1 DEF IInv, TypeOK, list, locks
  <2> QED
    BY <1>1, <1>6, <2>1, <2>2, OneMutexKept
<1> QED
  BY <1>3, <1>4, <1>5, <1>6 DEF try_pop, wait_and_pop

(* So do notify_one() with no mutex and a spurious wakeup, with one mutex or *)
(* with two (threadsafe_queue.cc:225, 156, BlockingQueue.cc:25).             *)
LEMMA WakeStep ==
  ASSUME IInv, NEW t \in Threads, Notify(t) \/ SpuriousWakeup(t)
  PROVE  IInv'
<1>1. /\ UNCHANGED <<kind, queue_, list, locks, call, own, calls, got>>
      /\ pc' \in [Threads -> Pcs]
      /\ \A u \in Threads :
           \/ pc'[u] = pc[u]
           \/ pc[u] = "notify" /\ pc'[u] = "idle"
           \/ pc[u] = "waiting" /\ pc'[u] = "woken"
  <2>1. CASE Notify(t)
    <3> DEFINE p == [pc EXCEPT ![t] = "idle"]
    <3>1. p \in [Threads -> Pcs] /\ \A u \in Threads : p[u] = IF u = t THEN "idle" ELSE pc[u]
      BY DEF IInv, TypeOK, Pcs
    <3>2. notify_one(p)
      BY <2>1 DEF Notify
    <3> HIDE DEF p
    <3>3. /\ pc' \in [Threads -> Pcs]
          /\ \A u \in Threads : pc'[u] = p[u] \/ (p[u] = "waiting" /\ pc'[u] = "woken")
      BY <3>1, <3>2, NotifyOne
    <3> QED
      BY <2>1, <3>1, <3>3 DEF Notify
  <2>2. CASE SpuriousWakeup(t)
    BY <2>2 DEF SpuriousWakeup, Goto, IInv, TypeOK, Pcs
  <2> QED
    BY <2>1, <2>2
<1>2. TypeOK'
  BY <1>1 DEF IInv, TypeOK, list, locks
<1>3. OneMutexPcs' /\ Locked' /\ Pushing'
  BY <1>1 DEF IInv, OneMutexPcs, Locked, Pushing, PushPcs, list, locks
<1>4. ListInv'
  BY <1>1, ListKept DEF PushPcs
<1> QED
  BY <1>2, <1>3, <1>4 DEF IInv

(* The steps of version_2 that only lock, test, wait or unlock               *)
(* (threadsafe_queue.cc:143-234).                                            *)
LEMMA LockStep ==
  ASSUME IInv, NEW t \in Threads,
         PushLock(t) \/ PopCall(t) \/ LockHead(t) \/ Test(t) \/ Wait(t) \/ ReadData(t)
  PROVE  IInv'
<1> USE QueueAssumption DEF Goto
<1>1. CASE PushLock(t)
  <2>1. TypeOK' /\ OneMutexPcs' /\ Locked' /\ Pushing'
    BY <1>1 DEF PushLock, IInv, TypeOK, OneMutexPcs, Locked, Pushing, PushPcs, Pcs, Free, list
  <2>2. ListInv'
    BY <1>1, ListKept DEF PushLock, IInv, TypeOK, PushPcs
  <2> QED
    BY <2>1, <2>2 DEF IInv
<1>2. CASE PopCall(t)
  <2>1. TypeOK' /\ OneMutexPcs' /\ Locked' /\ Pushing'
    BY <1>2 DEF PopCall, IInv, TypeOK, OneMutexPcs, Locked, Pushing, PushPcs, Pcs, list, locks
  <2>2. ListInv'
    BY <1>2, ListKept DEF PopCall, IInv, TypeOK, PushPcs
  <2> QED
    BY <2>1, <2>2 DEF IInv
<1>3. CASE LockHead(t)
  <2>1. TypeOK' /\ OneMutexPcs' /\ Locked' /\ Pushing'
    BY <1>3 DEF LockHead, IInv, TypeOK, OneMutexPcs, Locked, Pushing, PushPcs, Pcs, Free, list
  <2>2. ListInv'
    BY <1>3, ListKept DEF LockHead, IInv, TypeOK, PushPcs
  <2> QED
    BY <2>1, <2>2 DEF IInv
<1>4. CASE Test(t)
  <2>1. TypeOK' /\ OneMutexPcs' /\ Locked' /\ Pushing'
    <3>1. /\ pc[t] = "test" /\ pc' \in [Threads -> Pcs] /\ head_mutex_ = t
          /\ \A u \in Threads \ {t} : pc'[u] = pc[u]
          /\ \/ pc'[t] \in {"pop", "block"} /\ head_mutex_' = head_mutex_
             \/ pc'[t] = "idle" /\ head_mutex_' = Free
          /\ UNCHANGED <<kind, queue_, head_, tail_, data_, next_, tail_mutex_, call, own,
                         calls, got>>
      BY <1>4 DEF Test, IInv, TypeOK, Locked, Pcs, list, locks
    <3>2. TypeOK' /\ Pushing'
      BY <3>1 DEF IInv, TypeOK, Pushing, PushPcs
    <3>3. OneMutexPcs' /\ Locked'
      BY <3>1 DEF IInv, OneMutexPcs, Locked, Free
    <3> QED
      BY <3>2, <3>3
  <2>2. ListInv'
    BY <1>4, ListKept DEF Test, IInv, TypeOK, PushPcs
  <2> QED
    BY <2>1, <2>2 DEF IInv
<1>5. CASE Wait(t)
  <2>1. TypeOK' /\ OneMutexPcs' /\ Locked' /\ Pushing'
    BY <1>5 DEF Wait, IInv, TypeOK, OneMutexPcs, Locked, Pushing, PushPcs, Pcs, Free, list
  <2>2. ListInv'
    BY <1>5, ListKept DEF Wait, IInv, TypeOK, PushPcs
  <2> QED
    BY <2>1, <2>2 DEF IInv
<1>6. CASE ReadData(t)
  <2>1. got' \in [Threads -> Seq(Nodes)]
    <3>1. Append(got[t], data_[own[t]]) \in Seq(Nodes)
      BY AppendProperties DEF IInv, TypeOK
    <3> QED
      BY <1>6, <3>1 DEF ReadData, IInv, TypeOK
  <2>2. TypeOK' /\ OneMutexPcs' /\ Locked' /\ Pushing'
    BY <1>6, <2>1 DEF ReadData, IInv, TypeOK, OneMutexPcs, Locked, Pushing, PushPcs, Pcs, list, locks
  <2>3. ListInv'
    BY <1>6, ListKept DEF ReadData, IInv, TypeOK, PushPcs
  <2> QED
    BY <2>2, <2>3 DEF IInv
<1> QED
  BY <1>1, <1>2, <1>3, <1>4, <1>5, <1>6

(* The call of push makes an item and a node that are nobody's yet           *)
(* (threadsafe_queue.cc:214-218).                                            *)
LEMMA PushCallStep ==
  ASSUME IInv, NEW t \in Threads, PushCall(t)
  PROVE  IInv'
<1> USE QueueAssumption DEF Goto
<1>1. calls + 1 \in 1 .. MaxItems /\ calls \in Nat /\ calls' = calls + 1 /\ calls' \in Nodes
  BY DEF PushCall, IInv, TypeOK, Nodes
<1>2. /\ own' \in [Threads -> Nodes] /\ own'[t] = calls + 1
      /\ \A u \in Threads \ {t} : own'[u] = own[u]
      /\ pc' \in [Threads -> Pcs] /\ pc'[t] = "push" /\ pc[t] = "idle"
      /\ \A u \in Threads \ {t} : pc'[u] = pc[u]
      /\ UNCHANGED <<kind, queue_, list, locks, call, got>>
  BY <1>1 DEF PushCall, IInv, TypeOK, Pcs, PushPcs
<1>3. TypeOK'
  BY <1>1, <1>2 DEF IInv, TypeOK, list, locks
<1>4. OneMutexPcs' /\ Locked'
  BY <1>2 DEF PushCall, IInv, OneMutexPcs, Locked, locks
<1>5. Pushing'
  <2>1. \A u \in Threads \ {t} : pc[u] \in PushPcs =>
          own'[u] \in 1 .. calls' /\ own'[u] # own'[t]
    BY <1>1, <1>2 DEF IInv, Pushing
  <2>2. own'[t] \in 1 .. calls'
    BY <1>1, <1>2
  <2> QED
    BY <1>2, <2>1, <2>2 DEF IInv, Pushing, list
<1>6. ListInv'
  <2>1. PICK s \in Seq(Nodes) : Linked(tail_, next_, data_, s) /\ \E h \in DOMAIN s : Shape(s, h)
    BY DEF PushCall, IInv, ListInv
  <2>2. PICK h \in DOMAIN s : Shape(s, h)
    BY <2>1
  <2>3. Linked(tail_, next_, data_, s)'
    BY <1>2, <2>1 DEF Linked, list
  <2>4. \A n \in NodesOf(s) : n \in Nat /\ n <= calls
    <3>1. \A n \in NodesOf(s) : n \in Nodes
      BY LenProperties, ElementOfSeq DEF NodesOf
    <3> QED
      BY <2>2, <3>1 DEF Shape, Nodes
  <2>5. /\ calls + 1 \notin NodesOf(s)
        /\ \A n \in NodesOf(s) : n <= calls'
    BY <1>1, <2>4
  <2>6. \A n \in 1 .. calls' : n \in NodesOf(s) \/ \E u \in Threads : pc'[u] \in PushPcs /\ own'[u] = n
    <3> TAKE n \in 1 .. calls'
    <3>1. CASE n = calls + 1
      BY <1>2, <3>1 DEF PushPcs
    <3>2. CASE n \in 1 .. calls
      BY <1>2, <2>2, <3>2 DEF Shape, PushPcs
    <3> QED
      BY <1>1, <3>1, <3>2
  <2>7. Shape(s, h)'
    BY <1>2, <2>2, <2>5, <2>6 DEF Shape, PushPcs, list
  <2> QED
    BY <2>3, <2>7 DEF ListInv
<1> QED
  BY <1>3, <1>4, <1>5, <1>6 DEF IInv

(* With tail_mutex_ locked, data and next of the last node are written:      *)
(* those of the nodes before it stay (threadsafe_queue.cc:219-223).          *)
LEMMA PushWriteEffect ==
  ASSUME IInv, NEW t \in Threads, PushData(t) \/ PushNext(t)
  PROVE  /\ kind = "version_2" /\ pc[t] \in {"data", "next"} /\ pc'[t] \in {"next", "tail"}
         /\ pc' \in [Threads -> Pcs] /\ \A u \in Threads \ {t} : pc'[u] = pc[u]
         /\ data_' \in [Nodes -> Nodes] /\ next_' \in [Nodes -> Nodes]
         /\ \A n \in Nodes : n # tail_ => data_'[n] = data_[n] /\ next_'[n] = next_[n]
         /\ UNCHANGED <<kind, queue_, head_, tail_, locks, call, own, calls, got>>
  BY QueueAssumption DEF Goto, PushData, PushNext, IInv, TypeOK, OneMutexPcs, Pcs, PushPcs

(* The nodes that are linked are the same as before, and what they hold      *)
(* (threadsafe_queue.cc:219-223).                                            *)
LEMMA PushWriteList ==
  ASSUME IInv, NEW t \in Threads, PushData(t) \/ PushNext(t),
         NEW s \in Seq(Nodes), NEW h \in DOMAIN s, Linked(tail_, next_, data_, s), Shape(s, h)
  PROVE  Linked(tail_, next_, data_, s)' /\ Shape(s, h)'
<1>1. /\ pc[t] \in {"data", "next"} /\ pc'[t] \in {"next", "tail"}
      /\ \A u \in Threads \ {t} : pc'[u] = pc[u]
      /\ \A n \in Nodes : n # tail_ => data_'[n] = data_[n] /\ next_'[n] = next_[n]
      /\ UNCHANGED <<head_, tail_, own, calls>>
  BY PushWriteEffect
<1>2. /\ Len(s) \in Nat /\ DOMAIN s = 1 .. Len(s)
      /\ \A i \in DOMAIN s : s[i] \in Nodes
  BY LenProperties, ElementOfSeq
<1>3. \A i \in 1 .. Len(s) - 1 : i \in DOMAIN s /\ i < Len(s)
  BY <1>2
<1>4. \A i \in 1 .. Len(s) - 1 : s[i] # tail_ /\ s[i] \in Nodes
                                 /\ next_[s[i]] = s[i + 1] /\ data_[s[i]] = s[i + 1]
  BY <1>2, <1>3, LinkedNode
<1>5. \A i \in 1 .. Len(s) - 1 : next_'[s[i]] = s[i + 1] /\ data_'[s[i]] = s[i + 1]
  BY <1>1, <1>4
<1>6. tail_ \in NodesOf(s)
  <2>1. Len(s) # 0
    BY EmptySeq DEF Linked
  <2>2. Len(s) \in DOMAIN s
    BY <1>2, <2>1
  <2> QED
    BY <2>2 DEF Linked, NodesOf
<1>7. Linked(tail_, next_, data_, s)'
  BY <1>1, <1>5, <1>6 DEF Linked
<1>8. Shape(s, h)'
  BY <1>1 DEF Shape, PushPcs
<1> QED
  BY <1>7, <1>8

(* The writes keep the invariant: no other thread has tail_mutex_            *)
(* (threadsafe_queue.cc:219-223).                                            *)
LEMMA PushWriteStep ==
  ASSUME IInv, NEW t \in Threads, PushData(t) \/ PushNext(t)
  PROVE  IInv'
<1>1. /\ kind = "version_2" /\ pc[t] \in {"data", "next"} /\ pc'[t] \in {"next", "tail"}
      /\ pc' \in [Threads -> Pcs] /\ \A u \in Threads \ {t} : pc'[u] = pc[u]
      /\ data_' \in [Nodes -> Nodes] /\ next_' \in [Nodes -> Nodes]
      /\ UNCHANGED <<kind, queue_, head_, tail_, locks, call, own, calls, got>>
  BY PushWriteEffect
<1>2. TypeOK'
  BY <1>1 DEF IInv, TypeOK, locks
<1>3. OneMutexPcs' /\ Locked'
  BY <1>1 DEF IInv, OneMutexPcs, Locked, locks
<1>4. \A u \in Threads \ {t} : pc[u] \notin {"data", "next", "tail"}
  BY <1>1 DEF IInv, Locked
<1>5. /\ data_'[tail_] = own[t]
      /\ pc'[t] = "tail" => next_'[tail_] = own[t]
  BY <1>1 DEF PushData, PushNext, Goto, IInv, TypeOK, Pushing
<1>6. Pushing'
  BY <1>1, <1>4, <1>5 DEF IInv, Pushing, PushPcs
<1>7. ListInv'
  BY <1>1, PushWriteList DEF IInv, ListInv
<1> QED
  BY <1>2, <1>3, <1>6, <1>7 DEF IInv

(* What the step that moves tail_ does to the variables                      *)
(* (threadsafe_queue.cc:223-224).                                            *)
LEMMA PushTailEffect ==
  ASSUME IInv, NEW t \in Threads, PushTail(t)
  PROVE  /\ kind = "version_2" /\ pc[t] = "tail" /\ pc'[t] = "notify"
         /\ pc' \in [Threads -> Pcs] /\ \A u \in Threads \ {t} : pc'[u] = pc[u]
         /\ tail_mutex_ = t /\ tail_mutex_' = Free
         /\ tail_' = own[t] /\ own[t] \in Nodes /\ own[t] \in 1 .. calls
         /\ data_[tail_] = own[t] /\ next_[tail_] = own[t]
         /\ UNCHANGED <<kind, queue_, head_, data_, next_, head_mutex_, call, own, calls, got>>
<1>1. pc[t] = "tail" /\ kind = "version_2"
  BY DEF PushTail, IInv, OneMutexPcs
<1>2. /\ pc' \in [Threads -> Pcs] /\ pc'[t] = "notify"
      /\ \A u \in Threads \ {t} : pc'[u] = pc[u]
  BY DEF PushTail, Goto, IInv, TypeOK, Pcs
<1>3. tail_mutex_ = t
  BY <1>1 DEF IInv, Locked
<1>4. own[t] \in 1 .. calls /\ data_[tail_] = own[t] /\ next_[tail_] = own[t]
  BY <1>1 DEF IInv, Pushing, PushPcs
<1> QED
  BY <1>1, <1>2, <1>3, <1>4 DEF PushTail, IInv, TypeOK

(* The list is longer by the new node (threadsafe_queue.cc:219-224).         *)
LEMMA PushTailList ==
  ASSUME IInv, NEW t \in Threads, PushTail(t),
         NEW s \in Seq(Nodes), NEW h \in DOMAIN s, Linked(tail_, next_, data_, s), Shape(s, h),
         NEW x \in Nodes, x = own[t], NEW a \in Seq(Nodes), a = Append(s, x)
  PROVE  h \in DOMAIN a /\ Linked(tail_, next_, data_, a)' /\ Shape(a, h)'
<1>1. /\ kind = "version_2" /\ pc[t] = "tail" /\ pc'[t] = "notify"
      /\ \A u \in Threads \ {t} : pc'[u] = pc[u]
      /\ tail_' = x /\ x \in 1 .. calls /\ data_[tail_] = x /\ next_[tail_] = x
      /\ UNCHANGED <<head_, data_, next_, own, calls>>
  BY PushTailEffect
<1>2. /\ Len(s) \in Nat /\ DOMAIN s = 1 .. Len(s)
      /\ a # <<>> /\ Len(a) = Len(s) + 1 /\ DOMAIN a = 1 .. Len(s) + 1
      /\ a[Len(s) + 1] = x /\ \A i \in 1 .. Len(s) : a[i] = s[i]
  BY LenProperties, AppendProperties
<1>3. x \notin NodesOf(s) /\ Len(s) # 0
  BY <1>1, EmptySeq DEF Shape, PushPcs, Linked
<1>4. NodesOf(a) = NodesOf(s) \cup {x}
  BY <1>2 DEF NodesOf
<1>5. \A i, j \in DOMAIN a : a[i] = a[j] => i = j
  <2> TAKE i, j \in DOMAIN a
  <2>1. \A k \in 1 .. Len(s) : a[k] # x
    BY <1>2, <1>3 DEF NodesOf
  <2>2. CASE i \in 1 .. Len(s) /\ j \in 1 .. Len(s)
    BY <1>2, <2>2 DEF Linked
  <2>3. CASE i = Len(s) + 1 \/ j = Len(s) + 1
    BY <1>2, <2>1, <2>3
  <2> QED
    BY <1>2, <2>2, <2>3
<1>6. \A i \in 1 .. Len(a) - 1 : next_[a[i]] = a[i + 1] /\ data_[a[i]] = a[i + 1]
  <2> TAKE i \in 1 .. Len(a) - 1
  <2>1. i = Len(s) \/ i \in 1 .. Len(s) - 1
    <3>1. Len(s) \in Nat /\ Len(a) = Len(s) + 1
      BY <1>2
    <3>2. i \in Int /\ 1 <= i /\ i <= Len(s)
      BY <3>1
    <3> QED
      BY <3>1, <3>2
  <2>2. CASE i = Len(s)
    BY <1>1, <1>2, <1>3, <2>2 DEF Linked
  <2>3. CASE i \in 1 .. Len(s) - 1
    BY <1>2, <2>3 DEF Linked
  <2> QED
    BY <2>1, <2>2, <2>3
<1>7. a[1] = Null /\ a[Len(a)] = x
  BY <1>2, <1>3 DEF Linked
<1>8. \A n \in Nodes : n \notin NodesOf(a) => next_[n] = Null
  BY <1>4 DEF Linked
<1>9. Linked(tail_, next_, data_, a)'
  BY <1>1, <1>2, <1>5, <1>6, <1>7, <1>8 DEF Linked
<1>10. /\ a[h] = head_ /\ \A n \in NodesOf(a) : n <= calls
       /\ \A n \in 1 .. calls : n \in NodesOf(a) \/ \E u \in Threads : pc'[u] \in PushPcs /\ own[u] = n
  BY <1>1, <1>2, <1>4 DEF Shape
<1>11. \A u \in Threads :
         /\ pc'[u] \in PushPcs => own[u] \notin NodesOf(a)
         /\ pc'[u] = "pop" => h < Len(a)
  BY <1>1, <1>2, <1>4 DEF IInv, Shape, Pushing, PushPcs
<1>12. \A u \in Threads : pc'[u] = "read" =>
         /\ \E j \in 1 .. h - 1 : own[u] = a[j]
         /\ \A v \in Threads \ {u} : pc'[v] = "read" => own[v] # own[u]
  <2> TAKE u \in Threads
  <2> HAVE pc'[u] = "read"
  <2>1. pc[u] = "read" /\ \A v \in Threads : pc'[v] = "read" => pc[v] = "read"
    BY <1>1
  <2>2. PICK j \in 1 .. h - 1 : own[u] = s[j]
    BY <2>1 DEF Shape
  <2>3. own[u] = a[j]
    BY <1>2, <2>2
  <2> QED
    BY <2>1, <2>2, <2>3 DEF Shape
<1>13. Shape(a, h)'
  BY <1>1, <1>10, <1>11, <1>12 DEF Shape
<1> QED
  BY <1>2, <1>9, <1>13

(* tail_ moves to the new node and the mutex is unlocked: push is done with  *)
(* the list (threadsafe_queue.cc:223-224).                                   *)
LEMMA PushTailStep ==
  ASSUME IInv, NEW t \in Threads, PushTail(t)
  PROVE  IInv'
<1>1. /\ kind = "version_2" /\ pc[t] = "tail" /\ pc'[t] = "notify"
      /\ pc' \in [Threads -> Pcs] /\ \A u \in Threads \ {t} : pc'[u] = pc[u]
      /\ tail_mutex_ = t /\ tail_mutex_' = Free
      /\ tail_' = own[t] /\ own[t] \in Nodes
      /\ UNCHANGED <<kind, queue_, head_, data_, next_, head_mutex_, call, own, calls, got>>
  BY PushTailEffect
<1>2. TypeOK'
  BY <1>1 DEF IInv, TypeOK
<1>3. OneMutexPcs' /\ Locked'
  BY <1>1, QueueAssumption DEF IInv, OneMutexPcs, Locked
<1>4. Pushing'
  BY <1>1 DEF IInv, Locked, Pushing, PushPcs
<1>5. ListInv'
  <2>1. PICK s \in Seq(Nodes) : Linked(tail_, next_, data_, s) /\ \E h \in DOMAIN s : Shape(s, h)
    BY <1>1 DEF IInv, ListInv
  <2>2. PICK h \in DOMAIN s : Shape(s, h)
    BY <2>1
  <2>3. PICK x \in Nodes : x = own[t]
    BY <1>1
  <2>4. PICK a \in Seq(Nodes) : a = Append(s, x)
    BY AppendProperties
  <2>5. h \in DOMAIN a /\ Linked(tail_, next_, data_, a)' /\ Shape(a, h)'
    BY <2>1, <2>2, <2>3, <2>4, PushTailList
  <2> QED
    BY <2>5 DEF ListInv
<1> QED
  BY <1>2, <1>3, <1>4, <1>5 DEF IInv

(* What the step that moves head_ does to the variables, by pop_head() or in *)
(* wait_and_pop(T&) (threadsafe_queue.cc:148-152).                           *)
LEMMA PopEffect ==
  ASSUME IInv, NEW t \in Threads, pop_head(t) \/ wait_pop_head(t)
  PROVE  /\ kind = "version_2" /\ pc[t] = "pop" /\ head_mutex_ = t /\ head_mutex_' = Free
         /\ \/ pc'[t] = "read" /\ own'[t] = head_
            \/ pc'[t] = "idle" /\ own'[t] = own[t]
         /\ pc' \in [Threads -> Pcs] /\ own' \in [Threads -> Nodes]
         /\ \A u \in Threads \ {t} : pc'[u] = pc[u] /\ own'[u] = own[u]
         /\ head_' = next_[head_] /\ head_' \in Nodes
         /\ UNCHANGED <<kind, queue_, tail_, data_, next_, tail_mutex_, call, calls>>
<1>1. pc[t] = "pop" /\ kind = "version_2"
  BY DEF pop_head, wait_pop_head, IInv, OneMutexPcs
<1>2. head_mutex_ = t
  BY <1>1 DEF IInv, Locked
<1>3. head_' = next_[head_] /\ head_' \in Nodes /\ head_mutex_' = Free
  BY DEF pop_head, wait_pop_head, IInv, TypeOK
<1>4. /\ pc' \in [Threads -> Pcs] /\ own' \in [Threads -> Nodes]
      /\ \/ pc'[t] = "read" /\ own'[t] = head_
         \/ pc'[t] = "idle" /\ own'[t] = own[t]
      /\ \A u \in Threads \ {t} : pc'[u] = pc[u] /\ own'[u] = own[u]
  <2>1. CASE pop_head(t)
    BY <2>1 DEF pop_head, Goto, IInv, TypeOK, Pcs
  <2>2. CASE wait_pop_head(t)
    BY <2>2 DEF wait_pop_head, Goto, IInv, TypeOK, Pcs
  <2> QED
    BY <2>1, <2>2
<1>5. UNCHANGED <<kind, queue_, tail_, data_, next_, tail_mutex_, call, calls>>
  BY DEF pop_head, wait_pop_head
<1> QED
  BY <1>1, <1>2, <1>3, <1>4, <1>5

(* The next node is there, it has the item, and the old head is the one's    *)
(* who took it alone (threadsafe_queue.cc:148-152).                          *)
LEMMA PopList ==
  ASSUME IInv, NEW t \in Threads, pop_head(t) \/ wait_pop_head(t),
         NEW s \in Seq(Nodes), NEW h \in DOMAIN s, Linked(tail_, next_, data_, s), Shape(s, h)
  PROVE  /\ h < Len(s) /\ h + 1 \in DOMAIN s /\ data_[head_] = s[h + 1]
         /\ Linked(tail_, next_, data_, s)' /\ Shape(s, h + 1)'
<1>1. /\ kind = "version_2" /\ pc[t] = "pop"
      /\ \/ pc'[t] = "read" /\ own'[t] = head_
         \/ pc'[t] = "idle" /\ own'[t] = own[t]
      /\ \A u \in Threads \ {t} : pc'[u] = pc[u] /\ own'[u] = own[u]
      /\ head_' = next_[head_]
      /\ UNCHANGED <<tail_, data_, next_, calls>>
  BY PopEffect
<1>0. Len(s) \in Nat
  BY LenProperties
<1>2. DOMAIN s = 1 .. Len(s) /\ h \in Nat /\ h < Len(s) /\ s[h] = head_
  <2>1. DOMAIN s = 1 .. Len(s)
    BY LenProperties
  <2>2. h < Len(s) /\ s[h] = head_
    BY <1>1 DEF Shape
  <2> QED
    BY <1>0, <2>1, <2>2
<1>3. h + 1 \in DOMAIN s /\ next_[head_] = s[h + 1] /\ data_[head_] = s[h + 1]
  BY <1>2, LinkedNode
<1>4. Linked(tail_, next_, data_, s)'
  BY <1>1 DEF Linked
<1>5. \A u \in Threads : pc'[u] \in PushPcs => pc[u] \in PushPcs /\ own'[u] = own[u]
  BY <1>1 DEF PushPcs
<1>6. \A u \in Threads : pc'[u] # "pop"
  BY <1>1 DEF IInv, Locked
<1>7. \A u \in Threads \ {t} : pc[u] = "read" => own[u] # head_ /\ \E j \in 1 .. h : own[u] = s[j]
  <2> TAKE u \in Threads \ {t}
  <2> HAVE pc[u] = "read"
  <2>1. PICK j \in 1 .. h - 1 : own[u] = s[j]
    BY DEF Shape
  <2>2. j \in DOMAIN s /\ j # h /\ j \in 1 .. h
    BY <1>0, <1>2, <2>1
  <2> QED
    BY <1>2, <2>1, <2>2 DEF Linked
<1>8. \A u \in Threads : pc'[u] = "read" =>
        /\ \E j \in 1 .. h : own'[u] = s[j]
        /\ \A v \in Threads \ {u} : pc'[v] = "read" => own'[v] # own'[u]
  <2>1. \A u \in Threads \ {t} : pc'[u] = "read" =>
          \A v \in Threads \ {u, t} : pc'[v] = "read" => own'[v] # own'[u]
    BY <1>1 DEF Shape
  <2>2. pc'[t] = "read" => own'[t] = s[h] /\ own'[t] = head_ /\ h \in 1 .. h
    BY <1>1, <1>2
  <2> QED
    BY <1>1, <1>7, <2>1, <2>2
<1>9. (h + 1) - 1 = h
  BY <1>2
<1>10. \A n \in 1 .. calls : n \in NodesOf(s) \/ \E u \in Threads : pc'[u] \in PushPcs /\ own'[u] = n
  BY <1>1 DEF Shape, PushPcs
<1>11. Shape(s, h + 1)'
  BY <1>1, <1>3, <1>5, <1>6, <1>8, <1>9, <1>10 DEF Shape
<1> QED
  BY <1>2, <1>3, <1>4, <1>11

(* head_ moves to the next node and the mutex is unlocked                    *)
(* (threadsafe_queue.cc:148-152).                                            *)
LEMMA PopStep ==
  ASSUME IInv, NEW t \in Threads, pop_head(t) \/ wait_pop_head(t)
  PROVE  IInv'
<1>1. /\ kind = "version_2" /\ pc[t] = "pop" /\ head_mutex_ = t /\ head_mutex_' = Free
      /\ pc'[t] \in {"read", "idle"}
      /\ pc' \in [Threads -> Pcs] /\ own' \in [Threads -> Nodes]
      /\ \A u \in Threads \ {t} : pc'[u] = pc[u] /\ own'[u] = own[u]
      /\ head_' \in Nodes
      /\ UNCHANGED <<kind, queue_, tail_, data_, next_, tail_mutex_, call, calls>>
  BY PopEffect
<1>2. got' \in [Threads -> Seq(Nodes)]
  <2>1. Append(got[t], data_[head_]) \in Seq(Nodes)
    BY AppendProperties DEF IInv, TypeOK
  <2> QED
    BY <2>1 DEF pop_head, wait_pop_head, IInv, TypeOK
<1>3. TypeOK'
  BY <1>1, <1>2 DEF IInv, TypeOK
<1>4. OneMutexPcs' /\ Locked'
  BY <1>1, QueueAssumption DEF IInv, OneMutexPcs, Locked
<1>5. Pushing'
  BY <1>1 DEF IInv, Pushing, PushPcs
<1>6. ListInv'
  <2>1. PICK s \in Seq(Nodes) : Linked(tail_, next_, data_, s) /\ \E h \in DOMAIN s : Shape(s, h)
    BY <1>1 DEF IInv, ListInv
  <2>2. PICK h \in DOMAIN s : Shape(s, h)
    BY <2>1
  <2>3. PICK k \in DOMAIN s : k = h + 1
    BY <2>1, <2>2, PopList
  <2>4. Linked(tail_, next_, data_, s)' /\ Shape(s, k)'
    BY <2>1, <2>2, <2>3, PopList
  <2> QED
    BY <2>4 DEF ListInv
<1> QED
  BY <1>3, <1>4, <1>5, <1>6 DEF IInv

(* Every step of a thread keeps the invariant (threadsafe_queue.cc:81-234,   *)
(* BlockingQueue.cc:19-35).                                                  *)
LEMMA Consecution == IInv /\ [Next]_vars => IInv'
<1> SUFFICES ASSUME IInv, [Next]_vars PROVE IInv'
  OBVIOUS
<1>1. CASE UNCHANGED vars
  BY <1>1 DEF vars, list, locks, IInv, TypeOK, OneMutexPcs, Locked, Pushing, ListInv, Shape
<1>2. CASE Next
  <2>1. PICK t \in Threads :
          Call(t) \/ (pc[t] = "idle" /\ wait_and_pop(t)) \/ Continue(t) \/ SpuriousWakeup(t)
    BY <1>2 DEF Next
  <2> QED
    BY <2>1, OneMutexStep, WakeStep, LockStep, PushCallStep, PushWriteStep, PushTailStep, PopStep
       DEF Call, Continue
<1> QED
  BY <1>1, <1>2

(* The threads lock, link and unlink in such a way that the list of          *)
(* version_2 is always one chain of nodes from the head to the tail          *)
(* (threadsafe_queue.cc:81-234, BlockingQueue.cc:19-35).                     *)
THEOREM Invariance == Spec => []IInv
  BY Initiation, Consecution, PTL DEF Spec

(* A thread about to pop has a complete node before it that no push writes,  *)
(* and old heads are nobody else's, though each end has a mutex of its own   *)
(* (threadsafe_queue.cc:148-152, 219-224).                                   *)
THEOREM Apart == Spec => []EndsApart
<1>1. IInv => EndsApart
  <2> SUFFICES ASSUME IInv, NEW t \in Threads
               PROVE  /\ pc[t] = "pop" => /\ head_ # tail_
                                          /\ Null \notin {data_[head_], next_[head_]}
                                          /\ \A u \in Threads \ {t} : pc[u] # "pop"
                      /\ pc[t] = "read" =>
                           /\ own[t] # tail_
                           /\ \A u \in Threads \ {t} : pc[u] = "read" => own[u] # own[t]
    BY DEF EndsApart
  <2>1. pc[t] = "pop" => \A u \in Threads \ {t} : pc[u] # "pop"
    BY DEF IInv, Locked
  <2>2. SUFFICES ASSUME pc[t] \in {"pop", "read"}
                 PROVE  /\ pc[t] = "pop" => head_ # tail_ /\ Null \notin {data_[head_], next_[head_]}
                        /\ pc[t] = "read" =>
                             /\ own[t] # tail_
                             /\ \A u \in Threads \ {t} : pc[u] = "read" => own[u] # own[t]
    BY <2>1
  <2>3. PICK s \in Seq(Nodes) : Linked(tail_, next_, data_, s) /\ \E h \in DOMAIN s : Shape(s, h)
    BY <2>2 DEF IInv, OneMutexPcs, ListInv
  <2>4. PICK h \in DOMAIN s : Shape(s, h)
    BY <2>3
  <2>5. pc[t] = "pop" => head_ # tail_ /\ Null \notin {data_[head_], next_[head_]}
    BY <2>3, <2>4, LinkedNode DEF Shape
  <2>6. ASSUME pc[t] = "read"
        PROVE  own[t] # tail_
    <3>1. Len(s) \in Nat /\ DOMAIN s = 1 .. Len(s)
      BY LenProperties
    <3>2. PICK j \in 1 .. h - 1 : own[t] = s[j]
      BY <2>4, <2>6 DEF Shape
    <3>3. j \in DOMAIN s /\ j < Len(s)
      BY <3>1, <3>2
    <3> QED
      BY <2>3, <3>2, <3>3, LinkedNode
  <2> QED
    BY <2>4, <2>5, <2>6 DEF Shape
<1> QED
  BY <1>1, Invariance, PTL

-----------------------------------------------------------------------------
(* Wakeups with one mutex.                                                   *)

Announcers(p) == {t \in Threads : p[t] \in {"woken", "notify"}}

(* Every item is announced for at every step: a push wakes a thread or       *)
(* nobody waits, a notifier leaves only when it has woken one, and a woken   *)
(* thread leaves with an item or finds the queue empty                       *)
(* (threadsafe_queue.cc:85, 90, BlockingQueue.cc:25, 30).                    *)
LEMMA AnnouncedStep ==
  ASSUME IInv, EveryItemAnnounced, [Next]_vars
  PROVE  EveryItemAnnounced'
<1> DEFINE A == Announcers(pc)
           B == Announcers(pc')
<1>1. /\ IsFiniteSet(A) /\ IsFiniteSet(B)
      /\ Cardinality(A) \in Nat /\ Cardinality(B) \in Nat
  <2>1. A \subseteq Threads /\ B \subseteq Threads
    BY DEF Announcers
  <2> QED
    BY <2>1, QueueAssumption, FS_Subset, FS_CardinalityType
<1>2. Len(queue_) \in Nat
  BY LenProperties DEF IInv, TypeOK
<1>3. SUFFICES ASSUME kind' # "version_2", Waiting(pc') # {}
               PROVE  Len(queue_') <= Cardinality(B)
  BY DEF EveryItemAnnounced, Announcers
<1>4. Waiting(pc) # {} /\ kind # "version_2" => Len(queue_) <= Cardinality(A)
  BY DEF EveryItemAnnounced, Announcers
<1>5. CASE UNCHANGED vars
  BY <1>3, <1>4, <1>5 DEF vars
<1>6. CASE Next
  <2>1. PICK t \in Threads :
          Call(t) \/ (pc[t] = "idle" /\ wait_and_pop(t)) \/ Continue(t) \/ SpuriousWakeup(t)
    BY <1>6 DEF Next
  <2>2. kind # "version_2"
    BY <1>3, <2>1 DEF Call, Continue, push, put, try_pop, wait_and_pop, Take, PushCall, PopCall,
         PushLock, PushData, PushNext, PushTail, Notify, LockHead, Test, Wait, pop_head, ReadData,
         wait_pop_head, SpuriousWakeup
  <2>3. pc[t] \in {"idle", "notify", "waiting", "woken"} /\ pc \in [Threads -> Pcs]
    BY <2>2 DEF IInv, OneMutexPcs, TypeOK
  <2>4. CASE push(t)
    <3>1. Waiting(pc) # {}
      BY <1>3, <2>4 DEF push, notify_one
    <3>2. PICK w \in Waiting(pc) : pc' = [pc EXCEPT ![w] = "woken"]
      BY <2>4, <3>1 DEF push, notify_one
    <3>3. w \notin A /\ B = A \cup {w}
      BY <2>3, <3>2 DEF Waiting, Announcers
    <3>4. Len(queue_') = Len(queue_) + 1
      BY <2>4, AppendProperties DEF push, IInv, TypeOK
    <3>5. Cardinality(B) = Cardinality(A) + 1
      BY <1>1, <3>3, FS_AddElement
    <3> QED
      BY <1>1, <1>2, <1>4, <2>2, <3>1, <3>4, <3>5
  <2>5. CASE put(t)
    <3>1. Waiting(pc) = Waiting(pc') /\ t \notin A /\ B = A \cup {t}
      BY <2>3, <2>5 DEF put, Goto, Waiting, Announcers
    <3>2. Len(queue_') = Len(queue_) + 1
      BY <2>5, AppendProperties DEF put, IInv, TypeOK
    <3>3. Cardinality(B) = Cardinality(A) + 1
      BY <1>1, <3>1, FS_AddElement
    <3> QED
      BY <1>1, <1>2, <1>3, <1>4, <2>2, <3>1, <3>2, <3>3
  <2>6. CASE queue_ # <<>> /\ Take(t) /\ pc[t] \in {"idle", "woken"}
    <3>1. Waiting(pc) = Waiting(pc')
      BY <2>3, <2>6 DEF Take, Goto, Waiting
    <3>2. Len(queue_') = Len(queue_) - 1
      BY <2>6, HeadTailProperties DEF Take, IInv, TypeOK
    <3>3. B = A \ {t}
      BY <2>3, <2>6 DEF Take, Goto, Announcers
    <3>4. Cardinality(B) = Cardinality(A) \/ Cardinality(B) = Cardinality(A) - 1
      BY <1>1, <3>3, FS_RemoveElement
    <3> QED
      BY <1>1, <1>2, <1>3, <1>4, <2>2, <3>1, <3>2, <3>4
  <2>7. CASE queue_ = <<>> /\ UNCHANGED queue_
    BY <1>1, <2>7
  <2>8. CASE Notify(t)
    <3> DEFINE p == [pc EXCEPT ![t] = "idle"]
    <3>1. notify_one(p) /\ t \in A /\ queue_' = queue_
      BY <2>8 DEF Notify, Announcers
    <3>2. Waiting(p) = Waiting(pc) /\ p \in [Threads -> Pcs]
      BY <2>3, <2>8 DEF Notify, Waiting, Pcs
    <3>3. Announcers(p) = A \ {t}
      BY <2>3 DEF Announcers
    <3> HIDE DEF p
    <3>4. Waiting(p) # {}
      BY <1>3, <3>1 DEF notify_one
    <3>5. PICK w \in Waiting(p) : pc' = [p EXCEPT ![w] = "woken"]
      BY <3>1, <3>4 DEF notify_one
    <3>6. w \notin A \ {t} /\ B = (A \ {t}) \cup {w}
      BY <3>2, <3>3, <3>5 DEF Waiting, Announcers
    <3>7. IsFiniteSet(A \ {t}) /\ Cardinality(A \ {t}) = Cardinality(A) - 1
      BY <1>1, <3>1, FS_RemoveElement
    <3>8. Cardinality(B) = Cardinality(A \ {t}) + 1
      BY <3>6, <3>7, FS_AddElement
    <3> QED
      BY <1>1, <1>4, <2>2, <3>1, <3>2, <3>4, <3>7, <3>8
  <2>9. CASE SpuriousWakeup(t)
    <3>1. t \in Waiting(pc) /\ A \subseteq B /\ queue_' = queue_
      BY <2>3, <2>9 DEF SpuriousWakeup, Goto, Waiting, Announcers
    <3>2. Cardinality(A) <= Cardinality(B)
      BY <1>1, <3>1, FS_Subset
    <3> QED
      BY <1>1, <1>2, <1>4, <2>2, <3>1, <3>2
  <2> QED
    BY <2>1, <2>2, <2>3, <2>4, <2>5, <2>6, <2>7, <2>8, <2>9
       DEF Call, Continue, try_pop, wait_and_pop, PushCall, PopCall, PushLock, PushData, PushNext,
           PushTail, LockHead, Test, Wait, pop_head, ReadData, wait_pop_head
<1> QED
  BY <1>5, <1>6

(* With one mutex no push is forgotten: while a thread waits there is, for   *)
(* every item, a thread that was woken or one that will notify               *)
(* (threadsafe_queue.cc:85, 90, BlockingQueue.cc:25, 30).                    *)
THEOREM Announced == Spec => []EveryItemAnnounced
<1>1. Init => EveryItemAnnounced
  BY DEF Init, EveryItemAnnounced, Waiting
<1> QED
  BY <1>1, AnnouncedStep, Invariance, PTL DEF Spec

-----------------------------------------------------------------------------
(* The queues implement Fifo.                                                *)

(* What Fifo's variables pushed and got stand for.                           *)
Pushed == (1 .. calls) \ {own[t] : t \in {u \in Threads : pc[u] \in PushPcs}}

Got == [t \in Threads |-> got[t] \o IF pc[t] = "read" THEN <<data_[own[t]]>> ELSE <<>>]

(* A thread has what its calls returned and, from the moment it has the old  *)
(* head, the item in it (threadsafe_queue.cc:209-212, 231-234).              *)
LEMMA GotValue ==
  ASSUME NEW g \in Seq(Nodes), NEW x \in Nodes
  PROVE  g \o <<>> = g /\ g \o <<x>> = Append(g, x)
  BY ConcatEmptySeq, AppendIsConcat

(* Of the state before a step, and of the one after it                       *)
(* (threadsafe_queue.cc:209-212, 231-234).                                   *)
LEMMA GotNow ==
  ASSUME TypeOK
  PROVE  Got = [t \in Threads |->
                  IF pc[t] = "read" THEN Append(got[t], data_[own[t]]) ELSE got[t]]
<1>1. \A t \in Threads : got[t] \in Seq(Nodes) /\ data_[own[t]] \in Nodes
  BY DEF TypeOK
<1>2. \A t \in Threads : /\ got[t] \o <<>> = got[t]
                         /\ got[t] \o <<data_[own[t]]>> = Append(got[t], data_[own[t]])
  BY <1>1, GotValue
<1> QED
  BY <1>2 DEF Got

(* The same after a step (threadsafe_queue.cc:209-212, 231-234).             *)
LEMMA GotNext ==
  ASSUME TypeOK'
  PROVE  Got' = [t \in Threads |->
                   IF pc'[t] = "read" THEN Append(got'[t], data_'[own'[t]]) ELSE got'[t]]
<1>1. \A t \in Threads : got'[t] \in Seq(Nodes) /\ data_'[own'[t]] \in Nodes
  BY DEF TypeOK
<1>2. \A t \in Threads : /\ got'[t] \o <<>> = got'[t]
                         /\ got'[t] \o <<data_'[own'[t]]>> = Append(got'[t], data_'[own'[t]])
  BY <1>1, GotValue
<1> QED
  BY <1>2 DEF Got

(* Chain is the function of the list's fields that the lemmas are about.     *)
LEMMA ChainIs ==
  /\ Chain = ChainOf(tail_, next_, data_)
  /\ Chain' = ChainOf(tail_', next_', data_')
  BY DEF Chain, ChainOf

(* The contents of version_2, before and after a step                        *)
(* (threadsafe_queue.cc:143-152).                                            *)
LEMMA ContentsIs ==
  ASSUME TypeOK, kind = "version_2", NEW s \in Seq(Nodes), NEW h \in DOMAIN s,
         Linked(tail_, next_, data_, s), s[h] = head_
  PROVE  Contents = Rest(s, h)
<1>1. ChainOf(tail_, next_, data_)[s[h]] = Rest(s, h)
  BY ChainIsRest DEF TypeOK
<1> QED
  BY <1>1, ChainIs DEF Contents

(* The same after a step (threadsafe_queue.cc:143-152).                      *)
LEMMA ContentsNext ==
  ASSUME TypeOK', kind' = "version_2", NEW s \in Seq(Nodes), NEW h \in DOMAIN s,
         Linked(tail_, next_, data_, s)', s[h] = head_'
  PROVE  Contents' = Rest(s, h)
<1>1. tail_' \in Nodes /\ next_' \in [Nodes -> Nodes] /\ data_' \in [Nodes -> Nodes]
  BY DEF TypeOK
<1>2. Linked(tail_', next_', data_', s)
  BY DEF Linked
<1>3. ChainOf(tail_', next_', data_')[s[h]] = Rest(s, h)
  BY <1>1, <1>2, ChainIsRest
<1> QED
  BY <1>3, ChainIs DEF Contents

(* The state of Fifo, in the terms of the queues.                            *)
LEMMA MappedStep ==
  ASSUME \/ UNCHANGED <<Contents, Pushed, Got>>
         \/ \E x \in 1 .. MaxItems :
              /\ x \notin Pushed /\ Pushed' = Pushed \cup {x}
              /\ Contents' = Append(Contents, x) /\ Got' = Got
         \/ \E t \in Threads :
              /\ Contents # <<>> /\ Contents' = Tail(Contents)
              /\ Got' = [Got EXCEPT ![t] = Append(@, Head(Contents))] /\ Pushed' = Pushed
  PROVE  [Queue!Next]_(Queue!vars)
<1> HIDE DEF Contents
<1> QED
  BY DEF Queue!Next, Queue!Enqueue, Queue!Dequeue, Queue!vars, Pushed, Got

(* With one mutex, push and put are Fifo's Enqueue and Take its Dequeue      *)
(* (threadsafe_queue.cc:81-121, BlockingQueue.cc:19-35).                     *)
LEMMA OneMutexRefines ==
  ASSUME IInv, IInv', kind # "version_2", NEW t \in Threads,
         push(t) \/ put(t) \/ try_pop(t) \/ wait_and_pop(t) \/ Notify(t) \/ SpuriousWakeup(t)
  PROVE  [Queue!Next]_(Queue!vars)
<1>1. kind' = kind
  BY DEF push, put, try_pop, wait_and_pop, Take, Notify, SpuriousWakeup
<1>2. Contents = queue_ /\ Contents' = queue_'
  BY <1>1 DEF Contents
<1>3. \A u \in Threads : pc[u] \notin PushPcs /\ pc[u] # "read"
  BY DEF IInv, OneMutexPcs, PushPcs
<1>4. \A u \in Threads : pc'[u] \notin PushPcs /\ pc'[u] # "read"
  BY <1>1 DEF IInv, OneMutexPcs, PushPcs
<1>5. Pushed = 1 .. calls /\ Pushed' = 1 .. calls'
  BY <1>3, <1>4 DEF Pushed
<1>6. Got = got /\ Got' = got'
  <2>1. Got = [u \in Threads |-> IF pc[u] = "read" THEN Append(got[u], data_[own[u]]) ELSE got[u]]
    BY GotNow DEF IInv
  <2>2. Got' = [u \in Threads |->
                  IF pc'[u] = "read" THEN Append(got'[u], data_'[own'[u]]) ELSE got'[u]]
    BY GotNext DEF IInv
  <2> QED
    BY <1>3, <1>4, <2>1, <2>2 DEF IInv, TypeOK
<1>7. CASE push(t) \/ put(t)
  <2>1. /\ calls + 1 \in 1 .. MaxItems /\ calls \in Nat /\ calls' = calls + 1 /\ got' = got
        /\ queue_' = Append(queue_, calls + 1)
    BY <1>7, QueueAssumption DEF push, put, IInv, TypeOK
  <2>2. calls + 1 \notin 1 .. calls /\ 1 .. calls + 1 = (1 .. calls) \cup {calls + 1}
    BY <2>1
  <2> QED
    BY <1>2, <1>5, <1>6, <2>1, <2>2, MappedStep
<1>8. CASE queue_ # <<>> /\ Take(t)
  BY <1>2, <1>5, <1>6, <1>8, MappedStep DEF Take
<1>9. CASE UNCHANGED <<queue_, calls, got>>
  BY <1>2, <1>5, <1>6, <1>9, MappedStep
<1> QED
  BY <1>7, <1>8, <1>9 DEF try_pop, wait_and_pop, Notify, SpuriousWakeup

(* The steps of version_2 that move neither end do nothing to Fifo's state:  *)
(* what is written to the last node is not in the list yet, and the old      *)
(* heads that are read are not written (threadsafe_queue.cc:143-234).        *)
LEMMA StuttersRefine ==
  ASSUME IInv, IInv', kind = "version_2", NEW t \in Threads,
         \/ PushCall(t) \/ PushLock(t) \/ PushData(t) \/ PushNext(t) \/ Notify(t)
         \/ PopCall(t) \/ LockHead(t) \/ Test(t) \/ Wait(t) \/ ReadData(t) \/ SpuriousWakeup(t)
  PROVE  UNCHANGED <<Contents, Pushed, Got>>
<1>t. pc \in [Threads -> Pcs] /\ got \in [Threads -> Seq(Nodes)] /\ own \in [Threads -> Nodes]
  BY DEF IInv, TypeOK
<1>g. /\ Got = [u \in Threads |->
                  IF pc[u] = "read" THEN Append(got[u], data_[own[u]]) ELSE got[u]]
      /\ Got' = [u \in Threads |->
                  IF pc'[u] = "read" THEN Append(got'[u], data_'[own'[u]]) ELSE got'[u]]
  <2>1. Got = [u \in Threads |-> IF pc[u] = "read" THEN Append(got[u], data_[own[u]]) ELSE got[u]]
    BY GotNow DEF IInv
  <2>2. Got' = [u \in Threads |->
                  IF pc'[u] = "read" THEN Append(got'[u], data_'[own'[u]]) ELSE got'[u]]
    BY GotNext DEF IInv
  <2> QED
    BY <2>1, <2>2
<1>c. ASSUME UNCHANGED <<kind, queue_, head_, tail_, data_, next_>>
      PROVE  Contents' = Contents
  BY <1>c, ChainIs DEF Contents
<1>1. CASE PushData(t) \/ PushNext(t)
  <2>1. /\ pc[t] \in {"data", "next"} /\ pc'[t] \in {"next", "tail"}
        /\ \A u \in Threads \ {t} : pc'[u] = pc[u]
        /\ \A n \in Nodes : n # tail_ => data_'[n] = data_[n]
        /\ UNCHANGED <<kind, head_, own, calls, got>>
    BY <1>1, PushWriteEffect
  <2>2. PICK s \in Seq(Nodes) : Linked(tail_, next_, data_, s) /\ \E h \in DOMAIN s : Shape(s, h)
    BY DEF IInv, ListInv
  <2>3. PICK h \in DOMAIN s : Shape(s, h)
    BY <2>2
  <2>4. s[h] = head_ /\ s[h] = head_' /\ Linked(tail_, next_, data_, s)'
    BY <1>1, <2>1, <2>2, <2>3, PushWriteList DEF Shape
  <2>5. Contents = Rest(s, h) /\ Contents' = Rest(s, h)
    BY <2>1, <2>2, <2>4, ContentsIs, ContentsNext DEF IInv
  <2>6. Pushed' = Pushed
    BY <2>1 DEF Pushed, PushPcs
  <2>7. \A u \in Threads : pc[u] = "read" => own[u] # tail_
    <3> TAKE u \in Threads
    <3> HAVE pc[u] = "read"
    <3>1. Len(s) \in Nat /\ DOMAIN s = 1 .. Len(s)
      BY LenProperties
    <3>2. PICK j \in 1 .. h - 1 : own[u] = s[j]
      BY <2>3 DEF Shape
    <3>3. j \in DOMAIN s /\ j < Len(s)
      BY <3>1, <3>2
    <3> QED
      BY <2>2, <3>2, <3>3, LinkedNode
  <2>8. Got' = Got
    BY <1>g, <1>t, <2>1, <2>7
  <2> QED
    BY <2>5, <2>6, <2>8
<1>2. CASE PushCall(t)
  <2>1. /\ calls \in Nat /\ calls' = calls + 1 /\ own'[t] = calls + 1
        /\ \A u \in Threads \ {t} : own'[u] = own[u] /\ pc'[u] = pc[u]
        /\ pc[t] = "idle" /\ pc'[t] = "push"
        /\ UNCHANGED <<kind, queue_, head_, tail_, data_, next_, got>>
    BY <1>2, <1>t DEF PushCall, Goto, list, IInv, TypeOK
  <2>2. {own'[u] : u \in {v \in Threads : pc'[v] \in PushPcs}}
          = {own[u] : u \in {v \in Threads : pc[v] \in PushPcs}} \cup {calls + 1}
    BY <2>1 DEF PushPcs
  <2>3. Pushed' = Pushed
    <3> DEFINE P == {own[u] : u \in {v \in Threads : pc[v] \in PushPcs}}
               Q == {own'[u] : u \in {v \in Threads : pc'[v] \in PushPcs}}
    <3>1. Pushed = (1 .. calls) \ P /\ Pushed' = (1 .. calls + 1) \ Q /\ Q = P \cup {calls + 1}
      BY <2>1, <2>2 DEF Pushed
    <3> HIDE DEF P, Q
    <3> QED
      BY <2>1, <3>1
  <2>4. Got' = Got
    BY <1>g, <2>1
  <2> QED
    BY <1>c, <2>1, <2>3, <2>4
<1>3. CASE ReadData(t)
  <2>1. /\ pc[t] = "read" /\ pc'[t] = "idle" /\ \A u \in Threads \ {t} : pc'[u] = pc[u]
        /\ got'[t] = Append(got[t], data_[own[t]]) /\ \A u \in Threads \ {t} : got'[u] = got[u]
        /\ UNCHANGED <<kind, queue_, head_, tail_, data_, next_, own, calls>>
    BY <1>3, <1>t DEF ReadData, Goto, list
  <2>2. Pushed' = Pushed
    BY <2>1 DEF Pushed, PushPcs
  <2>3. Got' = Got
    BY <1>g, <2>1
  <2> QED
    BY <1>c, <2>1, <2>2, <2>3
<1>4. CASE \/ PushLock(t) \/ Notify(t) \/ PopCall(t) \/ LockHead(t) \/ Test(t) \/ Wait(t)
           \/ SpuriousWakeup(t)
  <2>1. UNCHANGED <<kind, queue_, head_, tail_, data_, next_, own, calls, got>>
    BY <1>4 DEF PushLock, Notify, PopCall, LockHead, Test, Wait, SpuriousWakeup, list
  <2>2. \A u \in Threads : /\ pc'[u] \in PushPcs <=> pc[u] \in PushPcs
                           /\ pc'[u] = "read" <=> pc[u] = "read"
    <3>1. CASE Notify(t)
      <4> DEFINE p == [pc EXCEPT ![t] = "idle"]
      <4>1. /\ pc[t] = "notify" /\ notify_one(p) /\ p \in [Threads -> Pcs]
            /\ \A u \in Threads : p[u] = IF u = t THEN "idle" ELSE pc[u]
        BY <1>t, <3>1 DEF Notify, Pcs
      <4> HIDE DEF p
      <4>2. \A u \in Threads : pc'[u] = p[u] \/ (p[u] = "waiting" /\ pc'[u] = "woken")
        BY <4>1, NotifyOne
      <4> QED
        BY <4>1, <4>2 DEF PushPcs
    <3>2. CASE PushLock(t) \/ PopCall(t) \/ LockHead(t) \/ Wait(t) \/ SpuriousWakeup(t)
      BY <1>t, <3>2 DEF PushLock, PopCall, LockHead, Wait, SpuriousWakeup, Goto, PushPcs
    <3>3. CASE Test(t)
      BY <1>t, <3>3 DEF Test, Goto, PushPcs
    <3> QED
      BY <1>4, <3>1, <3>2, <3>3
  <2>3. Pushed' = Pushed
    BY <2>1, <2>2 DEF Pushed
  <2>4. Got' = Got
    BY <1>g, <2>1, <2>2
  <2> QED
    BY <1>c, <2>1, <2>3, <2>4
<1> QED
  BY <1>1, <1>2, <1>3, <1>4

(* The move of tail_ is Enqueue (threadsafe_queue.cc:219-224).               *)
LEMMA PushTailRefines ==
  ASSUME IInv, IInv', NEW t \in Threads, PushTail(t)
  PROVE  [Queue!Next]_(Queue!vars)
<1>1. /\ kind = "version_2" /\ pc[t] = "tail" /\ pc'[t] = "notify"
      /\ \A u \in Threads \ {t} : pc'[u] = pc[u]
      /\ own[t] \in Nodes /\ own[t] \in 1 .. calls
      /\ UNCHANGED <<kind, head_, data_, own, calls, got>>
  BY PushTailEffect
<1>2. PICK x \in Nodes : x = own[t]
  BY <1>1
<1>3. PICK s \in Seq(Nodes) : Linked(tail_, next_, data_, s) /\ \E h \in DOMAIN s : Shape(s, h)
  BY <1>1 DEF IInv, ListInv
<1>4. PICK h \in DOMAIN s : Shape(s, h)
  BY <1>3
<1>5. PICK a \in Seq(Nodes) : a = Append(s, x)
  BY AppendProperties
<1>6. h \in DOMAIN a /\ Linked(tail_, next_, data_, a)' /\ Shape(a, h)'
  BY <1>2, <1>3, <1>4, <1>5, PushTailList
<1>7. s[h] = head_ /\ a[h] = head_'
  BY <1>4, <1>6 DEF Shape
<1>8. Contents = Rest(s, h) /\ Contents' = Rest(a, h)
  BY <1>1, <1>3, <1>6, <1>7, ContentsIs, ContentsNext DEF IInv
<1>9. Contents' = Append(Contents, x)
  BY <1>5, <1>8, RestAppend
<1>10. x \notin Pushed /\ Pushed' = Pushed \cup {x}
  <2>1. \A u \in Threads \ {t} : pc[u] \in PushPcs => own[u] # own[t]
    BY <1>1 DEF IInv, Pushing, PushPcs
  <2> QED
    BY <1>1, <1>2, <2>1 DEF Pushed, PushPcs
<1>11. Got' = Got
  <2>1. Got = [u \in Threads |-> IF pc[u] = "read" THEN Append(got[u], data_[own[u]]) ELSE got[u]]
    BY GotNow DEF IInv
  <2>2. Got' = [u \in Threads |->
                  IF pc'[u] = "read" THEN Append(got'[u], data_'[own'[u]]) ELSE got'[u]]
    BY GotNext DEF IInv
  <2> QED
    BY <1>1, <2>1, <2>2
<1>12. x \in 1 .. MaxItems
  BY <1>1, <1>2, QueueAssumption DEF IInv, TypeOK
<1> QED
  BY <1>9, <1>10, <1>11, <1>12, MappedStep

(* The move of head_ is Dequeue, though the item is read later               *)
(* (threadsafe_queue.cc:148-152, 178-179).                                   *)
LEMMA PopRefines ==
  ASSUME IInv, IInv', NEW t \in Threads, pop_head(t) \/ wait_pop_head(t)
  PROVE  [Queue!Next]_(Queue!vars)
<1>1. /\ kind = "version_2" /\ pc[t] = "pop"
      /\ \/ pc'[t] = "read" /\ own'[t] = head_
         \/ pc'[t] = "idle" /\ own'[t] = own[t]
      /\ \A u \in Threads \ {t} : pc'[u] = pc[u] /\ own'[u] = own[u]
      /\ UNCHANGED <<kind, tail_, data_, next_, calls>>
  BY PopEffect
<1>2. PICK s \in Seq(Nodes) : Linked(tail_, next_, data_, s) /\ \E h \in DOMAIN s : Shape(s, h)
  BY <1>1 DEF IInv, ListInv
<1>3. PICK h \in DOMAIN s : Shape(s, h)
  BY <1>2
<1>4. h < Len(s) /\ h + 1 \in DOMAIN s /\ data_[head_] = s[h + 1]
  BY <1>2, <1>3, PopList
<1>5. PICK k \in DOMAIN s : k = h + 1
  BY <1>4
<1>6. Linked(tail_, next_, data_, s)' /\ Shape(s, k)'
  BY <1>2, <1>3, <1>5, PopList
<1>7. s[h] = head_ /\ s[k] = head_'
  BY <1>3, <1>6 DEF Shape
<1>8. Contents = Rest(s, h) /\ Contents' = Rest(s, k)
  BY <1>1, <1>2, <1>6, <1>7, ContentsIs, ContentsNext DEF IInv
<1>9. /\ Contents # <<>> /\ Contents' = Tail(Contents)
      /\ Head(Contents) = data_[head_]
  BY <1>4, <1>5, <1>8, RestProperties
<1>10. Pushed' = Pushed
  BY <1>1 DEF Pushed, PushPcs
<1>11. Got' = [Got EXCEPT ![t] = Append(@, Head(Contents))]
  <2>1. Got = [u \in Threads |-> IF pc[u] = "read" THEN Append(got[u], data_[own[u]]) ELSE got[u]]
    BY GotNow DEF IInv
  <2>2. Got' = [u \in Threads |->
                  IF pc'[u] = "read" THEN Append(got'[u], data_'[own'[u]]) ELSE got'[u]]
    BY GotNext DEF IInv
  <2>3. Got'[t] = Append(Got[t], data_[head_])
    <3>1. CASE pop_head(t)
      BY <1>1, <2>1, <2>2, <3>1 DEF pop_head, Goto, IInv, TypeOK
    <3>2. CASE wait_pop_head(t)
      BY <1>1, <2>1, <2>2, <3>2 DEF wait_pop_head, Goto, IInv, TypeOK
    <3> QED
      BY <3>1, <3>2
  <2>4. \A u \in Threads \ {t} : got'[u] = got[u]
    BY DEF pop_head, wait_pop_head, IInv, TypeOK
  <2>5. \A u \in Threads \ {t} : Got'[u] = Got[u]
    BY <1>1, <2>1, <2>2, <2>4
  <2> QED
    BY <1>9, <2>1, <2>2, <2>3, <2>5
<1> QED
  BY <1>9, <1>10, <1>11, MappedStep

(* All three are first-in first-out queues, for any number of threads and    *)
(* items: every item comes out once, to one thread, in the order the items   *)
(* went in, each call taking effect in one step                              *)
(* (threadsafe_queue.cc:81-121, 143-234, BlockingQueue.cc:19-35).            *)
THEOREM Refinement == Spec => ImplementsFifo
<1>1. Init => Queue!Init
  <2> SUFFICES ASSUME Init PROVE Queue!Init
    OBVIOUS
  <2>1. IInv
    BY Initiation
  <2>2. Pushed = {}
    BY DEF Init, Pushed
  <2>3. Got = [t \in Threads |-> <<>>]
    <3>1. Got = [u \in Threads |-> IF pc[u] = "read" THEN Append(got[u], data_[own[u]]) ELSE got[u]]
      BY <2>1, GotNow DEF IInv
    <3> QED
      BY <3>1 DEF Init
  <2>4. Contents = <<>>
    <3>1. CASE kind = "version_2"
      <4> DEFINE s == <<Null>>
      <4>1. s \in Seq(Nodes) /\ s # <<>> /\ Len(s) = 1 /\ DOMAIN s = {1} /\ s[1] = Null
        BY QueueAssumption DEF Nodes, Null
      <4> HIDE DEF s
      <4>2. NodesOf(s) = {Null}
        BY <4>1 DEF NodesOf
      <4>3. Linked(tail_, next_, data_, s) /\ s[1] = head_
        BY <4>1, <4>2, QueueAssumption DEF Linked, Init, Null, Nodes
      <4> QED
        BY <2>1, <3>1, <4>1, <4>3, ContentsIs, RestProperties DEF IInv
    <3>2. CASE kind # "version_2"
      BY <3>2 DEF Contents, Init
    <3> QED
      BY <3>1, <3>2
  <2> HIDE DEF Contents
  <2> QED
    BY <2>2, <2>3, <2>4 DEF Queue!Init, Pushed, Got
<1>2. IInv /\ IInv' /\ [Next]_vars => [Queue!Next]_(Queue!vars)
  <2> SUFFICES ASSUME IInv, IInv', [Next]_vars PROVE [Queue!Next]_(Queue!vars)
    OBVIOUS
  <2>1. CASE UNCHANGED vars
    <3>1. UNCHANGED <<Contents, Pushed, Got>>
      BY <2>1, ChainIs DEF vars, list, Contents, Pushed, Got
    <3> QED
      BY <3>1, MappedStep
  <2>2. CASE Next
    <3>1. PICK t \in Threads :
            Call(t) \/ (pc[t] = "idle" /\ wait_and_pop(t)) \/ Continue(t) \/ SpuriousWakeup(t)
      BY <2>2 DEF Next
    <3>2. CASE kind # "version_2"
      <4>1. push(t) \/ put(t) \/ try_pop(t) \/ wait_and_pop(t) \/ Notify(t) \/ SpuriousWakeup(t)
        BY <3>1, <3>2 DEF Call, Continue, PushCall, PopCall, PushLock, PushData, PushNext, PushTail,
             LockHead, Test, Wait, pop_head, ReadData, wait_pop_head, IInv, OneMutexPcs
      <4> QED
        BY <3>2, <4>1, OneMutexRefines
    <3>3. CASE kind = "version_2"
      BY <3>1, <3>3, StuttersRefine, PushTailRefines, PopRefines, MappedStep
         DEF Call, Continue, push, put, try_pop, wait_and_pop
    <3> QED
      BY <3>2, <3>3
  <2> QED
    BY <2>1, <2>2
<1> QED
  BY <1>1, <1>2, Invariance, PTL DEF Spec, ImplementsFifo, Queue!Spec
=============================================================================
