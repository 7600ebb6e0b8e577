-------------------------- MODULE ThreadsafeQueue --------------------------
(***************************************************************************)
(* The queues of thread/ that threads share.  Two of them have one mutex   *)
(* for everything: threadsafer_queue (threadsafe_queue.cc), which notifies *)
(* while it holds it, and BlockingQueue, which notifies after.  The third, *)
(* threadsafe_queue_version_2 (its compiled copy is in                     *)
(* threadsafe_queue_test.cc), is a linked list with an empty last node and *)
(* a mutex for each end.  What a thread does under the one mutex is one    *)
(* step; under the two mutexes every access is a step.                     *)
(***************************************************************************)
EXTENDS Integers, Sequences, FiniteSets

CONSTANTS
  Threads,
  Kinds,      \* the queues to look at
  MaxItems    \* bound: how many items are pushed

Null == 0            \* also the first node: no node comes before it
Nodes == 0 .. MaxItems
Free == "free"

ASSUME QueueAssumption ==
  /\ Kinds \subseteq {"threadsafer_queue", "BlockingQueue", "version_2"}
  /\ MaxItems \in Nat
  /\ IsFiniteSet(Threads) /\ Free \notin Threads

VARIABLES
  kind,
  queue_,                     \* one mutex: the std::queue
  head_, tail_, data_, next_, \* version_2: the ends, and the fields of a node
  head_mutex_, tail_mutex_,   \* version_2: the thread that holds it, or Free
  pc, call,                   \* of each thread: where it is, in which call
  own,                        \* the item (and new node) it pushes, the old head it pops
  calls,                      \* how many calls of push there were
  got                         \* of each thread: the items its calls returned

list == <<head_, tail_, data_, next_>>
locks == <<head_mutex_, tail_mutex_>>
vars == <<kind, queue_, list, locks, pc, call, own, calls, got>>

Init ==
  /\ kind \in Kinds
  /\ queue_ = <<>>
  /\ head_ = 0 /\ tail_ = 0
  /\ data_ = [n \in Nodes |-> Null]
  /\ next_ = [n \in Nodes |-> Null]
  /\ head_mutex_ = Free /\ tail_mutex_ = Free
  /\ pc = [t \in Threads |-> "idle"]
  /\ call = [t \in Threads |-> "none"]
  /\ own = [t \in Threads |-> Null]
  /\ calls = 0
  /\ got = [t \in Threads |-> <<>>]

Goto(t, where) == pc' = [pc EXCEPT ![t] = where]

Waiting(p) == {t \in Threads : p[t] = "waiting"}

(* cond_.notify_one() by a thread that goes on at p: one waiting thread, if  *)
(* there is any, is no longer waiting.                                       *)
notify_one(p) ==
  IF Waiting(p) = {} THEN pc' = p
  ELSE \E w \in Waiting(p) : pc' = [p EXCEPT ![w] = "woken"]

(* Condition variables may also wake a thread that nobody notified.          *)
SpuriousWakeup(t) ==
  /\ pc[t] = "waiting"
  /\ Goto(t, "woken")
  /\ UNCHANGED <<kind, queue_, list, locks, call, own, calls, got>>

-----------------------------------------------------------------------------
(* One mutex.                                                                *)

(* Fault: only a push to an empty queue notifies.                            *)
push_NotifyWhenEmpty(t) ==
  /\ kind = "threadsafer_queue" /\ pc[t] = "idle" /\ calls < MaxItems
  /\ calls' = calls + 1
  /\ queue_' = Append(queue_, calls')
  /\ IF queue_ = <<>> THEN notify_one(pc) ELSE UNCHANGED pc
  /\ UNCHANGED <<kind, list, locks, call, own, got>>

(* threadsafer_queue::push                                                   *)
push(t) ==
  /\ kind = "threadsafer_queue" /\ pc[t] = "idle" /\ calls < MaxItems
  /\ calls' = calls + 1
  /\ queue_' = Append(queue_, calls')
  /\ notify_one(pc)
  /\ UNCHANGED <<kind, list, locks, call, own, got>>

(* BlockingQueue::put, up to notEmpty_.notify_one().                         *)
put(t) ==
  /\ kind = "BlockingQueue" /\ pc[t] = "idle" /\ calls < MaxItems
  /\ calls' = calls + 1
  /\ queue_' = Append(queue_, calls')
  /\ Goto(t, "notify")
  /\ UNCHANGED <<kind, list, locks, call, own, got>>

Take(t) ==
  /\ queue_' = Tail(queue_)
  /\ got' = [got EXCEPT ![t] = Append(@, Head(queue_))]
  /\ Goto(t, "idle")
  /\ UNCHANGED <<kind, list, locks, call, own, calls>>

(* threadsafer_queue::wait_and_pop and BlockingQueue::take, from the call or *)
(* from cond_.wait: the test and the wait are under the mutex.               *)
wait_and_pop(t) ==
  /\ kind # "version_2" /\ pc[t] \in {"idle", "woken"}
  /\ \/ queue_ # <<>> /\ Take(t)
     \/ /\ queue_ = <<>>
        /\ Goto(t, "waiting")
        /\ UNCHANGED <<kind, queue_, list, locks, call, own, calls, got>>

(* threadsafer_queue::try_pop; on an empty queue it changes nothing.         *)
try_pop(t) ==
  /\ kind = "threadsafer_queue" /\ pc[t] = "idle"
  /\ queue_ # <<>>
  /\ Take(t)

-----------------------------------------------------------------------------
(* threadsafe_queue_version_2: push.                                         *)

(* The item and the new last node are made before any mutex is locked.       *)
PushCall(t) ==
  /\ kind = "version_2" /\ pc[t] = "idle" /\ calls < MaxItems
  /\ calls' = calls + 1
  /\ own' = [own EXCEPT ![t] = calls']
  /\ Goto(t, "push")
  /\ UNCHANGED <<kind, queue_, list, locks, call, got>>

(* Fault: push does not lock tail_mutex_.                                    *)
PushLock_NoLock(t) ==
  /\ pc[t] = "push"
  /\ Goto(t, "data")
  /\ UNCHANGED <<kind, queue_, list, locks, call, own, calls, got>>

PushLock(t) ==
  /\ pc[t] = "push" /\ tail_mutex_ = Free
  /\ tail_mutex_' = t
  /\ Goto(t, "data")
  /\ UNCHANGED <<kind, queue_, list, head_mutex_, call, own, calls, got>>

PushData(t) ==
  /\ pc[t] = "data"
  /\ data_' = [data_ EXCEPT ![tail_] = own[t]]
  /\ Goto(t, "next")
  /\ UNCHANGED <<kind, queue_, head_, tail_, next_, locks, call, own, calls, got>>

PushNext(t) ==
  /\ pc[t] = "next"
  /\ next_' = [next_ EXCEPT ![tail_] = own[t]]
  /\ Goto(t, "tail")
  /\ UNCHANGED <<kind, queue_, head_, tail_, data_, locks, call, own, calls, got>>

PushTail(t) ==
  /\ pc[t] = "tail"
  /\ tail_' = own[t]
  /\ tail_mutex_' = Free
  /\ Goto(t, "notify")
  /\ UNCHANGED <<kind, queue_, head_, data_, next_, head_mutex_, call, own, calls, got>>

(* The notify_one() that ends push and BlockingQueue::put, with no mutex.    *)
Notify(t) ==
  /\ pc[t] = "notify"
  /\ notify_one([pc EXCEPT ![t] = "idle"])
  /\ UNCHANGED <<kind, queue_, list, locks, call, own, calls, got>>

-----------------------------------------------------------------------------
(* threadsafe_queue_version_2: wait_and_pop and try_pop.                     *)

PopCall(t) ==
  /\ kind = "version_2" /\ pc[t] = "idle"
  /\ \E c \in {"wait_and_pop", "try_pop"} : call' = [call EXCEPT ![t] = c]
  /\ Goto(t, "lock")
  /\ UNCHANGED <<kind, queue_, list, locks, own, calls, got>>

(* Fault: a thread that was woken does not test again.                       *)
LockHead_NoTest(t) ==
  /\ kind = "version_2" /\ pc[t] \in {"lock", "woken"} /\ head_mutex_ = Free
  /\ head_mutex_' = t
  /\ Goto(t, IF pc[t] = "woken" THEN "pop" ELSE "test")
  /\ UNCHANGED <<kind, queue_, list, tail_mutex_, call, own, calls, got>>

(* head_mutex_ at the start of the call, and again when cond_.wait returns.  *)
LockHead(t) ==
  /\ kind = "version_2" /\ pc[t] \in {"lock", "woken"} /\ head_mutex_ = Free
  /\ head_mutex_' = t
  /\ Goto(t, "test")
  /\ UNCHANGED <<kind, queue_, list, tail_mutex_, call, own, calls, got>>

(* head_.get() != get_tail(), get_tail() locking tail_mutex_ for the moment: *)
(* to pop, to give up (try_pop), or to wait.                                 *)
Test(t) ==
  /\ pc[t] = "test" /\ tail_mutex_ = Free
  /\ \/ head_ # tail_ /\ Goto(t, "pop") /\ UNCHANGED locks
     \/ /\ head_ = tail_ /\ call[t] = "try_pop"
        /\ head_mutex_' = Free
        /\ Goto(t, "idle")
        /\ UNCHANGED tail_mutex_
     \/ head_ = tail_ /\ call[t] = "wait_and_pop" /\ Goto(t, "block") /\ UNCHANGED locks
  /\ UNCHANGED <<kind, queue_, list, call, own, calls, got>>

(* cond_.wait: head_mutex_ unlocked and waiting, in one step.                *)
Wait(t) ==
  /\ pc[t] = "block"
  /\ head_mutex_' = Free
  /\ Goto(t, "waiting")
  /\ UNCHANGED <<kind, queue_, list, tail_mutex_, call, own, calls, got>>

(* The old head goes to the caller, who looks at its data later.             *)
pop_head(t) ==
  /\ pc[t] = "pop"
  /\ own' = [own EXCEPT ![t] = head_]
  /\ head_' = next_[head_]
  /\ head_mutex_' = Free
  /\ Goto(t, "read")
  /\ UNCHANGED <<kind, queue_, tail_, data_, next_, tail_mutex_, call, calls, got>>

ReadData(t) ==
  /\ pc[t] = "read"
  /\ got' = [got EXCEPT ![t] = Append(@, data_[own[t]])]
  /\ Goto(t, "idle")
  /\ UNCHANGED <<kind, queue_, list, locks, call, own, calls>>

(* wait_and_pop(T&) copies the data before it moves the head.                *)
wait_pop_head(t) ==
  /\ pc[t] = "pop" /\ call[t] = "wait_and_pop"
  /\ got' = [got EXCEPT ![t] = Append(@, data_[head_])]
  /\ head_' = next_[head_]
  /\ head_mutex_' = Free
  /\ Goto(t, "idle")
  /\ UNCHANGED <<kind, queue_, tail_, data_, next_, tail_mutex_, call, own, calls>>

-----------------------------------------------------------------------------
Call(t) == push(t) \/ put(t) \/ try_pop(t) \/ PushCall(t) \/ PopCall(t)

(* What a thread that is in a call goes on with.                             *)
Continue(t) ==
  \/ pc[t] = "woken" /\ wait_and_pop(t)
  \/ PushLock(t) \/ PushData(t) \/ PushNext(t) \/ PushTail(t) \/ Notify(t)
  \/ LockHead(t) \/ Test(t) \/ Wait(t)
  \/ pop_head(t) \/ ReadData(t) \/ wait_pop_head(t)

Next ==
  \E t \in Threads :
    \/ Call(t)
    \/ pc[t] = "idle" /\ wait_and_pop(t)
    \/ Continue(t)
    \/ SpuriousWakeup(t)

(* A thread in a call is scheduled; nobody has to call, or wake up           *)
(* spuriously.                                                               *)
Fairness == \A t \in Threads : WF_vars(Continue(t))

Spec == Init /\ [][Next]_vars /\ Fairness

-----------------------------------------------------------------------------
(* Properties.                                                               *)

PushPcs == {"push", "data", "next", "tail"}

(* The data from node n up to the empty last node.                           *)
Chain[n \in Nodes] ==
  IF n = tail_ \/ next_[n] = Null THEN <<>> ELSE <<data_[n]>> \o Chain[next_[n]]

Contents == IF kind = "version_2" THEN Chain[head_] ELSE queue_

Queue == INSTANCE Fifo WITH
  Items <- 1 .. MaxItems,
  q <- Contents,
  pushed <- (1 .. calls) \ {own[t] : t \in {u \in Threads : pc[u] \in PushPcs}},
  got <- [t \in Threads |-> got[t] \o IF pc[t] = "read" THEN <<data_[own[t]]>> ELSE <<>>]

(* All three are first-in first-out queues.  For version_2 the item is in    *)
(* when tail_ moves and out when head_ does, though the one who takes it     *)
(* reads it after unlocking, and the two ends are locked separately          *)
(* (threadsafe_queue.cc:81-121, 143-234, BlockingQueue.cc:19-35).            *)
ImplementsFifo == Queue!Spec

(* The two ends of version_2 never meet in a node: a thread that is about to *)
(* take the head has a complete node before it, which no push writes, and    *)
(* old heads are nobody else's (threadsafe_queue.cc:148-152, 219-224).       *)
EndsApart ==
  \A t \in Threads :
    /\ pc[t] = "pop" => /\ head_ # tail_
                        /\ Null \notin {data_[head_], next_[head_]}
                        /\ \A u \in Threads \ {t} : pc[u] # "pop"
    /\ pc[t] = "read" => /\ own[t] # tail_
                         /\ \A u \in Threads \ {t} : pc[u] = "read" => own[u] # own[t]

(* With one mutex, while a thread waits, every item in the queue has a       *)
(* thread that was woken, or will be notified, for it: no push is forgotten, *)
(* whoever takes items in between                                            *)
(* (threadsafe_queue.cc:85, 90, BlockingQueue.cc:25, 30).                    *)
EveryItemAnnounced ==
  kind # "version_2" /\ Waiting(pc) # {} =>
    Len(queue_) <= Cardinality({t \in Threads : pc[t] \in {"woken", "notify"}})

(* A thread that waits while there is an item stops waiting, or the item is  *)
(* taken by another one.                                                     *)
WaiterServed ==
  \A t \in Threads : (pc[t] = "waiting" /\ Contents # <<>>)
                       ~> (pc[t] # "waiting" \/ Contents = <<>>)

(* With one mutex it is so, without any help of spurious wakeups             *)
(* (threadsafe_queue.cc:81-101, BlockingQueue.cc:19-35).                     *)
WaiterServedOneMutex == kind # "version_2" => WaiterServed
=============================================================================
