-------------------------- MODULE EventLoopProofs --------------------------
(***************************************************************************)
(* Proofs, for any set of threads and functors and any bounds, of the        *)
(* safety properties of EventLoop, and of EventLoopThread around it, and     *)
(* that the functors of both are a queue as in Fifo.                         *)
(***************************************************************************)
EXTENDS EventLoopThread, SequenceTheorems, TLAPS

(* A functor that the loop thread itself queued is waiting.                  *)
OwnPending == \E i \in DOMAIN pendingFunctors_ : pendingFunctors_[i].by = LoopThread

(* Everywhere but between the drain of the eventfd and the swap, a waiting   *)
(* functor of the loop thread keeps the eventfd readable.                    *)
OwnPendingWakes ==
  pc \in {"out", "check", "polling", "functors", "fncb"} /\ OwnPending => wakeupfd_ > 0

(* The inductive invariant.                                                  *)
IInv ==
  /\ TypeOK
  /\ FunctorsInOrder
  /\ OwnPendingWakes
  /\ QuitNeverWaits

-----------------------------------------------------------------------------
(* Moving the head of the batch to the end of what ran changes nothing of    *)
(* their concatenation (the step of the for loop, EventLoop.cc:186-188).     *)
LEMMA MoveHead ==
  ASSUME NEW S, NEW r \in Seq(S), NEW f \in Seq(S), f # <<>>
  PROVE  Append(r, Head(f)) \o Tail(f) = r \o f
<1>1. Head(f) \in S /\ Tail(f) \in Seq(S) /\ Len(Tail(f)) = Len(f) - 1
  BY HeadTailProperties
<1>2. Head(f) = f[1] /\ \A i \in 1 .. Len(Tail(f)) : Tail(f)[i] = f[i + 1]
  BY HeadTailProperties
<1> DEFINE a == Append(r, Head(f))
           L == a \o Tail(f)
           R == r \o f
<1>3. /\ a \in Seq(S) /\ Len(a) = Len(r) + 1
      /\ \A i \in 1 .. Len(r) : a[i] = r[i]
      /\ a[Len(r) + 1] = Head(f)
  BY <1>1, AppendProperties
<1>4. Len(r) \in Nat /\ Len(f) \in Nat \ {0}
  BY LenProperties, EmptySeq
<1> HIDE DEF a
<1>5. /\ L \in Seq(S) /\ Len(L) = Len(r) + Len(f)
      /\ \A i \in 1 .. Len(r) + Len(f) :
           L[i] = IF i <= Len(r) + 1 THEN a[i] ELSE Tail(f)[i - (Len(r) + 1)]
  <2>1. /\ L \in Seq(S) /\ Len(L) = Len(a) + Len(Tail(f))
        /\ \A i \in 1 .. Len(a) + Len(Tail(f)) :
             L[i] = IF i <= Len(a) THEN a[i] ELSE Tail(f)[i - Len(a)]
    BY <1>1, <1>3, ConcatProperties
  <2>2. Len(a) + Len(Tail(f)) = Len(r) + Len(f)
    BY <1>1, <1>3, <1>4
  <2> QED
    BY <2>1, <2>2, <1>3
<1>6. /\ R \in Seq(S) /\ Len(R) = Len(r) + Len(f)
      /\ \A i \in 1 .. Len(r) + Len(f) :
           R[i] = IF i <= Len(r) THEN r[i] ELSE f[i - Len(r)]
  BY ConcatProperties
<1> HIDE DEF L, R
<1>7. ASSUME NEW i \in 1 .. Len(L)
      PROVE  L[i] = R[i]
  <2>0. i \in 1 .. Len(r) + Len(f)
    BY <1>5
  <2>1. CASE i <= Len(r)
    BY <2>0, <2>1, <1>3, <1>4, <1>5, <1>6
  <2>2. CASE i = Len(r) + 1
    BY <2>0, <2>2, <1>2, <1>3, <1>4, <1>5, <1>6
  <2>3. CASE i > Len(r) + 1
    <3>1. /\ i - (Len(r) + 1) \in 1 .. Len(Tail(f))
          /\ (i - (Len(r) + 1)) + 1 = i - Len(r)
      BY <2>0, <2>3, <1>1, <1>4
    <3>2. Tail(f)[i - (Len(r) + 1)] = f[i - Len(r)]
      BY <3>1, <1>2
    <3> QED
      BY <2>0, <2>3, <3>2, <1>4, <1>5, <1>6
  <2> QED
    BY <2>0, <2>1, <2>2, <2>3, <1>4
<1>8. L = R
  BY <1>5, <1>6, <1>7, SeqEqual
<1> QED
  BY <1>8 DEF L, R, a

(* Appending to the queue appends to the concatenation (EventLoop.cc:98).    *)
LEMMA ConcatAppend ==
  ASSUME NEW S, NEW r \in Seq(S), NEW p \in Seq(S), NEW e \in S
  PROVE  r \o Append(p, e) = Append(r \o p, e)
<1>1. Append(p, e) = p \o <<e>> /\ <<e>> \in Seq(S) /\ r \o p \in Seq(S)
  BY AppendIsConcat, ConcatProperties
<1>2. Append(r \o p, e) = (r \o p) \o <<e>>
  BY <1>1, AppendIsConcat
<1> QED
  BY <1>1, <1>2, ConcatAssociative

-----------------------------------------------------------------------------
(* Types and the flag of doPendingFunctions (EventLoop.cc:178-190) hold in   *)
(* every reachable state.                                                    *)
LEMMA TypeStep == TypeOK /\ [Next]_vars => TypeOK'
<1> SUFFICES ASSUME TypeOK, [Next]_vars
             PROVE  TypeOK'
  OBVIOUS
<1> USE DEF TypeOK, LoopPcs, Entry, Threads
<1>1. CASE loop
  <2>1. quit_' \in BOOLEAN
    BY <1>1, Zenon DEF loop
  <2> QED
    BY <1>1, <2>1 DEF loop
<1>2. CASE LoopStep
  <2>1. CASE TestQuit
    BY <2>1 DEF TestQuit
  <2>2. CASE EpollEvents
    BY <2>2 DEF EpollEvents
  <2>3. CASE EpollTimeout
    BY <2>3 DEF EpollTimeout
  <2>4. CASE handleRead
    BY <2>4 DEF handleRead
  <2>5. CASE HandleChannel
    BY <2>5 DEF HandleChannel
  <2>6. CASE ChannelReturn
    BY <2>6 DEF ChannelReturn
  <2>7. CASE doPendingFunctions
    BY <2>7 DEF doPendingFunctions
  <2>8. CASE Swap
    BY <2>8 DEF Swap
  <2>9. CASE CallFunctor
    <3>1. Head(functions) \in Entry /\ Tail(functions) \in Seq(Entry)
      BY <2>9, HeadTailProperties DEF CallFunctor
    <3> QED
      BY <2>9, <3>1, AppendProperties DEF CallFunctor
  <2>10. CASE FunctorReturn
    BY <2>10 DEF FunctorReturn
  <2>11. CASE EndFunctors
    BY <2>11 DEF EndFunctors
  <2> QED
    BY <1>2, <2>1, <2>2, <2>3, <2>4, <2>5, <2>6, <2>7, <2>8, <2>9, <2>10, <2>11
       DEF LoopStep
<1>3. CASE OwnCall
  <2>1. CASE \E f \in Functors : queueInLoopOwn(f)
    BY <2>1 DEF queueInLoopOwn, Push, wakeup, InClientCode
  <2>2. CASE \E f \in Functors : runInLoop(LoopThread, f)
    BY <2>2 DEF runInLoop, runInLoopOwn, isInLoopThread, loopVars
  <2>3. CASE quitOwn
    BY <2>3 DEF quitOwn
  <2> QED
    BY <1>3, <2>1, <2>2, <2>3 DEF OwnCall
<1>4. ASSUME NEW t \in Users, UserStep(t)
      PROVE  TypeOK'
  <2>1. CASE \E f \in Functors : runInLoop(t, f)
    <3>1. PICK f \in Functors : queueInLoop(t, f)
      BY <2>1, ThreadsAssumption DEF runInLoop, isInLoopThread
    <3>2. [fn |-> f, by |-> t] \in Entry
      OBVIOUS
    <3> QED
      BY <3>1, <3>2, AppendProperties DEF queueInLoop, Push
  <2>2. CASE queueInLoopWakeup(t)
    BY <2>2 DEF queueInLoopWakeup, wakeup
  <2>3. CASE quitUser(t)
    BY <2>3 DEF quitUser
  <2>4. CASE quitWakeup(t)
    BY <2>4 DEF quitWakeup, wakeup
  <2> QED
    BY <1>4, <2>1, <2>2, <2>3, <2>4 DEF UserStep
<1>5. CASE UNCHANGED vars
  BY <1>5 DEF vars, loopVars
<1> QED
  BY <1>1, <1>2, <1>3, <1>4, <1>5 DEF Next

(* In every reachable state the variables have their types, the flag says    *)
(* whether the loop thread is in doPendingFunctions, and there is a batch    *)
(* only there (EventLoop.cc:178-190).                                        *)
THEOREM TypeCorrect == Spec => []TypeOK
<1>1. Init => TypeOK
  <2> SUFFICES ASSUME Init
               PROVE  TypeOK
    OBVIOUS
  <2>1. quit_ \in BOOLEAN /\ callingdoPendingFunctions_ \in BOOLEAN
    BY Zenon DEF Init
  <2> QED
    BY <2>1 DEF Init, TypeOK, LoopPcs
<1> QED
  BY <1>1, TypeStep, PTL DEF Spec

-----------------------------------------------------------------------------
(* The queue keeps its order: one step per kind of change to the three       *)
(* sequences (EventLoop.cc:94-103, 178-190).                                 *)
LEMMA PushKeepsOrder ==
  ASSUME TypeOK, FunctorsInOrder, NEW t \in Threads, NEW f \in Functors,
         Push(t, f), UNCHANGED <<functions, ran>>
  PROVE  FunctorsInOrder'
<1> DEFINE e == [fn |-> f, by |-> t]
<1>1. /\ e \in Entry /\ pendingFunctors_ \in Seq(Entry)
      /\ functions \in Seq(Entry) /\ ran \in Seq(Entry)
  BY DEF TypeOK, Entry
<1>2. pendingFunctors_' = Append(pendingFunctors_, e) /\ queued' = Append(queued, e)
  BY DEF Push
<1> HIDE DEF e
<1>3. ran \o functions \in Seq(Entry)
  BY <1>1, ConcatProperties
<1>4. (ran \o functions) \o Append(pendingFunctors_, e)
        = Append((ran \o functions) \o pendingFunctors_, e)
  BY <1>1, <1>3, ConcatAppend
<1> QED
  BY <1>2, <1>4 DEF FunctorsInOrder

(* Every step keeps the functors in order (EventLoop.cc:94-103, 178-190).    *)
LEMMA OrderStep == TypeOK /\ FunctorsInOrder /\ [Next]_vars => FunctorsInOrder'
<1> SUFFICES ASSUME TypeOK, FunctorsInOrder, [Next]_vars
             PROVE  FunctorsInOrder'
  OBVIOUS
<1>1. CASE Swap
  <2>1. functions = <<>> /\ functions' = pendingFunctors_ /\ pendingFunctors_' = <<>>
    BY <1>1 DEF Swap, TypeOK
  <2>2. /\ ran \o <<>> = ran
        /\ ran \o pendingFunctors_ \in Seq(Entry)
        /\ (ran \o pendingFunctors_) \o <<>> = ran \o pendingFunctors_
    BY ConcatEmptySeq, ConcatProperties DEF TypeOK
  <2>3. ran' = ran /\ queued' = queued
    BY <1>1 DEF Swap
  <2> QED
    BY <2>1, <2>2, <2>3 DEF FunctorsInOrder
<1>2. CASE CallFunctor
  <2>1. Append(ran, Head(functions)) \o Tail(functions) = ran \o functions
    BY <1>2, MoveHead DEF CallFunctor, TypeOK
  <2> QED
    BY <1>2, <2>1 DEF CallFunctor, FunctorsInOrder
<1>3. CASE \E t \in Threads, f \in Functors :
             Push(t, f) /\ UNCHANGED <<functions, ran>>
  BY <1>3, PushKeepsOrder
<1>4. CASE UNCHANGED <<ran, functions, pendingFunctors_, queued>>
  BY <1>4 DEF FunctorsInOrder
<1>5. CASE LoopStep
  BY <1>1, <1>2, <1>4, <1>5
     DEF LoopStep, TestQuit, EpollEvents, EpollTimeout, handleRead, HandleChannel,
         ChannelReturn, doPendingFunctions, FunctorReturn, EndFunctors
<1>6. CASE loop \/ UNCHANGED vars
  BY <1>4, <1>6 DEF loop, vars, loopVars
<1>7. CASE OwnCall
  <2>1. LoopThread \in Threads
    BY DEF Threads
  <2> QED
    BY <1>3, <1>4, <1>7, <2>1
       DEF OwnCall, queueInLoopOwn, runInLoop, runInLoopOwn, isInLoopThread, loopVars, quitOwn
<1>8. ASSUME NEW t \in Users, UserStep(t)
      PROVE  FunctorsInOrder'
  <2>1. t \in Threads /\ ~isInLoopThread(t)
    BY ThreadsAssumption DEF Threads, isInLoopThread
  <2> QED
    BY <1>3, <1>4, <1>8, <2>1
       DEF UserStep, runInLoop, queueInLoop, queueInLoopWakeup, quitUser, quitWakeup
<1> QED
  BY <1>5, <1>6, <1>7, <1>8 DEF Next

-----------------------------------------------------------------------------
(* The loop thread's own functors keep the eventfd readable.                 *)
LEMMA OwnStep == TypeOK /\ OwnPendingWakes /\ [Next]_vars => OwnPendingWakes'
<1> SUFFICES ASSUME TypeOK, OwnPendingWakes, [Next]_vars
             PROVE  OwnPendingWakes'
  OBVIOUS
<1> USE DEF OwnPendingWakes, OwnPending
<1>t. /\ wakeupfd_ \in Nat
      /\ pc \in LoopPcs
      /\ pendingFunctors_ \in Seq(Entry)
  BY DEF TypeOK
<1>1. CASE loop
  BY <1>1 DEF loop
<1>2. CASE LoopStep
  <2>1. CASE TestQuit
    BY <2>1 DEF TestQuit
  <2>2. CASE EpollEvents \/ EpollTimeout \/ doPendingFunctions \/ HandleChannel
               \/ handleRead \/ ChannelReturn
    BY <2>2 DEF EpollEvents, EpollTimeout, doPendingFunctions, HandleChannel,
                handleRead, ChannelReturn
  <2>3. CASE Swap
    <3>1. pendingFunctors_' = <<>>
      BY <2>3 DEF Swap, TypeOK
    <3> QED
      BY <3>1
  <2>4. CASE CallFunctor \/ FunctorReturn \/ EndFunctors
    BY <2>4 DEF CallFunctor, FunctorReturn, EndFunctors
  <2> QED
    BY <1>2, <2>1, <2>2, <2>3, <2>4 DEF LoopStep
<1>3. CASE OwnCall
  <2>1. CASE \E f \in Functors : queueInLoopOwn(f)
    BY <1>t, <2>1 DEF queueInLoopOwn, NeedsWakeup, isInLoopThread, wakeup
  <2>2. CASE \E f \in Functors : runInLoop(LoopThread, f)
    BY <2>2 DEF runInLoop, runInLoopOwn, isInLoopThread, loopVars
  <2>3. CASE quitOwn
    BY <2>3 DEF quitOwn
  <2> QED
    BY <1>3, <2>1, <2>2, <2>3 DEF OwnCall
<1>4. ASSUME NEW t \in Users, UserStep(t)
      PROVE  OwnPendingWakes'
  <2>1. CASE \E f \in Functors : runInLoop(t, f)
    <3>1. PICK f \in Functors : queueInLoop(t, f)
      BY <2>1, ThreadsAssumption DEF runInLoop, isInLoopThread
    <3> DEFINE e == [fn |-> f, by |-> t]
    <3>2. /\ e \in Entry /\ e.by # LoopThread
          /\ pendingFunctors_' = Append(pendingFunctors_, e)
      BY <3>1, ThreadsAssumption DEF queueInLoop, Push, Entry, Threads
    <3> HIDE DEF e
    <3>3. OwnPending' => OwnPending
      BY <1>t, <3>2, AppendProperties, LenProperties
    <3> QED
      BY <3>1, <3>3 DEF queueInLoop
  <2>2. CASE queueInLoopWakeup(t)
    BY <1>t, <2>2 DEF queueInLoopWakeup, wakeup
  <2>3. CASE quitUser(t)
    BY <2>3 DEF quitUser
  <2>4. CASE quitWakeup(t)
    BY <1>t, <2>4 DEF quitWakeup, wakeup
  <2> QED
    BY <1>4, <2>1, <2>2, <2>3, <2>4 DEF UserStep
<1>5. CASE UNCHANGED vars
  BY <1>5 DEF vars, loopVars
<1> QED
  BY <1>1, <1>2, <1>3, <1>4, <1>5 DEF Next

(* A quit is never slept over: the poll is entered only after quit_ was read *)
(* FALSE, and the write to the eventfd follows the flag (EventLoop.cc:71,    *)
(* 132-138).                                                                 *)
LEMMA QuitStep == TypeOK /\ QuitNeverWaits /\ [Next]_vars => QuitNeverWaits'
<1> SUFFICES ASSUME TypeOK, QuitNeverWaits, [Next]_vars
             PROVE  QuitNeverWaits'
  OBVIOUS
<1> USE DEF QuitNeverWaits
<1>t. wakeupfd_ \in Nat /\ upc \in [Users -> {"ready", "pushed", "quitting"}]
  BY DEF TypeOK
<1>1. CASE loop
  BY <1>1 DEF loop
<1>2. CASE LoopStep
  BY <1>2 DEF LoopStep, TestQuit, EpollEvents, EpollTimeout, handleRead, HandleChannel,
              ChannelReturn, doPendingFunctions, Swap, CallFunctor, FunctorReturn,
              EndFunctors
<1>3. CASE OwnCall
  BY <1>3 DEF OwnCall, queueInLoopOwn, InClientCode, runInLoop, runInLoopOwn,
              isInLoopThread, loopVars, quitOwn
<1>4. ASSUME NEW t \in Users, UserStep(t)
      PROVE  QuitNeverWaits'
  <2>1. CASE \E f \in Functors : runInLoop(t, f)
    BY <1>t, <2>1, ThreadsAssumption DEF runInLoop, isInLoopThread, queueInLoop
  <2>2. CASE queueInLoopWakeup(t)
    BY <1>t, <2>2 DEF queueInLoopWakeup, wakeup
  <2>3. CASE quitUser(t)
    BY <1>t, <2>3 DEF quitUser
  <2>4. CASE quitWakeup(t)
    BY <1>t, <2>4 DEF quitWakeup, wakeup
  <2> QED
    BY <1>4, <2>1, <2>2, <2>3, <2>4 DEF UserStep
<1>5. CASE UNCHANGED vars
  BY <1>5 DEF vars, loopVars
<1> QED
  BY <1>1, <1>2, <1>3, <1>4, <1>5 DEF Next

-----------------------------------------------------------------------------
(* A new loop has no functors and has not been asked to quit.                *)
LEMMA InitKeeps == Init => IInv
<1> SUFFICES ASSUME Init
             PROVE  IInv
  OBVIOUS
<1>1. quit_ \in BOOLEAN /\ callingdoPendingFunctions_ \in BOOLEAN
  BY Zenon DEF Init
<1>2. TypeOK
  BY <1>1 DEF Init, TypeOK, LoopPcs
<1>3. FunctorsInOrder
  BY ConcatEmptySeq, EmptySeq DEF Init, FunctorsInOrder
<1>4. OwnPendingWakes /\ QuitNeverWaits
  BY DEF Init, OwnPendingWakes, OwnPending, QuitNeverWaits
<1> QED
  BY <1>2, <1>3, <1>4 DEF IInv

(* The inductive invariant holds in every reachable state.                   *)
THEOREM Invariance == Spec => []IInv
<1>1. IInv /\ [Next]_vars => IInv'
  BY TypeStep, OrderStep, OwnStep, QuitStep DEF IInv
<1> QED
  BY InitKeeps, <1>1, PTL DEF Spec

(* No functor handed to the loop is lost, called twice or overtaken, however *)
(* many threads queue functors while the loop swaps and runs its batches     *)
(* (EventLoop.cc:94-103 against 178-190).                                    *)
THEOREM OrderCorrect == Spec => []FunctorsInOrder
BY Invariance, PTL DEF IInv

(* The loop never sleeps on a functor its own thread queued (EventLoop.cc:   *)
(* 94-103, 169-190).                                                         *)
THEOREM OwnFunctorsCorrect == Spec => []OwnFunctorsNeverWait
<1>1. IInv => OwnFunctorsNeverWait
  BY DEF IInv, OwnPendingWakes, OwnPending, OwnFunctorsNeverWait
<1> QED
  BY <1>1, Invariance, PTL

(* The loop never sleeps over a quit (EventLoop.cc:71, 132-138).             *)
THEOREM QuitCorrect == Spec => []QuitNeverWaits
BY Invariance, PTL DEF IInv

-----------------------------------------------------------------------------
(* The loop's functors are a first-in first-out queue: the batch that is     *)
(* left and then what is pending, pushed to by any thread and taken from by  *)
(* the loop thread alone.                                                    *)

QueuedSet == {queued[i] : i \in DOMAIN queued}

FunctorQueue == INSTANCE Fifo WITH
  Threads <- {LoopThread},
  Items <- Entry,
  q <- functions \o pendingFunctors_,
  pushed <- QueuedSet,
  got <- [t \in {LoopThread} |-> ran]

(* The loop does what Fifo allows, and nothing else (EventLoop.cc:94-103,    *)
(* 178-190).                                                                 *)
ImplementsFifo == FunctorQueue!Spec

(* No functor that is handed to the loop has been pushed before.             *)
PushedOnce == \A i \in DOMAIN queued : queued[i].fn \notin fresh

(* Taking the head of the batch takes the head of the whole queue.           *)
LEMMA ConcatHead ==
  ASSUME NEW S, NEW f \in Seq(S), NEW p \in Seq(S), f # <<>>
  PROVE  f \o p # <<>> /\ Head(f \o p) = Head(f) /\ Tail(f \o p) = Tail(f) \o p
<1> DEFINE h == <<Head(f)>>
           r == Tail(f) \o p
<1>1. Head(f) \in S /\ Tail(f) \in Seq(S) /\ h \in Seq(S) /\ r \in Seq(S)
  <2>1. Head(f) \in S /\ Tail(f) \in Seq(S)
    BY HeadTailProperties
  <2> QED
    BY <2>1, ConcatProperties
<1>2. f = h \o Tail(f)
  <2>1. <<>> \in Seq(S) /\ Append(<<>>, Head(f)) = h
    OBVIOUS
  <2>2. Append(<<>>, Head(f)) \o Tail(f) = <<>> \o f
    BY <2>1, MoveHead
  <2> QED
    BY <2>1, <2>2, ConcatEmptySeq
<1>3. f \o p = h \o r
  BY <1>1, <1>2, ConcatAssociative
<1> HIDE DEF r
<1>4. PICK w \in Seq(S) :
        /\ w = h \o r /\ Len(w) = Len(r) + 1 /\ w[1] = Head(f)
        /\ \A i \in 1 .. Len(r) : w[i + 1] = r[i]
  <2>1. h \o r \in Seq(S) /\ Len(h \o r) = Len(r) + 1 /\ (h \o r)[1] = Head(f)
    BY <1>1
  <2>2. \A i \in 1 .. Len(r) : (h \o r)[i + 1] = r[i]
    BY <1>1
  <2> QED
    BY <2>1, <2>2
<1> HIDE DEF h
<1>5. w # <<>>
  BY <1>1, <1>4
<1>6. Head(w) = w[1] /\ Tail(w) \in Seq(S) /\ Len(Tail(w)) = Len(w) - 1
      /\ \A i \in 1 .. Len(Tail(w)) : Tail(w)[i] = w[i + 1]
  BY <1>5, HeadTailProperties
<1>7. Tail(w) = r
  <2>1. Len(Tail(w)) = Len(r) /\ Len(r) \in Nat
    BY <1>1, <1>4, <1>6
  <2>2. \A i \in 1 .. Len(Tail(w)) : Tail(w)[i] = r[i]
    BY <1>4, <1>6, <2>1
  <2> QED
    BY <1>1, <1>6, <2>1, <2>2, SeqEqual
<1> QED
  BY <1>3, <1>4, <1>5, <1>6, <1>7 DEF r

(* The state of Fifo, in the terms of the loop.                              *)
LEMMA SameFunctors ==
  ASSUME (functions \o pendingFunctors_)' = functions \o pendingFunctors_,
         UNCHANGED <<queued, ran>>
  PROVE  UNCHANGED FunctorQueue!vars
<1>1. QueuedSet' = QueuedSet /\ [t \in {LoopThread} |-> ran]' = [t \in {LoopThread} |-> ran]
  BY DEF QueuedSet
<1> QED
  BY <1>1 DEF FunctorQueue!vars

(* A push_back is Fifo's Enqueue (EventLoop.cc:94-103).                      *)
LEMMA PushEnqueues ==
  ASSUME TypeOK, PushedOnce, NEW t \in Threads, NEW f \in Functors,
         Push(t, f), UNCHANGED <<functions, ran>>
  PROVE  PushedOnce' /\ FunctorQueue!Next
<1>1. PICK e \in Entry : e = [fn |-> f, by |-> t] /\ e.fn = f
  <2>1. [fn |-> f, by |-> t] \in Entry /\ [fn |-> f, by |-> t].fn = f
    BY DEF Entry
  <2> QED BY <2>1
<1>2. /\ pendingFunctors_' = Append(pendingFunctors_, e) /\ queued' = Append(queued, e)
      /\ f \in fresh /\ fresh' = fresh \ {f}
  BY <1>1 DEF Push
<1>3. PICK n \in Nat : n = Len(queued) /\ DOMAIN queued = 1 .. n
  BY DEF TypeOK
<1>4. /\ DOMAIN queued' = 1 .. n + 1 /\ queued'[n + 1] = e
      /\ \A i \in 1 .. n : queued'[i] = queued[i]
  BY <1>2, <1>3, AppendProperties DEF TypeOK
<1>5. 1 .. n + 1 = (1 .. n) \cup {n + 1}
  OBVIOUS
<1>6. PushedOnce'
  BY <1>1, <1>2, <1>3, <1>4, <1>5 DEF PushedOnce
<1>7. e \notin QueuedSet
  BY <1>1, <1>2 DEF QueuedSet, PushedOnce
<1>8. QueuedSet' = QueuedSet \cup {e}
  BY <1>3, <1>4, <1>5 DEF QueuedSet
<1>9. (functions \o pendingFunctors_)' = Append(functions \o pendingFunctors_, e)
  BY <1>2, ConcatAppend DEF TypeOK
<1>10. FunctorQueue!Enqueue(e)
  BY <1>7, <1>8, <1>9 DEF FunctorQueue!Enqueue
<1> QED BY <1>6, <1>10 DEF FunctorQueue!Next

(* A new loop is an empty queue.                                             *)
LEMMA FifoInit == Init => PushedOnce /\ FunctorQueue!Init
<1> SUFFICES ASSUME Init PROVE PushedOnce /\ FunctorQueue!Init
  OBVIOUS
<1>1. queued = <<>> /\ ran = <<>> /\ functions = <<>> /\ pendingFunctors_ = <<>>
  BY DEF Init
<1>2. functions \o pendingFunctors_ = <<>>
  BY <1>1, ConcatEmptySeq, EmptySeq
<1>3. QueuedSet = {} /\ PushedOnce
  BY <1>1 DEF QueuedSet, PushedOnce
<1> QED
  BY <1>1, <1>2, <1>3 DEF FunctorQueue!Init

(* Every step is a step of Fifo: the call of a functor takes it from the     *)
(* head of the queue, whoever pushes meanwhile, and the swap changes nothing *)
(* of it (EventLoop.cc:94-103, 178-190).                                     *)
LEMMA FifoStep ==
  TypeOK /\ PushedOnce /\ [Next]_vars => PushedOnce' /\ [FunctorQueue!Next]_(FunctorQueue!vars)
<1> SUFFICES ASSUME TypeOK, PushedOnce, [Next]_vars
             PROVE  PushedOnce' /\ [FunctorQueue!Next]_(FunctorQueue!vars)
  OBVIOUS
<1>1. CASE Swap
  <2>1. functions = <<>> /\ functions' = pendingFunctors_ /\ pendingFunctors_' = <<>>
    BY <1>1 DEF Swap, TypeOK
  <2>2. <<>> \o pendingFunctors_ = pendingFunctors_ \o <<>>
    BY ConcatEmptySeq DEF TypeOK
  <2>3. ran' = ran /\ queued' = queued /\ fresh' = fresh
    BY <1>1 DEF Swap
  <2>4. (functions \o pendingFunctors_)' = functions \o pendingFunctors_
    BY <2>1, <2>2
  <2> QED
    BY <2>3, <2>4, SameFunctors DEF PushedOnce
<1>2. CASE CallFunctor
  <2>1. /\ functions # <<>> /\ functions' = Tail(functions) /\ ran' = Append(ran, Head(functions))
        /\ UNCHANGED <<pendingFunctors_, fresh, queued>>
    BY <1>2 DEF CallFunctor
  <2>2. /\ functions \o pendingFunctors_ # <<>>
        /\ Head(functions \o pendingFunctors_) = Head(functions)
        /\ Tail(functions \o pendingFunctors_) = Tail(functions) \o pendingFunctors_
    BY <2>1, ConcatHead DEF TypeOK
  <2>3. [t \in {LoopThread} |-> ran]'
          = [[t \in {LoopThread} |-> ran] EXCEPT ![LoopThread] = Append(@, Head(functions))]
    BY <2>1
  <2>4. (functions \o pendingFunctors_)' = Tail(functions \o pendingFunctors_)
    BY <2>1, <2>2
  <2>5. QueuedSet' = QueuedSet
    BY <2>1 DEF QueuedSet
  <2>6. FunctorQueue!Dequeue(LoopThread)
    BY <2>2, <2>3, <2>4, <2>5 DEF FunctorQueue!Dequeue
  <2>7. PushedOnce'
    BY <2>1 DEF PushedOnce
  <2> QED
    BY <2>6, <2>7 DEF FunctorQueue!Next
<1>3. CASE \E t \in Threads, f \in Functors :
             Push(t, f) /\ UNCHANGED <<functions, ran>>
  BY <1>3, PushEnqueues
<1>4. CASE UNCHANGED <<ran, functions, pendingFunctors_, queued>> /\ fresh' \subseteq fresh
  BY <1>4, SameFunctors DEF PushedOnce
<1>5. CASE LoopStep
  BY <1>1, <1>2, <1>4, <1>5
     DEF LoopStep, TestQuit, EpollEvents, EpollTimeout, handleRead, HandleChannel,
         ChannelReturn, doPendingFunctions, FunctorReturn, EndFunctors
<1>6. CASE loop \/ UNCHANGED vars
  BY <1>4, <1>6 DEF loop, vars, loopVars
<1>7. CASE OwnCall
  <2>1. LoopThread \in Threads
    BY DEF Threads
  <2> QED
    BY <1>3, <1>4, <1>7, <2>1
       DEF OwnCall, queueInLoopOwn, runInLoop, runInLoopOwn, isInLoopThread, loopVars, quitOwn
<1>8. ASSUME NEW t \in Users, UserStep(t)
      PROVE  PushedOnce' /\ [FunctorQueue!Next]_(FunctorQueue!vars)
  <2>1. t \in Threads /\ ~isInLoopThread(t)
    BY ThreadsAssumption DEF Threads, isInLoopThread
  <2> QED
    BY <1>3, <1>4, <1>8, <2>1
       DEF UserStep, runInLoop, queueInLoop, queueInLoopWakeup, quitUser, quitWakeup
<1> QED
  BY <1>5, <1>6, <1>7, <1>8 DEF Next

(* To the threads that hand it work the loop is a first-in first-out queue   *)
(* with one consumer: each functor goes in once, in one step, and comes out  *)
(* once, in the loop thread, in the order of the push_backs. The batch       *)
(* swapped out and the queue behind it, two lists of which the loop reads    *)
(* one without the mutex, cannot be told from one list                       *)
(* (EventLoop.cc:94-103, 178-190).                                           *)
THEOREM LoopImplementsFifo == Spec => ImplementsFifo
BY FifoInit, FifoStep, TypeCorrect, PTL DEF Spec, ImplementsFifo, FunctorQueue!Spec

-----------------------------------------------------------------------------
(* EventLoopThread.                                                          *)

Asked == quits > 0

(* The loop exists between its construction and the return of ThreadFunc,    *)
(* loop_ is set in that time and stays, and nothing but a quit() makes       *)
(* loop(), and with it ThreadFunc, return.                                   *)
ThreadInv ==
  /\ quits \in Nat
  /\ quit_ = TRUE => Asked
  /\ tpc \in {"unborn", "ctor", "publish", "enter", "looping", "done"}
  /\ tpc \in {"publish", "enter", "looping"} => alive = TRUE
  /\ loop_ = TRUE => tpc \in {"enter", "looping", "done"}
  /\ opc \in {"running", "join", "joined", "gone"} => loop_ = TRUE
  /\ loop_ \in BOOLEAN /\ quit_ \in BOOLEAN
  /\ tpc = "looping" /\ pc = "out" => Asked
  /\ tpc = "done" => Asked
  /\ opc \in {"joined", "gone"} => tpc = "done"
  /\ dangling = FALSE \/ (dangling = TRUE /\ Asked)

(* What the steps of the loop and of its callers do to quit_: only quit()    *)
(* sets it, and loop() returns only when it is set (EventLoop.cc:66-84,      *)
(* 132-138).                                                                 *)
LEMMA QuitCounted ==
  ASSUME ThreadInv, LoopStep \/ OwnCall \/ UserStep(Owner)
  PROVE  /\ quits' \in Nat /\ (Asked => Asked')
         /\ quit_' = quit_ \/ (quit_' = TRUE /\ Asked')
         /\ pc' = "out" => pc = "out" \/ quit_ = TRUE
<1>0. quits \in Nat /\ quit_ \in BOOLEAN
  BY DEF ThreadInv
<1> USE <1>0 DEF Asked
<1>1. CASE LoopStep
  <2>1. quits' = quits /\ quit_' = quit_
    BY <1>1 DEF LoopStep, TestQuit, EpollEvents, EpollTimeout, handleRead, HandleChannel,
         ChannelReturn, doPendingFunctions, Swap, CallFunctor, FunctorReturn, EndFunctors
  <2>2. pc' = "out" => pc = "out" \/ quit_ = TRUE
    <3>1. CASE TestQuit
      BY <3>1 DEF TestQuit
    <3>2. CASE ~TestQuit
      BY <1>1, <3>2 DEF LoopStep, EpollEvents, EpollTimeout, handleRead, HandleChannel,
         ChannelReturn, doPendingFunctions, Swap, CallFunctor, FunctorReturn, EndFunctors
    <3> QED
      BY <3>1, <3>2
  <2> QED
    BY <2>1, <2>2
<1>2. CASE OwnCall
  <2>1. CASE quitOwn
    <3>1. quits' \in Nat /\ Asked'
      BY <2>1 DEF quitOwn
    <3>2. pc' = pc /\ quit_' = TRUE
      BY <2>1, Zenon DEF quitOwn
    <3> QED
      BY <3>1, <3>2
  <2>2. CASE ~quitOwn
    BY <1>2, <2>2 DEF OwnCall, queueInLoopOwn, runInLoop, runInLoopOwn, queueInLoop, loopVars
  <2> QED
    BY <2>1, <2>2
<1>3. CASE UserStep(Owner)
  <2>1. CASE quitUser(Owner)
    <3>1. quits' \in Nat /\ Asked'
      BY <2>1 DEF quitUser
    <3>2. pc' = pc /\ quit_' = TRUE
      BY <2>1, Zenon DEF quitUser
    <3> QED
      BY <3>1, <3>2
  <2>2. CASE ~quitUser(Owner)
    BY <1>3, <2>2 DEF UserStep, runInLoop, runInLoopOwn, queueInLoop, queueInLoopWakeup, quitWakeup,
         loopVars
  <2> QED
    BY <2>1, <2>2
<1> QED
  BY <1>1, <1>2, <1>3

(* Every step of the two threads keeps the invariant                         *)
(* (EventLoopThread.cc:15-45).                                               *)
LEMMA ThreadStepKeeps == ThreadInv /\ [NextThread]_allVars => ThreadInv'
<1> SUFFICES ASSUME ThreadInv, [NextThread]_allVars
             PROVE  ThreadInv'
  OBVIOUS
<1>1. CASE OwnerCall
  <2>1. UserStep(Owner) /\ UNCHANGED threadVars /\ opc = "running" /\ alive
    BY <1>1 DEF OwnerCall
  <2> QED
    BY <2>1, QuitCounted DEF ThreadInv, Asked, threadVars
<1>2. CASE InLoop
  <2>1. (LoopStep \/ OwnCall) /\ UNCHANGED threadVars /\ tpc = "looping"
    BY <1>2 DEF InLoop
  <2> QED
    BY <2>1, QuitCounted DEF ThreadInv, Asked, threadVars
<1>3. CASE EnterLoop
  BY <1>3 DEF EnterLoop, loop, ThreadInv, Asked
<1>4. CASE DanglingCall
  BY <1>4 DEF DanglingCall, loopVars, ThreadInv, Asked
<1>5. CASE startLoop \/ WaitForLoop \/ SpuriousWakeup \/ Destructor \/ DestructorNotStarted \/ Join
  BY <1>5 DEF startLoop, StartThread, WaitForLoop, SpuriousWakeup, Destructor, DestructorNotStarted,
       Join, vars, loopVars, ThreadInv, Asked
<1>6. CASE DestructorQuit
  BY <1>6 DEF DestructorQuit, vars, loopVars, ThreadInv, Asked
<1>7. CASE Construct \/ Publish \/ ThreadReturn
  BY <1>7 DEF Construct, Publish, ThreadReturn, vars, loopVars, ThreadInv, Asked
<1>8. CASE UNCHANGED allVars
  BY <1>8 DEF allVars, vars, loopVars, threadVars, ThreadInv, Asked
<1> QED
  BY <1>1, <1>2, <1>3, <1>4, <1>5, <1>6, <1>7, <1>8 DEF NextThread, OwnerStep, ThreadStep

(* Before startLoop there is no thread and no loop.                          *)
LEMMA InitThreadKeeps == InitThread => ThreadInv
<1> SUFFICES ASSUME InitThread PROVE ThreadInv
  OBVIOUS
<1>1. quits \in Nat
  BY DEF InitThread, Init
<1>2. quit_ = FALSE /\ loop_ = FALSE /\ dangling = FALSE /\ tpc = "unborn" /\ opc = "new"
  BY DEF InitThread, Init
<1> QED
  BY <1>1, <1>2, Zenon DEF ThreadInv

(* When startLoop has returned, the loop exists until someone asked it to    *)
(* quit, and no call, the destructor's last one included, touches a loop     *)
(* that is not there before that (EventLoopThread.cc:15-45).                 *)
THEOREM StartedCorrect == SpecThread => []StartedLoopLives
<1>1. ThreadInv => StartedLoopLives
  <2> SUFFICES ASSUME ThreadInv, quits = 0
               PROVE  (opc = "running" => loop_ /\ alive) /\ ~dangling
    BY DEF StartedLoopLives
  <2>1. ~Asked
    BY DEF Asked
  <2>2. dangling = FALSE
    BY <2>1 DEF ThreadInv
  <2>3. opc = "running" => loop_ = TRUE /\ tpc \in {"enter", "looping"}
    BY <2>1 DEF ThreadInv
  <2>4. opc = "running" => loop_ /\ alive
    BY <2>3 DEF ThreadInv
  <2> QED
    BY <2>2, <2>4
<1> QED
  BY InitThreadKeeps, <1>1, ThreadStepKeeps, PTL DEF SpecThread

(* Outside of ThreadFunc's call of loop() nobody is in the loop.             *)
Outside == tpc # "looping" => pc = "out"

(* A step of the two threads is one of the loop and its callers, or none of  *)
(* theirs, or a call on the destroyed loop, of which only the caller's place *)
(* is left (EventLoopThread.cc:15-45).                                       *)
LEMMA ThreadProjects ==
  ASSUME ThreadInv, Outside, [NextThread]_allVars
  PROVE  /\ Outside'
         /\ [Next]_vars \/ (DanglingCall /\ pc = "out")
<1>1. CASE OwnerCall
  <2>1. UserStep(Owner) /\ Owner \in Users /\ tpc' = tpc
    BY <1>1, OwnerAssumption DEF OwnerCall, threadVars
  <2>2. pc' = pc
    BY <2>1, ThreadsAssumption DEF UserStep, runInLoop, isInLoopThread, queueInLoop,
         queueInLoopWakeup, quitUser, quitWakeup
  <2> QED
    BY <2>1, <2>2 DEF Next, Outside
<1>2. CASE InLoop
  <2>1. (LoopStep \/ OwnCall) /\ tpc = "looping" /\ tpc' = tpc
    BY <1>2 DEF InLoop, threadVars
  <2> QED
    BY <2>1 DEF Next, Outside
<1>3. CASE EnterLoop
  BY <1>3 DEF EnterLoop, Next, Outside
<1>4. CASE DanglingCall
  <2>1. alive # TRUE /\ tpc' = tpc /\ pc' = pc
    BY <1>4 DEF DanglingCall, loopVars
  <2>2. tpc # "looping"
    BY <2>1 DEF ThreadInv
  <2> QED
    BY <1>4, <2>1, <2>2 DEF Outside
<1>5. CASE startLoop \/ WaitForLoop \/ SpuriousWakeup \/ Destructor \/ DestructorNotStarted \/ Join
             \/ DestructorQuit
  <2>1. UNCHANGED vars /\ (tpc' = tpc \/ tpc = "unborn")
    BY <1>5 DEF startLoop, StartThread, WaitForLoop, SpuriousWakeup, Destructor, DestructorNotStarted,
         Join, DestructorQuit
  <2> QED
    BY <2>1 DEF Outside, vars, loopVars
<1>6. CASE Construct \/ Publish \/ ThreadReturn
  <2>1. UNCHANGED vars /\ (tpc # "looping" \/ pc = "out")
    BY <1>6 DEF Construct, Publish, ThreadReturn
  <2> QED
    BY <2>1 DEF Outside, vars, loopVars
<1>7. CASE UNCHANGED allVars
  BY <1>7 DEF allVars, vars, loopVars, threadVars, Outside
<1> QED
  BY <1>1, <1>2, <1>3, <1>4, <1>5, <1>6, <1>7 DEF NextThread, OwnerStep, ThreadStep

(* A call on the destroyed loop disturbs nothing that is proved of the loop. *)
LEMMA DanglingKeeps ==
  ASSUME IInv, PushedOnce, DanglingCall, pc = "out"
  PROVE  IInv' /\ PushedOnce' /\ UNCHANGED FunctorQueue!vars
<1>1. /\ pc' = "out" /\ pc' = pc
      /\ UNCHANGED <<quit_, callingdoPendingFunctions_, wakeupfd_, channellist_, pendingFunctors_,
                     functions, fresh, loops, quits, queued, ran>>
      /\ upc' = [upc EXCEPT ![Owner] = "ready"]
  BY DEF DanglingCall, loopVars
<1>2. TypeOK'
  BY <1>1 DEF IInv, TypeOK
<1>3. FunctorsInOrder' /\ OwnPendingWakes'
  BY <1>1 DEF IInv, FunctorsInOrder, OwnPendingWakes, OwnPending
<1>4. QuitNeverWaits'
  BY <1>1 DEF QuitNeverWaits
<1>5. PushedOnce'
  BY <1>1 DEF PushedOnce
<1>6. (functions \o pendingFunctors_)' = functions \o pendingFunctors_
  BY <1>1
<1> QED
  BY <1>1, <1>2, <1>3, <1>4, <1>5, <1>6, SameFunctors DEF IInv

(* All that is proved of the loop holds of the one that an EventLoopThread   *)
(* builds, publishes and runs: the invariants hold from before it is there   *)
(* until after it is destroyed, calls through the pointer that was left      *)
(* behind included, and its functors are a first-in first-out queue          *)
(* (EventLoopThread.cc:15-45, EventLoop.cc:66-103, 132-138, 169-190).        *)
THEOREM ThreadRunsLoop == SpecThread => []IInv /\ ImplementsFifo
<1>1. InitThread => Init /\ IInv /\ ThreadInv /\ Outside
  <2> SUFFICES ASSUME InitThread PROVE Init /\ IInv /\ ThreadInv /\ Outside
    OBVIOUS
  <2>1. Init /\ IInv
    BY InitKeeps DEF InitThread
  <2>2. ThreadInv
    BY InitThreadKeeps
  <2> QED
    BY <2>1, <2>2 DEF Init, Outside
<1>2. InitThread => PushedOnce /\ FunctorQueue!Init
  BY FifoInit DEF InitThread
<1>3. IInv /\ PushedOnce /\ ThreadInv /\ Outside /\ [NextThread]_allVars
        => /\ IInv' /\ PushedOnce' /\ ThreadInv' /\ Outside'
           /\ [FunctorQueue!Next]_(FunctorQueue!vars)
  <2> SUFFICES ASSUME IInv, PushedOnce, ThreadInv, Outside, [NextThread]_allVars
               PROVE  /\ IInv' /\ PushedOnce' /\ ThreadInv' /\ Outside'
                      /\ [FunctorQueue!Next]_(FunctorQueue!vars)
    OBVIOUS
  <2>1. ThreadInv' /\ Outside'
    BY ThreadStepKeeps, ThreadProjects
  <2>2. CASE [Next]_vars
    BY <2>1, <2>2, TypeStep, OrderStep, OwnStep, QuitStep, FifoStep DEF IInv
  <2>3. CASE DanglingCall /\ pc = "out"
    BY <2>1, <2>3, DanglingKeeps
  <2> QED
    BY <2>2, <2>3, ThreadProjects
<1> QED
  BY <1>1, <1>2, <1>3, PTL DEF SpecThread, ImplementsFifo, FunctorQueue!Spec
=============================================================================
