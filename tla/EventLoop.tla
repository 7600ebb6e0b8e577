----------------------------- MODULE EventLoop -----------------------------
(***************************************************************************)
(* reactor/EventLoop.{h,cc}: one loop per thread.  The thread that built   *)
(* the loop runs loop(): it polls, handles the active channels and then    *)
(* runs the functors that any thread queued meanwhile.  Other threads hand *)
(* it work with queueInLoop()/runInLoop(), stop it with quit(), and wake   *)
(* it by writing to an eventfd.                                            *)
(*                                                                         *)
(* One action is one step of a thread between two accesses to state that   *)
(* another thread can see; the two critical sections of mutex_ (push_back  *)
(* and swap) are one step each.  A callback body (a functor, or the        *)
(* handler of a channel other than the wakeup channel) is any sequence of  *)
(* calls to the loop's API: queueInLoop, runInLoop and quit.               *)
(***************************************************************************)
EXTENDS Naturals, Sequences

CONSTANTS
  LoopThread,  \* threadId_: the thread that constructed the loop
  Users,       \* the other threads that call the loop
  Functors,    \* the callbacks handed to the loop, each at most once
  MaxLoops,    \* bound: how often loop() is called (pingpong_bench calls it 25 times)
  MaxQuits     \* bound: how often quit() is called

ASSUME ThreadsAssumption == LoopThread \notin Users
ASSUME BoundsAssumption == MaxLoops \in Nat /\ MaxQuits \in Nat

VARIABLES
  pc,                 \* where the loop thread is: see LoopPcs
  quit_,
  callingdoPendingFunctions_,
  wakeupfd_,          \* counter of the eventfd: readable iff > 0
  channellist_,       \* active channels still to be handled: "wakeup", "io"
  pendingFunctors_,   \* queue of [fn, by]: the functor and (history) who pushed it
  functions,          \* the batch that doPendingFunctions swapped out
  upc,                \* where each user thread is inside queueInLoop() or quit()
  fresh,              \* functors no thread has handed to the loop yet
  loops, quits,       \* how often loop() and quit() were called, for the bounds
  queued, ran         \* history: functors pushed, and functors of batches called

loopVars == <<pc, quit_, callingdoPendingFunctions_, wakeupfd_, channellist_,
              pendingFunctors_, functions>>
vars == <<loopVars, upc, fresh, loops, quits, queued, ran>>

Threads == Users \cup {LoopThread}

(* "out": not in loop(); "check": at while(!quit_); "polling": in epoll_wait; *)
(* "handling": in the for over channellist_; "begin": doPendingFunctions has  *)
(* set its flag and not yet swapped; "functors": in the for over functions;   *)
(* "iocb", "fncb": inside a channel's handler, inside a functor.              *)
LoopPcs == {"out", "check", "polling", "handling", "begin", "functors", "iocb", "fncb"}

(* The loop thread runs client code: before loop(), or in a callback.        *)
InClientCode == pc \in {"out", "iocb", "fncb"}

Entry == [fn : Functors, by : Threads]

Init ==
  /\ pc = "out"
  /\ quit_ = FALSE
  /\ callingdoPendingFunctions_ = FALSE
  /\ wakeupfd_ = 0
  /\ channellist_ = {}
  /\ pendingFunctors_ = <<>>
  /\ functions = <<>>
  /\ upc = [t \in Users |-> "ready"]
  /\ fresh = Functors
  /\ loops = 0
  /\ quits = 0
  /\ queued = <<>>
  /\ ran = <<>>

-----------------------------------------------------------------------------
(* queueInLoop, runInLoop, wakeup and quit.                                  *)

isInLoopThread(t) == t = LoopThread

(* Fault: the test of queueInLoop without its first operand.                 *)
NeedsWakeup_OnlyInBatch(t) == callingdoPendingFunctions_

(* The condition at the end of queueInLoop, as the code has it.              *)
NeedsWakeup(t) == isInLoopThread(t) \/ callingdoPendingFunctions_

wakeup == wakeupfd_' = wakeupfd_ + 1

(* push_back under mutex_.                                                   *)
Push(t, f) ==
  /\ f \in fresh
  /\ fresh' = fresh \ {f}
  /\ pendingFunctors_' = Append(pendingFunctors_, [fn |-> f, by |-> t])
  /\ queued' = Append(queued, [fn |-> f, by |-> t])

(* A user thread pushes; the wakeup test is a later step, after the unlock.  *)
queueInLoop(t, f) ==
  /\ upc[t] = "ready"
  /\ Push(t, f)
  /\ upc' = [upc EXCEPT ![t] = "pushed"]
  /\ UNCHANGED <<pc, quit_, callingdoPendingFunctions_, wakeupfd_, channellist_,
                 functions, loops, quits, ran>>

queueInLoopWakeup(t) ==
  /\ upc[t] = "pushed"
  /\ upc' = [upc EXCEPT ![t] = "ready"]
  /\ IF NeedsWakeup(t) THEN wakeup ELSE UNCHANGED wakeupfd_
  /\ UNCHANGED <<pc, quit_, callingdoPendingFunctions_, channellist_,
                 pendingFunctors_, functions, fresh, loops, quits, queued, ran>>

(* The loop thread pushes and tests in one step: only itself reads the       *)
(* eventfd, swaps the queue and writes the flag.                             *)
queueInLoopOwn(f) ==
  /\ InClientCode
  /\ Push(LoopThread, f)
  /\ IF NeedsWakeup(LoopThread) THEN wakeup ELSE UNCHANGED wakeupfd_
  /\ UNCHANGED <<pc, quit_, callingdoPendingFunctions_, channellist_,
                 functions, upc, loops, quits, ran>>

(* runInLoop in the loop thread calls the functor at once, as part of the    *)
(* running client code; in another thread it is queueInLoop.                 *)
runInLoopOwn(f) ==
  /\ InClientCode
  /\ f \in fresh
  /\ fresh' = fresh \ {f}
  /\ UNCHANGED <<loopVars, upc, loops, quits, queued, ran>>

runInLoop(t, f) ==
  IF isInLoopThread(t) THEN runInLoopOwn(f) ELSE queueInLoop(t, f)

(* quit() in another thread: the flag first, then the wakeup.                *)
quitUser(t) ==
  /\ upc[t] = "ready"
  /\ quits < MaxQuits
  /\ quits' = quits + 1
  /\ quit_' = TRUE
  /\ upc' = [upc EXCEPT ![t] = "quitting"]
  /\ UNCHANGED <<pc, callingdoPendingFunctions_, wakeupfd_, channellist_,
                 pendingFunctors_, functions, fresh, loops, queued, ran>>

(* Fault: quit() leaves out the wakeup of the other thread's branch.         *)
quitWakeup_None(t) ==
  /\ upc[t] = "quitting"
  /\ upc' = [upc EXCEPT ![t] = "ready"]
  /\ UNCHANGED <<loopVars, fresh, loops, quits, queued, ran>>

quitWakeup(t) ==
  /\ upc[t] = "quitting"
  /\ upc' = [upc EXCEPT ![t] = "ready"]
  /\ wakeup
  /\ UNCHANGED <<pc, quit_, callingdoPendingFunctions_, channellist_,
                 pendingFunctors_, functions, fresh, loops, quits, queued, ran>>

(* quit() in the loop thread only sets the flag.                             *)
quitOwn ==
  /\ InClientCode
  /\ quits < MaxQuits
  /\ quits' = quits + 1
  /\ quit_' = TRUE
  /\ UNCHANGED <<pc, callingdoPendingFunctions_, wakeupfd_, channellist_,
                 pendingFunctors_, functions, upc, fresh, loops, queued, ran>>

-----------------------------------------------------------------------------
(* loop().                                                                   *)

(* loop() resets quit_ before it tests it for the first time.                *)
loop ==
  /\ pc = "out"
  /\ loops < MaxLoops
  /\ loops' = loops + 1
  /\ pc' = "check"
  /\ quit_' = FALSE
  /\ UNCHANGED <<callingdoPendingFunctions_, wakeupfd_, channellist_,
                 pendingFunctors_, functions, upc, fresh, quits, queued, ran>>

(* Fault: the loop goes on whatever quit_ says.                              *)
TestQuit_Never ==
  /\ pc = "check"
  /\ pc' = "polling"
  /\ UNCHANGED <<quit_, callingdoPendingFunctions_, wakeupfd_, channellist_,
                 pendingFunctors_, functions, upc, fresh, loops, quits, queued, ran>>

(* while(!quit_): leave loop(), or clear channellist_ and poll.              *)
TestQuit ==
  /\ pc = "check"
  /\ pc' = IF quit_ THEN "out" ELSE "polling"
  /\ UNCHANGED <<quit_, callingdoPendingFunctions_, wakeupfd_, channellist_,
                 pendingFunctors_, functions, upc, fresh, loops, quits, queued, ran>>

(* epoll_wait returns the ready descriptors: the eventfd, level-triggered,   *)
(* whenever its counter is positive, and possibly other channels.            *)
EpollEvents ==
  /\ pc = "polling"
  /\ \E io \in SUBSET {"io"} :
       LET ready == io \cup (IF wakeupfd_ > 0 THEN {"wakeup"} ELSE {})
       IN  ready # {} /\ channellist_' = ready
  /\ pc' = "handling"
  /\ UNCHANGED <<quit_, callingdoPendingFunctions_, wakeupfd_, pendingFunctors_,
                 functions, upc, fresh, loops, quits, queued, ran>>

(* Fault: a poll without the kPollTimeMs limit.                              *)
EpollTimeout_Never ==
  /\ FALSE
  /\ UNCHANGED vars

(* Nothing became ready within kPollTimeMs, or epoll_wait was interrupted.   *)
EpollTimeout ==
  /\ pc = "polling"
  /\ wakeupfd_ = 0
  /\ pc' = "handling"
  /\ UNCHANGED <<quit_, callingdoPendingFunctions_, wakeupfd_, channellist_,
                 pendingFunctors_, functions, upc, fresh, loops, quits, queued, ran>>

(* The wakeup channel's handler drains the eventfd.                          *)
handleRead ==
  /\ pc = "handling"
  /\ "wakeup" \in channellist_
  /\ channellist_' = channellist_ \ {"wakeup"}
  /\ wakeupfd_' = 0
  /\ UNCHANGED <<pc, quit_, callingdoPendingFunctions_, pendingFunctors_,
                 functions, upc, fresh, loops, quits, queued, ran>>

(* The handler of another channel starts; its body is client code.           *)
HandleChannel ==
  /\ pc = "handling"
  /\ "io" \in channellist_
  /\ channellist_' = channellist_ \ {"io"}
  /\ pc' = "iocb"
  /\ UNCHANGED <<quit_, callingdoPendingFunctions_, wakeupfd_, pendingFunctors_,
                 functions, upc, fresh, loops, quits, queued, ran>>

ChannelReturn ==
  /\ pc = "iocb"
  /\ pc' = "handling"
  /\ UNCHANGED <<quit_, callingdoPendingFunctions_, wakeupfd_, channellist_,
                 pendingFunctors_, functions, upc, fresh, loops, quits, queued, ran>>

doPendingFunctions ==
  /\ pc = "handling"
  /\ channellist_ = {}
  /\ callingdoPendingFunctions_' = TRUE
  /\ pc' = "begin"
  /\ UNCHANGED <<quit_, wakeupfd_, channellist_, pendingFunctors_, functions,
                 upc, fresh, loops, quits, queued, ran>>

(* Fault: the batch is a copy, taken without emptying the queue.             *)
Swap_Copy ==
  /\ pc = "begin"
  /\ functions' = pendingFunctors_
  /\ pc' = "functors"
  /\ UNCHANGED <<quit_, callingdoPendingFunctions_, wakeupfd_, channellist_,
                 pendingFunctors_, upc, fresh, loops, quits, queued, ran>>

(* pendingFunctors_.swap(functions) under mutex_, functions being empty.     *)
Swap ==
  /\ pc = "begin"
  /\ functions' = pendingFunctors_
  /\ pendingFunctors_' = functions
  /\ pc' = "functors"
  /\ UNCHANGED <<quit_, callingdoPendingFunctions_, wakeupfd_, channellist_,
                 upc, fresh, loops, quits, queued, ran>>

CallFunctor ==
  /\ pc = "functors"
  /\ functions # <<>>
  /\ ran' = Append(ran, Head(functions))
  /\ functions' = Tail(functions)
  /\ pc' = "fncb"
  /\ UNCHANGED <<quit_, callingdoPendingFunctions_, wakeupfd_, channellist_,
                 pendingFunctors_, upc, fresh, loops, quits, queued>>

FunctorReturn ==
  /\ pc = "fncb"
  /\ pc' = "functors"
  /\ UNCHANGED <<quit_, callingdoPendingFunctions_, wakeupfd_, channellist_,
                 pendingFunctors_, functions, upc, fresh, loops, quits, queued, ran>>

EndFunctors ==
  /\ pc = "functors"
  /\ functions = <<>>
  /\ callingdoPendingFunctions_' = FALSE
  /\ pc' = "check"
  /\ UNCHANGED <<quit_, wakeupfd_, channellist_, pendingFunctors_, functions,
                 upc, fresh, loops, quits, queued, ran>>

-----------------------------------------------------------------------------
(* Steps the loop thread takes by itself once it is in loop().               *)
LoopStep ==
  \/ TestQuit
  \/ EpollEvents
  \/ EpollTimeout
  \/ handleRead
  \/ HandleChannel
  \/ ChannelReturn
  \/ doPendingFunctions
  \/ Swap
  \/ CallFunctor
  \/ FunctorReturn
  \/ EndFunctors

(* What client code running in the loop thread may call.                     *)
OwnCall ==
  \/ \E f \in Functors : queueInLoopOwn(f) \/ runInLoop(LoopThread, f)
  \/ quitOwn

UserStep(t) ==
  \/ \E f \in Functors : runInLoop(t, f)
  \/ queueInLoopWakeup(t)
  \/ quitUser(t)
  \/ quitWakeup(t)

Next ==
  \/ loop
  \/ LoopStep
  \/ OwnCall
  \/ \E t \in Users : UserStep(t)

(* An event of another channel ends the poll; nothing makes one come.         *)
IoArrives == pc = "polling" /\ wakeupfd_ = 0 /\ channellist_' # {}

(* The loop thread keeps running: the scheduler runs it, epoll_wait returns   *)
(* after kPollTimeMs at the latest, callbacks return.                         *)
Fairness == WF_vars(LoopStep /\ ~IoArrives)

Spec == Init /\ [][Next]_vars
FairSpec == Spec /\ Fairness

-----------------------------------------------------------------------------
(* Properties.                                                               *)

(* The types; the flag says whether the loop thread is in doPendingFunctions,  *)
(* and there is a batch only there (EventLoop.cc:178-190).                     *)
TypeOK ==
  /\ pc \in LoopPcs
  /\ quit_ \in BOOLEAN
  /\ callingdoPendingFunctions_ \in BOOLEAN
  /\ callingdoPendingFunctions_ <=> pc \in {"begin", "functors", "fncb"}
  /\ pc \notin {"functors", "fncb"} => functions = <<>>
  /\ wakeupfd_ \in Nat
  /\ channellist_ \in SUBSET {"wakeup", "io"}
  /\ pendingFunctors_ \in Seq(Entry)
  /\ functions \in Seq(Entry)
  /\ upc \in [Users -> {"ready", "pushed", "quitting"}]
  /\ fresh \in SUBSET Functors
  /\ loops \in Nat
  /\ quits \in Nat
  /\ queued \in Seq(Entry)
  /\ ran \in Seq(Entry)

(* Whatever the threads interleave, the functors called by doPendingFunctions, *)
(* then the rest of its batch, then the queue, are the functors pushed, in the *)
(* order of their push_back: none is lost, called twice or overtaken           *)
(* (EventLoop.cc:94-103 against 178-190).                                      *)
FunctorsInOrder == ran \o functions \o pendingFunctors_ = queued

(* The loop never sleeps in epoll_wait on a functor that its own thread        *)
(* queued: before such a functor can be waited on, queueInLoop has made the    *)
(* eventfd readable and nothing has drained it (EventLoop.cc:100, 169-176).    *)
OwnFunctorsNeverWait ==
  pc = "polling" /\ wakeupfd_ = 0 =>
    \A i \in DOMAIN pendingFunctors_ : pendingFunctors_[i].by # LoopThread

(* The loop never sleeps in epoll_wait with quit_ set, unless the quitting     *)
(* thread is still on its way to the wakeup (EventLoop.cc:132-138): setting    *)
(* the flag before the write leaves no window in which a quit is slept over.   *)
QuitNeverWaits ==
  pc = "polling" /\ quit_ =>
    wakeupfd_ > 0 \/ \E t \in Users : upc[t] = "quitting"

(* A functor in the queue is called eventually, unless loop() is left: with    *)
(* no wakeup at all it still is when epoll_wait times out, and a stream of     *)
(* channel events or functors queueing functors cannot starve it               *)
(* (EventLoop.cc:71-78, 178-190).                                              *)
QueuedEventuallyRuns ==
  \A f \in Functors :
    (\E i \in DOMAIN pendingFunctors_ : pendingFunctors_[i].fn = f)
      ~> (pc = "out" \/ \E i \in DOMAIN ran : ran[i].fn = f)

(* What the comment on EventLoop.cc:100 says of queueInLoop: called in a       *)
(* thread that is not the IO thread it wakes the loop up.  So with the loop    *)
(* asleep and a functor waiting, the eventfd is readable or a thread is still  *)
(* on its way to the wakeup.                                                   *)
NonLoopThreadWakesLoop ==
  pc = "polling" /\ pendingFunctors_ # <<>> =>
    wakeupfd_ > 0 \/ \E t \in Users : upc[t] = "pushed"
=============================================================================
