-------------------------- MODULE EventLoopThread --------------------------
(***************************************************************************)
(* reactor/EventLoopThread.{h,cc} around EventLoop: the owner starts a     *)
(* thread, waits on a condition variable until that thread has published   *)
(* the EventLoop on its stack, uses the loop through the pointer, and joins *)
(* the thread in the destructor.  The loop object lives only as long as    *)
(* ThreadFunc.                                                             *)
(*                                                                         *)
(* The two sections under mutex_ (test-and-wait, publish-and-notify) are   *)
(* one step each.                                                          *)
(***************************************************************************)
EXTENDS EventLoop

CONSTANT Owner  \* the thread that calls startLoop() and the destructor

ASSUME OwnerAssumption == Users = {Owner}

VARIABLES
  opc,      \* the owner: "new", "test" (loop_ == NULL?), "wait" (in cond_.wait),
            \* "running" (startLoop returned), "join" and "joined" (destructor), "gone",
            \* "aborted" (by the assert of Thread::join)
  tpc,      \* ThreadFunc: "unborn", "ctor", "publish", "enter" (before loop()),
            \* "looping", "done" (returned)
  loop_,    \* loop_ points to the loop (never reset)
  alive,    \* the EventLoop on the thread's stack exists
  dangling  \* history: a member of the loop was called after its destruction

threadVars == <<opc, tpc, loop_, alive, dangling>>
allVars == <<vars, threadVars>>

InitThread ==
  /\ Init
  /\ opc = "new"
  /\ tpc = "unborn"
  /\ loop_ = FALSE
  /\ alive = FALSE
  /\ dangling = FALSE

-----------------------------------------------------------------------------
(* The owner.                                                                *)

(* Thread::start: from here on the two threads run concurrently.             *)
StartThread == tpc = "unborn" /\ tpc' = "ctor"

startLoop ==
  /\ opc = "new"
  /\ opc' = "test"
  /\ StartThread
  /\ UNCHANGED <<vars, loop_, alive, dangling>>

(* Fault: startLoop waits once without testing loop_ first.                  *)
WaitForLoop_NoTest ==
  /\ opc = "test"
  /\ opc' = "wait"
  /\ UNCHANGED <<vars, tpc, loop_, alive, dangling>>

(* Fault: startLoop does not wait.                                           *)
WaitForLoop_NoWait ==
  /\ opc = "test"
  /\ opc' = "running"
  /\ UNCHANGED <<vars, tpc, loop_, alive, dangling>>

(* while(loop_ == NULL) cond_.wait(lock); return loop_.                      *)
WaitForLoop ==
  /\ opc = "test"
  /\ opc' = IF loop_ THEN "running" ELSE "wait"
  /\ UNCHANGED <<vars, tpc, loop_, alive, dangling>>

(* A condition variable may wake up without a notification.                  *)
SpuriousWakeup ==
  /\ opc = "wait"
  /\ opc' = "test"
  /\ UNCHANGED <<vars, tpc, loop_, alive, dangling>>

(* The owner calls the loop: queueInLoop, runInLoop or quit, or finishes one. *)
OwnerCall ==
  /\ opc = "running"
  /\ alive
  /\ UserStep(Owner)
  /\ UNCHANGED threadVars

(* The same on a destroyed loop: a call begins, or one that began on a live  *)
(* loop goes on to wakeup().  The write goes to a closed descriptor.         *)
DanglingCall ==
  /\ opc = "running"
  /\ ~alive
  /\ dangling' = TRUE
  /\ upc' = [upc EXCEPT ![Owner] = "ready"]
  /\ UNCHANGED <<loopVars, fresh, loops, quits, queued, ran, opc, tpc, loop_, alive>>

(* ~EventLoopThread: join, then loop_->quit() on whatever loop_ points to.   *)
Destructor ==
  /\ opc = "running"
  /\ upc[Owner] = "ready"
  /\ opc' = "join"
  /\ UNCHANGED <<vars, tpc, loop_, alive, dangling>>

(* The same without a startLoop(): join asserts that the thread was started.  *)
DestructorNotStarted ==
  /\ opc = "new"
  /\ opc' = "aborted"
  /\ UNCHANGED <<vars, tpc, loop_, alive, dangling>>

Join ==
  /\ opc = "join"
  /\ tpc = "done"
  /\ opc' = "joined"
  /\ UNCHANGED <<vars, tpc, loop_, alive, dangling>>

DestructorQuit ==
  /\ opc = "joined"
  /\ opc' = "gone"
  /\ dangling' = (dangling \/ ~alive)
  /\ UNCHANGED <<vars, tpc, loop_, alive>>

-----------------------------------------------------------------------------
(* ThreadFunc.                                                               *)

Construct ==
  /\ tpc = "ctor"
  /\ alive' = TRUE
  /\ tpc' = "publish"
  /\ UNCHANGED <<vars, opc, loop_, dangling>>

(* loop_ = &loop; cond_.notify_one().                                        *)
Publish ==
  /\ tpc = "publish"
  /\ loop_' = TRUE
  /\ opc' = IF opc = "wait" THEN "test" ELSE opc
  /\ tpc' = "enter"
  /\ UNCHANGED <<vars, alive, dangling>>

EnterLoop ==
  /\ tpc = "enter"
  /\ loop
  /\ tpc' = "looping"
  /\ UNCHANGED <<opc, loop_, alive, dangling>>

InLoop ==
  /\ tpc = "looping"
  /\ LoopStep \/ (pc # "out" /\ OwnCall)
  /\ UNCHANGED threadVars

(* ThreadFunc returns: the EventLoop is destroyed, loop_ keeps its value.    *)
ThreadReturn ==
  /\ tpc = "looping"
  /\ pc = "out"
  /\ tpc' = "done"
  /\ alive' = FALSE
  /\ UNCHANGED <<vars, opc, loop_, dangling>>

OwnerStep ==
  \/ startLoop
  \/ WaitForLoop
  \/ Join
  \/ DestructorQuit

ThreadStep ==
  \/ Construct
  \/ Publish
  \/ EnterLoop
  \/ InLoop
  \/ ThreadReturn

NextThread ==
  \/ OwnerStep
  \/ SpuriousWakeup
  \/ OwnerCall
  \/ DanglingCall
  \/ Destructor
  \/ DestructorNotStarted
  \/ ThreadStep

(* Both threads are scheduled, epoll_wait times out, callbacks return, and a  *)
(* call into the loop that began goes on to its wakeup.                       *)
FairThread ==
  /\ WF_allVars(OwnerStep)
  /\ WF_allVars(opc = "running" /\ alive /\ queueInLoopWakeup(Owner) /\ UNCHANGED threadVars)
  /\ WF_allVars(opc = "running" /\ alive /\ quitWakeup(Owner) /\ UNCHANGED threadVars)
  /\ WF_allVars(Construct \/ Publish \/ EnterLoop \/ ThreadReturn)
  /\ WF_allVars(LoopStep /\ ~IoArrives /\ tpc = "looping" /\ UNCHANGED threadVars)

SpecThread == InitThread /\ [][NextThread]_allVars /\ FairThread

-----------------------------------------------------------------------------
(* Properties.                                                               *)

(* When startLoop has returned, the loop it returned exists until someone     *)
(* asked it to quit: the pointer is neither null nor ahead of the loop's      *)
(* construction, and no call, the destructor's last one included, touches a   *)
(* loop that is not there unless a quit() came first (EventLoopThread.cc:15-45).*)
StartedLoopLives ==
  quits = 0 => /\ opc = "running" => loop_ /\ alive
               /\ ~dangling

(* The owner never waits forever in startLoop: publishing and notifying in    *)
(* one critical section leaves no window for a lost wakeup                    *)
(* (EventLoopThread.cc:25-41).                                                *)
StartLoopReturns == opc \in {"test", "wait"} ~> opc = "running"

(* A quit that reaches a running loop ends its thread, whatever the loop is   *)
(* doing, so that a destructor waiting in join goes on (EventLoop.cc:71,      *)
(* 132-138, EventLoopThread.cc:15-19).                                        *)
QuitEndsThread == (pc # "out" /\ quit_) ~> tpc = "done"
=============================================================================
