----------------------------- MODULE TimerQueue -----------------------------
(***************************************************************************)
(* reactor/TimerQueue.{h,cc}, Timer.{h,cc}: the timers of one loop.  The   *)
(* timers are sorted by their wall-clock expiration; one timerfd, counting *)
(* down on the monotonic clock, is armed for the earliest of them.  The    *)
(* wall clock is not the monotonic clock: it can be set while a countdown  *)
(* runs.  Timers are added by callbacks in the loop thread, at any place   *)
(* of an iteration, and by other threads through the functor queue.        *)
(***************************************************************************)
EXTENDS Naturals, Sequences

CONSTANTS
  Timers,    \* numbers, standing for the addresses that order equal expirations
  Interval,  \* interval_ of each timer: 0 for a one-shot
  MaxTime,   \* bound: the wall clock stops there (the countdown does not)
  MaxJumps   \* bound: how often the wall clock is set

ASSUME TimersAssumption == Timers \subseteq Nat /\ Interval \in [Timers -> Nat]
ASSUME TimeAssumption == MaxTime \in Nat \ {0} /\ MaxJumps \in Nat

VARIABLES
  now, jumps,          \* the wall clock, and how often it was set
  remaining, readable, \* timerfd_: ticks to its expiration (0: not armed), readable
  timerlist_,          \* set of <<expiration, timer>>
  expiration_,         \* of each timer
  unborn,              \* timers not created yet
  pendingAdds,         \* addTimerInLoop functors queued by other threads
  phase,               \* "idle", "due" (epoll reported timerfd_), "run" (in handleRead)
  snap,                \* the local now of handleRead
  todo, done,          \* the expired entries not yet run, and those run
  last                 \* history: now of the handleRead that last ran a timer, 0 if none

fdVars == <<remaining, readable>>
handlerVars == <<phase, snap, todo, done>>
vars == <<now, jumps, fdVars, timerlist_, expiration_, unborn, pendingAdds,
          handlerVars, last>>

Time == 0 .. MaxTime

Init ==
  /\ now = 1
  /\ jumps = 0
  /\ remaining = 0
  /\ readable = FALSE
  /\ timerlist_ = {}
  /\ expiration_ = [t \in Timers |-> 0]
  /\ unborn = Timers
  /\ pendingAdds = <<>>
  /\ phase = "idle"
  /\ snap = 0
  /\ todo = {}
  /\ done = {}
  /\ last = [t \in Timers |-> 0]

-----------------------------------------------------------------------------
(* Helpers.                                                                  *)

repeat(t) == Interval[t] > 0

(* The order of the std::set of (expiration, address) pairs.                 *)
Before(d, e) == d[1] < e[1] \/ (d[1] = e[1] /\ d[2] < e[2])

First(S) == CHOOSE e \in S : \A f \in S : f = e \/ Before(e, f)

valid(when) == when > 0

(* At least the 100 microseconds that one tick stands for.                   *)
howMachTimeFromNow(when) == IF when > now + 1 THEN when - now ELSE 1

(* timerfd_settime replaces the countdown and clears a pending expiration.   *)
(* The time between reading the clock and arming is less than a tick.        *)
resetTimerfd(when) ==
  /\ remaining' = howMachTimeFromNow(when)
  /\ readable' = FALSE

(* Fault: a timer changes the earliest expiration only of an empty list.     *)
earlyestChange_Empty(when) == timerlist_ = {}

(* What insert returns: the new timer is earlier than all others.            *)
earlyestChange(when) == \A e \in timerlist_ : when < e[1]

addTimerInLoop(t, when) ==
  /\ timerlist_' = timerlist_ \cup {<<when, t>>}
  /\ IF earlyestChange(when) THEN resetTimerfd(when) ELSE UNCHANGED fdVars

-----------------------------------------------------------------------------
(* addTimer: runAt, runAfter and runEvery.                                   *)

(* In the loop thread runInLoop inserts the timer at once.                   *)
addTimerOwn(t, when) ==
  /\ t \in unborn
  /\ unborn' = unborn \ {t}
  /\ expiration_' = [expiration_ EXCEPT ![t] = when]
  /\ addTimerInLoop(t, when)
  /\ UNCHANGED <<now, jumps, pendingAdds, handlerVars, last>>

(* In another thread it queues a functor.                                    *)
addTimerUser(t, when) ==
  /\ t \in unborn
  /\ unborn' = unborn \ {t}
  /\ expiration_' = [expiration_ EXCEPT ![t] = when]
  /\ pendingAdds' = Append(pendingAdds, t)
  /\ UNCHANGED <<now, jumps, fdVars, timerlist_, handlerVars, last>>

(* doPendingFunctions runs the functor, after the channels were handled.     *)
addTimerFunctor ==
  /\ phase = "idle"
  /\ pendingAdds # <<>>
  /\ pendingAdds' = Tail(pendingAdds)
  /\ LET t == Head(pendingAdds) IN addTimerInLoop(t, expiration_[t])
  /\ UNCHANGED <<now, jumps, expiration_, unborn, handlerVars, last>>

-----------------------------------------------------------------------------
(* The expiration of timerfd_.                                               *)

(* epoll reports timerfd_; handlers of other channels may come first.        *)
Epoll ==
  /\ phase = "idle"
  /\ readable
  /\ phase' = "due"
  /\ UNCHANGED <<now, jumps, fdVars, timerlist_, expiration_, unborn, pendingAdds,
                 snap, todo, done, last>>

(* Fault: a timer expires only after its expiration.                         *)
getexpiration_Strict(t0) == {e \in timerlist_ : e[1] < t0}

(* The entries below the sentry (now, UINTPTR_MAX).                          *)
getexpiration(t0) == {e \in timerlist_ : e[1] <= t0}

(* Fault: the expired entries are copied and not erased.                     *)
handleRead_NoErase ==
  /\ phase = "due"
  /\ phase' = "run"
  /\ readable' = FALSE
  /\ snap' = now
  /\ todo' = getexpiration(now)
  /\ UNCHANGED <<now, jumps, remaining, timerlist_, expiration_, unborn, pendingAdds,
                 done, last>>

(* handleRead up to the first callback: readTimerfd fails, and only logs,    *)
(* when another handler has armed timerfd_ anew in the meantime.             *)
handleRead ==
  /\ phase = "due"
  /\ phase' = "run"
  /\ readable' = FALSE
  /\ snap' = now
  /\ todo' = getexpiration(now)
  /\ timerlist_' = timerlist_ \ getexpiration(now)
  /\ UNCHANGED <<now, jumps, remaining, expiration_, unborn, pendingAdds, done, last>>

(* One callback; what it adds comes as addTimerOwn steps.                    *)
run ==
  /\ phase = "run"
  /\ todo # {}
  /\ LET e == First(todo)
     IN  /\ todo' = todo \ {e}
         /\ done' = done \cup {e}
         /\ last' = [last EXCEPT ![e[2]] = snap]
  /\ UNCHANGED <<now, jumps, fdVars, timerlist_, expiration_, unborn, pendingAdds,
                 phase, snap>>

(* Fault: the next expiration counts from the last one, not from now.        *)
restart_FromExpiration(t) ==
  IF expiration_[t] + Interval[t] > now THEN expiration_[t] + Interval[t] ELSE now

restart(t) == snap + Interval[t]

(* Fault: timerfd_ is armed again only when a timer repeats.                 *)
Rearm_OnlyRepeat(list) ==
  IF (\E e \in done : repeat(e[2])) /\ list # {} /\ valid(First(list)[1])
  THEN resetTimerfd(First(list)[1])
  ELSE UNCHANGED fdVars

(* The end of reset: arm timerfd_ for the earliest timer.                    *)
Rearm(list) ==
  IF list # {} /\ valid(First(list)[1])
  THEN resetTimerfd(First(list)[1])
  ELSE UNCHANGED fdVars

(* Repeating timers go back into the list, one-shots are deleted.            *)
reset ==
  /\ phase = "run"
  /\ todo = {}
  /\ LET again == {e[2] : e \in {d \in done : repeat(d[2])}}
         list  == timerlist_ \cup {<<restart(t), t>> : t \in again}
     IN  /\ expiration_' = [t \in Timers |-> IF t \in again THEN restart(t) ELSE expiration_[t]]
         /\ timerlist_' = list
         /\ Rearm(list)
  /\ done' = {}
  /\ phase' = "idle"
  /\ UNCHANGED <<now, jumps, unborn, pendingAdds, snap, todo, last>>

-----------------------------------------------------------------------------
(* The clocks.                                                               *)

(* Both clocks advance by a tick.                                            *)
Tick ==
  /\ now' = IF now < MaxTime THEN now + 1 ELSE now
  /\ remaining' = IF remaining > 0 THEN remaining - 1 ELSE 0
  /\ readable' = (readable \/ remaining = 1)
  /\ UNCHANGED <<jumps, timerlist_, expiration_, unborn, pendingAdds, handlerVars, last>>

(* The wall clock is set, forward or back; the countdown does not notice.    *)
Jump(time) ==
  /\ jumps < MaxJumps
  /\ jumps' = jumps + 1
  /\ now' = time
  /\ UNCHANGED <<fdVars, timerlist_, expiration_, unborn, pendingAdds, handlerVars, last>>

LoopStep ==
  \/ addTimerFunctor
  \/ Epoll
  \/ handleRead
  \/ run
  \/ reset

Next ==
  \/ \E t \in Timers, when \in Time : addTimerOwn(t, when) \/ addTimerUser(t, when)
  \/ LoopStep
  \/ Tick
  \/ \E time \in Time \ {0} : Jump(time)

(* Time passes and the loop thread keeps running its loop.                   *)
Fairness == WF_vars(Tick) /\ WF_vars(LoopStep)

Spec == Init /\ [][Next]_vars
FairSpec == Spec /\ Fairness

-----------------------------------------------------------------------------
(* Properties.                                                               *)

Entry == Nat \X Timers

(* The types, and every timer in one place: not created, queued by another    *)
(* thread, in the list under its own expiration, or expired                   *)
(* (TimerQueue.cc:129-155).                                                   *)
TypeOK ==
  /\ now \in Time \ {0}
  /\ jumps \in 0 .. MaxJumps
  /\ remaining \in Nat
  /\ readable \in BOOLEAN
  /\ timerlist_ \subseteq Entry
  /\ expiration_ \in [Timers -> Nat]
  /\ unborn \subseteq Timers
  /\ pendingAdds \in Seq(Timers)
  /\ phase \in {"idle", "due", "run"}
  /\ snap \in Nat
  /\ todo \subseteq Entry
  /\ done \subseteq Entry
  /\ last \in [Timers -> Nat]
  /\ \A e \in timerlist_ \cup todo : e[1] = expiration_[e[2]] /\ e[2] \notin unborn
  /\ \A e \in timerlist_, d \in todo \cup done : e[2] # d[2]

(* When the loop goes back to poll, a timer in the list has timerfd_ armed or *)
(* readable: no timer waits for a countdown that nobody started, whichever    *)
(* callback, handler or thread added it and however the clock was set, and    *)
(* also for a timer with an invalid expiration, for which reset does not arm  *)
(* (TimerQueue.cc:82-127).                                                    *)
ListedTimerArmed == phase = "idle" /\ timerlist_ # {} => remaining > 0 \/ readable

(* As long as nobody sets the clock, the countdown never runs past the        *)
(* earliest timer: timerfd_ fires on the tick of every timer's expiration     *)
(* (TimerQueue.cc:21-31, 82-127).                                             *)
CountdownNotLate ==
  jumps = 0 /\ phase = "idle" /\ ~readable =>
    \A e \in timerlist_ : remaining <= howMachTimeFromNow(e[1])

(* A repeating timer never runs twice within its interval by the clock the    *)
(* loop reads, even when the loop was late and the timer has missed several   *)
(* periods, and a one-shot never runs twice (TimerQueue.cc:107-120,           *)
(* Timer.cc:5-12).                                                            *)
RunsSpaced ==
  [][\A t \in Timers :
       last[t] > 0 /\ last'[t] # last[t] =>
         repeat(t) /\ last'[t] >= last[t] + Interval[t]]_vars

(* No timer that the clock can reach stays in the list for ever, also when    *)
(* the clock was set back or forward under a running countdown                *)
(* (TimerQueue.cc:91-155).                                                    *)
EveryTimerFires ==
  \A t \in Timers : []<>(\A e \in timerlist_ : e[2] = t => e[1] > MaxTime)
=============================================================================
