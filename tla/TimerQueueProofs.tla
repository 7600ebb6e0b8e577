-------------------------- MODULE TimerQueueProofs --------------------------
(***************************************************************************)
(* Proofs, for any timers and intervals and any bounds on the clock, of    *)
(* the safety properties of TimerQueue.                                    *)
(***************************************************************************)
EXTENDS TimerQueue, SequenceTheorems, WellFoundedInduction, TLAPS

Queued == {pendingAdds[i] : i \in DOMAIN pendingAdds}

Listed == timerlist_ \cup todo \cup done

(* Every timer is in one place at most, and expired timers are there only    *)
(* while handleRead runs.                                                    *)
OnePlace ==
  /\ \A e \in Listed : e[1] = expiration_[e[2]] /\ e[2] \notin unborn \cup Queued
  /\ Queued \cap unborn = {}
  /\ \A i, j \in DOMAIN pendingAdds : pendingAdds[i] = pendingAdds[j] => i = j
  /\ todo \cap done = {}
  /\ phase # "run" => todo = {} /\ done = {}

(* reset does not arm timerfd_ for an invalid expiration; while handleRead   *)
(* runs, the callback that added such a timer has armed it for the next tick.*)
InvalidArmed ==
  phase = "run" /\ (\E e \in timerlist_ : ~valid(e[1])) => remaining = 1 \/ readable

(* A timer that ran and is to run again repeats, and its expiration is at    *)
(* least its interval after the handleRead that ran it.                      *)
NextRunLater ==
  /\ \A t \in unborn \cup Queued : last[t] = 0
  /\ \A e \in timerlist_ \cup todo :
       last[e[2]] > 0 => repeat(e[2]) /\ e[1] >= last[e[2]] + Interval[e[2]]
  /\ \A e \in done : last[e[2]] = snap
  /\ \A e \in todo : e[1] <= snap

IInv ==
  /\ TypeOK
  /\ OnePlace
  /\ ListedTimerArmed
  /\ InvalidArmed
  /\ CountdownNotLate
  /\ NextRunLater

-----------------------------------------------------------------------------
(* A set of times that is not empty has an earliest (the order of the        *)
(* std::set, TimerQueue.h:23-24).                                            *)
LEMMA LeastNumber ==
  ASSUME NEW T \in SUBSET Nat, T # {}
  PROVE  \E w \in T : \A x \in T : w <= x
<1>1. PICK w \in T : \A x \in T : ~(<<x, w>> \in OpToRel(<, Nat))
  BY NatLessThanWellFounded, WFMin, Zenon
<1>2. \A x \in T : ~(x < w)
  BY <1>1 DEF OpToRel
<1> QED
  BY <1>2

(* begin() of a std::set of pairs that is not empty is one of them, and none *)
(* expires earlier (TimerQueue.cc:122, 136, 146).                            *)
LEMMA FirstIsEarliest ==
  ASSUME NEW S \in SUBSET Entry, S # {}
  PROVE  First(S) \in S /\ \A f \in S : First(S)[1] <= f[1]
<1>0. \A e \in S : e = <<e[1], e[2]>> /\ e[1] \in Nat /\ e[2] \in Nat
  <2> TAKE e \in S
  <2>1. e \in Nat \X Timers
    BY DEF Entry
  <2>2. PICK a \in Nat, b \in Timers : e = <<a, b>>
    BY <2>1
  <2> QED
    BY <2>2, TimersAssumption
<1> DEFINE Times == {e[1] : e \in S}
<1>1. PICK w \in Times : \A x \in Times : w <= x
  <2>1. Times \in SUBSET Nat /\ Times # {}
    BY <1>0
  <2> QED
    BY <2>1, LeastNumber, Zenon
<1> DEFINE Numbers == {e[2] : e \in {d \in S : d[1] = w}}
<1>2. PICK n \in Numbers : \A x \in Numbers : n <= x
  <2>1. Numbers \in SUBSET Nat /\ Numbers # {}
    BY <1>0, <1>1
  <2> QED
    BY <2>1, LeastNumber, Zenon
<1>3. PICK e \in S : e[1] = w /\ e[2] = n
  OBVIOUS
<1>4. \A f \in S : f = e \/ Before(e, f)
  <2> TAKE f \in S
  <2>1. f[1] >= w /\ (f[1] = w => f[2] >= n)
    BY <1>1, <1>2
  <2> QED
    BY <2>1, <1>0, <1>3 DEF Before
<1>5. First(S) \in S /\ \A f \in S : f = First(S) \/ Before(First(S), f)
  BY <1>4 DEF First
<1> QED
  BY <1>0, <1>5 DEF Before

(* The countdown is at least a tick, and an earlier expiration never has the *)
(* longer one (TimerQueue.cc:21-31).                                         *)
LEMMA CountdownMonotone ==
  ASSUME now \in Nat, NEW a \in Nat, NEW b \in Nat
  PROVE  /\ howMachTimeFromNow(a) \in Nat \ {0}
         /\ a <= b => howMachTimeFromNow(a) <= howMachTimeFromNow(b)
         /\ ~valid(a) => howMachTimeFromNow(a) = 1
  BY DEF howMachTimeFromNow, valid

(* Whoever inserts a timer, and wherever in an iteration, the countdown ends  *)
(* in time for it and for the others (TimerQueue.cc:82-89, 142-155).         *)
LEMMA InsertArms ==
  ASSUME TypeOK, ListedTimerArmed, InvalidArmed, CountdownNotLate,
         NEW t \in Timers, NEW when \in Nat,
         addTimerInLoop(t, when), UNCHANGED <<now, jumps, phase>>
  PROVE  /\ remaining' \in Nat /\ readable' \in BOOLEAN
         /\ ListedTimerArmed' /\ InvalidArmed' /\ CountdownNotLate'
<1>1. now \in Nat /\ \A e \in timerlist_ : e[1] \in Nat
  BY TimersAssumption, TimeAssumption DEF TypeOK, Time, Entry
<1>2. \A a \in Nat : howMachTimeFromNow(a)' = howMachTimeFromNow(a)
  BY DEF howMachTimeFromNow
<1>3. timerlist_' = timerlist_ \cup {<<when, t>>} /\ <<when, t>>[1] = when
  BY DEF addTimerInLoop
<1>4. CASE earlyestChange(when)
  <2>1. remaining' = howMachTimeFromNow(when) /\ readable' = FALSE
    BY <1>4 DEF addTimerInLoop, resetTimerfd
  <2>2. remaining' \in Nat \ {0} /\ (~valid(when) => remaining' = 1)
    BY <2>1, <1>1, CountdownMonotone
  <2>3. \A e \in timerlist_ : valid(e[1]) /\ remaining' <= howMachTimeFromNow(e[1])
    <3> TAKE e \in timerlist_
    <3>1. when < e[1] /\ e[1] \in Nat
      BY <1>1, <1>4 DEF earlyestChange
    <3> QED
      BY <3>1, <2>1, <1>1, CountdownMonotone DEF valid
  <2>4. InvalidArmed'
    BY <1>3, <2>2, <2>3 DEF InvalidArmed, valid
  <2>5. CountdownNotLate'
    BY <1>1, <1>2, <1>3, <2>1, <2>2, <2>3 DEF CountdownNotLate
  <2>6. ListedTimerArmed'
    BY <2>2 DEF ListedTimerArmed
  <2>7. remaining' \in Nat /\ readable' \in BOOLEAN
    BY <2>1, <2>2, Zenon
  <2> QED
    BY <2>4, <2>5, <2>6, <2>7
<1>5. CASE ~earlyestChange(when)
  <2>1. UNCHANGED <<remaining, readable>>
    BY <1>5 DEF addTimerInLoop, fdVars
  <2>2. PICK d \in timerlist_ : d[1] <= when /\ d[1] \in Nat
    BY <1>1, <1>5 DEF earlyestChange
  <2>3. InvalidArmed'
    <3>1. (\E e \in timerlist_' : ~valid(e[1])) => \E e \in timerlist_ : ~valid(e[1])
      BY <1>1, <1>3, <2>2 DEF valid
    <3> QED
      BY <2>1, <3>1 DEF InvalidArmed, valid
  <2>4. CountdownNotLate'
    <3>1. howMachTimeFromNow(d[1]) <= howMachTimeFromNow(when)
      BY <2>2, <1>1, CountdownMonotone
    <3>2. \A e \in timerlist_ : howMachTimeFromNow(e[1]) \in Nat
      BY <1>1, CountdownMonotone
    <3>3. howMachTimeFromNow(when) \in Nat /\ remaining \in Nat
      BY <1>1, CountdownMonotone DEF TypeOK
    <3> QED
      BY <1>1, <1>2, <1>3, <2>1, <2>2, <3>1, <3>2, <3>3 DEF CountdownNotLate
  <2>5. ListedTimerArmed'
    BY <2>1, <2>2 DEF ListedTimerArmed
  <2> QED
    BY <2>1, <2>3, <2>4, <2>5 DEF TypeOK
<1> QED
  BY <1>4, <1>5

-----------------------------------------------------------------------------
(* No timer exists at first, and timerfd_ is not armed (TimerQueue.cc:59-66).*)
LEMMA Initiation == Init => IInv
<1> SUFFICES ASSUME Init PROVE IInv
  OBVIOUS
<1> USE TimersAssumption, TimeAssumption DEF Init
<1>1. TypeOK
  <2>1. readable \in BOOLEAN
    BY Zenon
  <2> QED
    BY <2>1 DEF TypeOK, Time
<1>2. OnePlace
  BY DEF OnePlace, Listed, Queued
<1>3. ListedTimerArmed /\ InvalidArmed /\ CountdownNotLate
  BY DEF ListedTimerArmed, InvalidArmed, CountdownNotLate
<1>4. NextRunLater
  BY DEF NextRunLater, Queued
<1> QED
  BY <1>1, <1>2, <1>3, <1>4 DEF IInv

(* runAt, runAfter and runEvery called by the loop thread                    *)
(* (TimerQueue.cc:75-89).                                                    *)
LEMMA AddOwnStep ==
  ASSUME IInv, NEW t \in Timers, NEW when \in Time, addTimerOwn(t, when)
  PROVE  IInv'
<1> USE TimersAssumption, TimeAssumption DEF IInv, handlerVars
<1>1. /\ when \in Nat /\ t \in unborn /\ unborn' = unborn \ {t}
      /\ timerlist_' = timerlist_ \cup {<<when, t>>}
      /\ expiration_' = [expiration_ EXCEPT ![t] = when]
      /\ UNCHANGED <<now, jumps, pendingAdds, phase, snap, todo, done, last>>
  BY DEF addTimerOwn, addTimerInLoop, Time
<1>2. /\ remaining' \in Nat /\ readable' \in BOOLEAN
      /\ ListedTimerArmed' /\ InvalidArmed' /\ CountdownNotLate'
  BY <1>1, InsertArms DEF addTimerOwn
<1>3. OnePlace'
  BY <1>1 DEF OnePlace, TypeOK, Listed, Queued, Entry
<1>4. TypeOK'
  BY <1>1, <1>2, <1>3 DEF TypeOK, OnePlace, Listed, Entry
<1>5. NextRunLater'
  BY <1>1 DEF NextRunLater, OnePlace, TypeOK, Listed, Queued
<1> QED
  BY <1>2, <1>3, <1>4, <1>5

(* The same called by another thread (TimerQueue.cc:75-80).                  *)
LEMMA AddUserStep ==
  ASSUME IInv, NEW t \in Timers, NEW when \in Time, addTimerUser(t, when)
  PROVE  IInv'
<1> USE TimersAssumption, TimeAssumption DEF IInv, handlerVars, fdVars
<1>1. /\ when \in Nat /\ t \in unborn /\ unborn' = unborn \ {t}
      /\ pendingAdds' = Append(pendingAdds, t)
      /\ expiration_' = [expiration_ EXCEPT ![t] = when]
      /\ UNCHANGED <<now, jumps, remaining, readable, timerlist_, phase, snap, todo, done, last>>
  BY DEF addTimerUser, Time
<1>2. /\ pendingAdds' \in Seq(Timers)
      /\ Len(pendingAdds) \in Nat /\ DOMAIN pendingAdds = 1 .. Len(pendingAdds)
      /\ DOMAIN pendingAdds' = 1 .. Len(pendingAdds) + 1
      /\ \A i \in DOMAIN pendingAdds : pendingAdds'[i] = pendingAdds[i]
      /\ pendingAdds'[Len(pendingAdds) + 1] = t
  BY <1>1, AppendProperties, LenProperties DEF TypeOK
<1>3. Queued' = Queued \cup {t} /\ t \notin Queued
  <2>1. t \notin Queued
    BY <1>1 DEF OnePlace
  <2> QED
    BY <1>2, <2>1 DEF Queued
<1>4. OnePlace'
  <2>1. \A i, j \in DOMAIN pendingAdds' : pendingAdds'[i] = pendingAdds'[j] => i = j
    BY <1>2, <1>3 DEF OnePlace, Queued
  <2> QED
    BY <1>1, <1>3, <2>1 DEF OnePlace, TypeOK, Listed
<1>5. TypeOK'
  BY <1>1, <1>2 DEF TypeOK, Entry
<1>6. ListedTimerArmed' /\ InvalidArmed' /\ CountdownNotLate'
  BY <1>1 DEF ListedTimerArmed, InvalidArmed, CountdownNotLate, howMachTimeFromNow, valid
<1>7. NextRunLater'
  BY <1>1, <1>3 DEF NextRunLater
<1> QED
  BY <1>4, <1>5, <1>6, <1>7

(* The functor that the other thread queued (TimerQueue.cc:82-89).           *)
LEMMA AddFunctorStep ==
  ASSUME IInv, addTimerFunctor
  PROVE  IInv'
<1> USE TimersAssumption, TimeAssumption DEF IInv, handlerVars
<1> DEFINE t == Head(pendingAdds)
           when == expiration_[t]
<1>1. /\ pendingAdds # <<>> /\ pendingAdds' = Tail(pendingAdds)
      /\ timerlist_' = timerlist_ \cup {<<when, t>>}
      /\ UNCHANGED <<now, jumps, expiration_, unborn, phase, snap, todo, done, last>>
  BY DEF addTimerFunctor, addTimerInLoop
<1>2. /\ pendingAdds' \in Seq(Timers) /\ t \in Timers /\ t = pendingAdds[1]
      /\ Len(pendingAdds) \in Nat \ {0} /\ DOMAIN pendingAdds = 1 .. Len(pendingAdds)
      /\ DOMAIN pendingAdds' = 1 .. Len(pendingAdds) - 1
      /\ \A i \in DOMAIN pendingAdds' : pendingAdds'[i] = pendingAdds[i + 1]
  BY <1>1, HeadTailProperties, LenProperties, EmptySeq DEF TypeOK
<1>3. t \in Queued /\ Queued' \subseteq Queued /\ t \notin Queued'
  BY <1>2 DEF OnePlace, Queued
<1>4. when \in Nat /\ t \notin unborn /\ last[t] = 0
  BY <1>2, <1>3 DEF TypeOK, OnePlace, NextRunLater
<1> HIDE DEF t, when
<1>5. /\ remaining' \in Nat /\ readable' \in BOOLEAN
      /\ ListedTimerArmed' /\ InvalidArmed' /\ CountdownNotLate'
  <2>1. addTimerInLoop(t, when)
    BY DEF addTimerFunctor, t, when
  <2> QED
    BY <1>1, <1>2, <1>4, <2>1, InsertArms
<1>6. OnePlace'
  <2>1. \A i, j \in DOMAIN pendingAdds' : pendingAdds'[i] = pendingAdds'[j] => i = j
    BY <1>2 DEF OnePlace
  <2>2. \A e \in Listed' : e[1] = expiration_'[e[2]] /\ e[2] \notin unborn' \cup Queued'
    BY <1>1, <1>3, <1>4 DEF OnePlace, Listed, when
  <2> QED
    BY <1>1, <1>3, <2>1, <2>2 DEF OnePlace
<1>7. TypeOK'
  <2>1. \A e \in todo \cup done : e[2] # t
    BY <1>3 DEF OnePlace, Listed
  <2> QED
    BY <1>1, <1>2, <1>4, <1>5, <1>6, <2>1 DEF TypeOK, OnePlace, Listed, Entry
<1>8. NextRunLater'
  BY <1>1, <1>3, <1>4 DEF NextRunLater
<1> QED
  BY <1>5, <1>6, <1>7, <1>8

(* epoll reports timerfd_ (TimerQueue.cc:64-65).                             *)
LEMMA EpollStep ==
  ASSUME IInv, Epoll
  PROVE  IInv'
<1> USE DEF IInv, Epoll, fdVars
<1>1. TypeOK' /\ OnePlace'
  BY DEF TypeOK, OnePlace, Listed, Queued
<1>2. ListedTimerArmed' /\ InvalidArmed' /\ CountdownNotLate'
  BY DEF ListedTimerArmed, InvalidArmed, CountdownNotLate
<1>3. NextRunLater'
  BY DEF NextRunLater, Queued
<1> QED
  BY <1>1, <1>2, <1>3

(* handleRead up to the first callback: what is left in the list expires     *)
(* later than now, so that no invalid expiration is left in it               *)
(* (TimerQueue.cc:91-96, 129-140).                                           *)
LEMMA HandleReadStep ==
  ASSUME IInv, handleRead
  PROVE  IInv'
<1> USE TimersAssumption, TimeAssumption DEF IInv, handleRead
<1>1. todo = {} /\ done = {}
  BY DEF OnePlace
<1>2. /\ todo' = {e \in timerlist_ : e[1] <= now}
      /\ timerlist_' = timerlist_ \ todo'
  BY DEF getexpiration
<1>3. TypeOK'
  <2>1. readable' \in BOOLEAN
    BY Zenon
  <2>2. \A e \in timerlist_', d \in todo' : e[2] # d[2]
    <3> TAKE e \in timerlist_', d \in todo'
    <3>1. e \in Entry /\ d \in Entry /\ e # d /\ e[1] = expiration_[e[2]] /\ d[1] = expiration_[d[2]]
      BY <1>2 DEF TypeOK
    <3> QED
      BY <3>1 DEF Entry
  <2> QED
    BY <1>1, <1>2, <2>1, <2>2 DEF TypeOK, Time
<1>4. OnePlace'
  BY <1>1, <1>2 DEF OnePlace, Listed, Queued
<1>5. ListedTimerArmed' /\ CountdownNotLate'
  BY DEF ListedTimerArmed, CountdownNotLate
<1>6. InvalidArmed'
  <2>1. \A e \in timerlist_' : valid(e[1])
    BY <1>2 DEF TypeOK, Time, Entry, valid
  <2> QED
    BY <2>1 DEF InvalidArmed, valid
<1>7. NextRunLater'
  BY <1>1, <1>2 DEF NextRunLater, Queued
<1> QED
  BY <1>3, <1>4, <1>5, <1>6, <1>7

(* One callback (TimerQueue.cc:98-102).                                      *)
LEMMA RunStep ==
  ASSUME IInv, run
  PROVE  IInv'
<1> USE DEF IInv
<1> DEFINE e == First(todo)
<1>1. e \in todo /\ e \in Entry /\ e[2] \in Timers
  BY FirstIsEarliest DEF run, TypeOK, Entry
<1>2. /\ phase = "run" /\ todo' = todo \ {e} /\ done' = done \cup {e}
      /\ last' = [last EXCEPT ![e[2]] = snap]
      /\ UNCHANGED <<now, jumps, remaining, readable, timerlist_, expiration_, unborn,
                     pendingAdds, phase, snap>>
  BY DEF run, fdVars
<1> HIDE DEF e
<1>3. TypeOK'
  BY <1>1, <1>2 DEF TypeOK
<1>4. OnePlace'
  BY <1>1, <1>2 DEF OnePlace, Listed, Queued
<1>5. ListedTimerArmed' /\ InvalidArmed' /\ CountdownNotLate'
  BY <1>2 DEF ListedTimerArmed, InvalidArmed, CountdownNotLate, valid
<1>6. \A d \in Listed : d # e => d[2] # e[2]
  <2>1. \A d \in Listed : d \in Entry /\ d[1] = expiration_[d[2]]
    BY DEF TypeOK, OnePlace, Listed
  <2> QED
    BY <1>1, <2>1 DEF Entry, Listed
<1>7. NextRunLater'
  <2>1. \A t \in unborn' \cup Queued' : last'[t] = 0
    <3>1. Queued' = Queued /\ Queued \subseteq Timers /\ e[2] \notin unborn \cup Queued
      BY <1>1, <1>2 DEF OnePlace, Listed, Queued, TypeOK
    <3> QED
      BY <1>1, <1>2, <3>1 DEF NextRunLater, TypeOK
  <2>2. \A d \in timerlist_' \cup todo' :
          /\ last'[d[2]] = last[d[2]]
          /\ d \in timerlist_ \cup todo
    BY <1>1, <1>2, <1>6 DEF Listed, TypeOK, Entry, OnePlace
  <2>3. \A d \in done' : last'[d[2]] = snap'
    BY <1>1, <1>2, <1>6 DEF Listed, NextRunLater, TypeOK, Entry
  <2> QED
    BY <1>2, <2>1, <2>2, <2>3 DEF NextRunLater
<1> QED
  BY <1>3, <1>4, <1>5, <1>7

(* reset: the repeating timers go back into the list and timerfd_ is armed   *)
(* for the earliest, unless its expiration is invalid: then the callback     *)
(* that added it has armed timerfd_ already (TimerQueue.cc:107-127).         *)
LEMMA ResetStep ==
  ASSUME IInv, reset
  PROVE  IInv'
<1> USE TimersAssumption, TimeAssumption DEF IInv
<1> DEFINE again == {e[2] : e \in {d \in done : repeat(d[2])}}
           back == {<<restart(t), t>> : t \in again}
           list == timerlist_ \cup back
<1>1. /\ phase = "run" /\ phase' = "idle" /\ todo = {} /\ todo' = {} /\ done' = {}
      /\ expiration_' = [t \in Timers |-> IF t \in again THEN restart(t) ELSE expiration_[t]]
      /\ timerlist_' = list
      /\ Rearm(list)
      /\ UNCHANGED <<now, jumps, unborn, pendingAdds, snap, last>>
  BY DEF reset
<1>2. /\ again \subseteq Timers /\ again \cap (unborn \cup Queued) = {}
      /\ \A t \in again : /\ restart(t) \in Nat /\ valid(restart(t)) /\ repeat(t)
                           /\ last[t] = snap /\ restart(t) = last[t] + Interval[t]
      /\ \A e \in timerlist_ : e[2] \notin again
  <2>1. \A e \in timerlist_ : e[2] \notin again
    BY DEF TypeOK
  <2>2. \A t \in again : \E e \in done : t = e[2] /\ repeat(t)
    OBVIOUS
  <2> HIDE DEF again
  <2>3. ASSUME NEW t \in again
        PROVE  /\ t \in Timers /\ t \notin unborn \cup Queued /\ repeat(t) /\ last[t] = snap
    BY <2>2 DEF TypeOK, OnePlace, Listed, NextRunLater, Entry
  <2>4. \A t \in Timers : repeat(t) => restart(t) \in Nat /\ valid(restart(t))
    BY DEF TypeOK, repeat, restart, valid
  <2>5. \A t \in again : restart(t) = last[t] + Interval[t]
    BY <2>3 DEF restart
  <2> QED
    BY <2>1, <2>3, <2>4, <2>5
<1> HIDE DEF again
<1>3. /\ back \subseteq Entry /\ list \subseteq Entry
      /\ \A e \in back : e[2] \in again /\ e[1] = restart(e[2]) /\ valid(e[1])
  BY <1>2 DEF TypeOK, Entry
<1> HIDE DEF back, list
<1>4. now \in Nat /\ \A e \in list : e[1] \in Nat
  BY <1>3 DEF TypeOK, Time, Entry
<1>5. OnePlace'
  <2>1. \A e \in timerlist_' : e[1] = expiration_'[e[2]] /\ e[2] \notin unborn \cup Queued
    <3> TAKE e \in timerlist_'
    <3>1. CASE e \in timerlist_
      BY <1>1, <1>2, <3>1 DEF TypeOK, OnePlace, Listed, Entry
    <3>2. CASE e \in back
      BY <1>1, <1>2, <1>3, <3>2
    <3> QED
      BY <1>1, <3>1, <3>2 DEF list
  <2> QED
    BY <1>1, <2>1 DEF OnePlace, Listed, Queued
<1>6. /\ remaining' \in Nat /\ readable' \in BOOLEAN
      /\ ListedTimerArmed' /\ CountdownNotLate'
  <2>0. \A a \in Nat : howMachTimeFromNow(a)' = howMachTimeFromNow(a)
    BY <1>1 DEF howMachTimeFromNow
  <2>1. CASE list # {} /\ valid(First(list)[1])
    <3>1. First(list) \in list /\ \A e \in list : First(list)[1] <= e[1]
      BY <1>3, <2>1, FirstIsEarliest
    <3>2. remaining' = howMachTimeFromNow(First(list)[1]) /\ readable' = FALSE
      BY <1>1, <2>1 DEF Rearm, resetTimerfd
    <3>3. remaining' \in Nat \ {0} /\ \A e \in list : remaining' <= howMachTimeFromNow(e[1])
      BY <1>4, <3>1, <3>2, CountdownMonotone
    <3>4. ListedTimerArmed' /\ CountdownNotLate'
      BY <1>1, <1>4, <2>0, <3>3 DEF ListedTimerArmed, CountdownNotLate
    <3>5. readable' \in BOOLEAN
      BY <3>2, Zenon
    <3> QED
      BY <3>3, <3>4, <3>5
  <2>2. CASE list # {} /\ ~valid(First(list)[1])
    <3>1. First(list) \in timerlist_
      BY <1>3, <2>2, FirstIsEarliest DEF list
    <3>2. UNCHANGED <<remaining, readable>>
      BY <1>1, <2>2 DEF Rearm, fdVars
    <3>3. remaining = 1 \/ readable
      BY <1>1, <2>2, <3>1 DEF InvalidArmed
    <3>4. \A e \in list : 1 <= howMachTimeFromNow(e[1])
      BY <1>4, CountdownMonotone
    <3>5. ListedTimerArmed' /\ CountdownNotLate'
      BY <1>1, <1>4, <2>0, <3>2, <3>3, <3>4 DEF ListedTimerArmed, CountdownNotLate
    <3> QED
      BY <3>2, <3>5 DEF TypeOK
  <2>3. CASE list = {}
    <3>1. UNCHANGED <<remaining, readable>>
      BY <1>1, <2>3 DEF Rearm, fdVars
    <3> QED
      BY <1>1, <2>3, <3>1 DEF TypeOK, ListedTimerArmed, CountdownNotLate
  <2> QED
    BY <2>1, <2>2, <2>3
<1>7. TypeOK'
  <2>1. expiration_' \in [Timers -> Nat]
    BY <1>1, <1>2 DEF TypeOK
  <2> QED
    BY <1>1, <1>3, <1>5, <1>6, <2>1 DEF TypeOK, OnePlace, Listed
<1>8. InvalidArmed'
  BY <1>1 DEF InvalidArmed
<1>9. NextRunLater'
  <2>1. \A e \in timerlist_' : last'[e[2]] > 0
                              => repeat(e[2]) /\ e[1] >= last'[e[2]] + Interval[e[2]]
    <3> TAKE e \in timerlist_'
    <3>1. CASE e \in timerlist_
      BY <1>1, <3>1 DEF NextRunLater
    <3>2. CASE e \in back
      <4>1. e[2] \in again /\ e[1] = restart(e[2]) /\ e[2] \in Timers
        BY <1>2, <1>3, <3>2
      <4>2. repeat(e[2]) /\ e[1] = last[e[2]] + Interval[e[2]]
        BY <1>2, <4>1
      <4>3. last[e[2]] \in Nat /\ Interval[e[2]] \in Nat
        BY <4>1 DEF TypeOK
      <4> QED
        BY <1>1, <4>2, <4>3
    <3> QED
      BY <1>1, <3>1, <3>2 DEF list
  <2> QED
    BY <1>1, <2>1 DEF NextRunLater, Queued
<1> QED
  BY <1>5, <1>6, <1>7, <1>8, <1>9

(* A tick of both clocks (the countdown of timerfd_, TimerQueue.cc:42-52).   *)
LEMMA TickStep ==
  ASSUME IInv, Tick
  PROVE  IInv'
<1> USE TimersAssumption, TimeAssumption DEF IInv
<1>1. /\ now' = (IF now < MaxTime THEN now + 1 ELSE now)
      /\ remaining' = (IF remaining > 0 THEN remaining - 1 ELSE 0)
      /\ readable' = (readable \/ remaining = 1)
      /\ UNCHANGED <<jumps, timerlist_, expiration_, unborn, pendingAdds, phase, snap,
                     todo, done, last>>
  BY DEF Tick, handlerVars
<1>2. TypeOK'
  <2>1. readable' \in BOOLEAN
    BY <1>1, Zenon
  <2>2. now' \in Time \ {0} /\ remaining' \in Nat
    BY <1>1 DEF TypeOK, Time
  <2> QED
    BY <1>1, <2>1, <2>2 DEF TypeOK
<1>3. OnePlace' /\ NextRunLater'
  BY <1>1 DEF OnePlace, NextRunLater, Listed, Queued
<1>4. ListedTimerArmed' /\ InvalidArmed'
  <2>1. (readable => readable') /\ (remaining = 1 => readable')
    BY <1>1, Zenon
  <2>2. remaining > 0 => remaining = 1 \/ remaining' > 0
    BY <1>1 DEF TypeOK
  <2> QED
    BY <1>1, <2>1, <2>2 DEF ListedTimerArmed, InvalidArmed, valid
<1>5. CountdownNotLate'
  BY <1>1 DEF TypeOK, Time, Entry, CountdownNotLate, howMachTimeFromNow
<1> QED
  BY <1>2, <1>3, <1>4, <1>5

(* The clock is set (Timestamp.cc, gettimeofday).                            *)
LEMMA JumpStep ==
  ASSUME IInv, NEW time \in Time \ {0}, Jump(time)
  PROVE  IInv'
<1> USE TimersAssumption, TimeAssumption DEF IInv, Jump, fdVars, handlerVars
<1>1. TypeOK'
  BY DEF TypeOK, Time
<1>2. OnePlace' /\ NextRunLater'
  BY DEF OnePlace, NextRunLater, Listed, Queued
<1>3. ListedTimerArmed' /\ InvalidArmed'
  BY DEF ListedTimerArmed, InvalidArmed, valid
<1>4. CountdownNotLate'
  BY DEF TypeOK, CountdownNotLate
<1> QED
  BY <1>1, <1>2, <1>3, <1>4

(* Every step keeps the inductive invariant (TimerQueue.cc:75-155).          *)
LEMMA Consecution == IInv /\ [Next]_vars => IInv'
<1> SUFFICES ASSUME IInv, [Next]_vars PROVE IInv'
  OBVIOUS
<1>1. CASE UNCHANGED vars
  BY <1>1 DEF vars, fdVars, handlerVars, IInv, TypeOK, OnePlace, Listed, Queued,
     ListedTimerArmed, InvalidArmed, CountdownNotLate, howMachTimeFromNow, NextRunLater, valid
<1>2. CASE \E t \in Timers, when \in Time : addTimerOwn(t, when) \/ addTimerUser(t, when)
  BY <1>2, AddOwnStep, AddUserStep
<1>3. CASE LoopStep
  BY <1>3, AddFunctorStep, EpollStep, HandleReadStep, RunStep, ResetStep DEF LoopStep
<1>4. CASE Tick
  BY <1>4, TickStep
<1>5. CASE \E time \in Time \ {0} : Jump(time)
  BY <1>5, JumpStep
<1> QED
  BY <1>1, <1>2, <1>3, <1>4, <1>5 DEF Next

-----------------------------------------------------------------------------
(* The inductive invariant holds of every behaviour.                         *)
THEOREM Invariance == Spec => []IInv
  BY Initiation, Consecution, PTL DEF Spec

(* The types, and every timer in one place: a timer is in the list under its *)
(* own expiration, and not while handleRead has it, which the asserts of     *)
(* getexpiration and insert rely on (TimerQueue.cc:129-155).                 *)
THEOREM TypeCorrect == Spec => []TypeOK
<1>1. IInv => TypeOK
  BY DEF IInv
<1> QED
  BY <1>1, Invariance, PTL

(* A timer in the list has timerfd_ armed or readable when the loop polls,   *)
(* for any timers, added by whomever and whenever, and any clock             *)
(* (TimerQueue.cc:82-127).                                                   *)
THEOREM NoTimerForgotten == Spec => []ListedTimerArmed
<1>1. IInv => ListedTimerArmed
  BY DEF IInv
<1> QED
  BY <1>1, Invariance, PTL

(* Until the clock is set, the countdown does not run past the earliest      *)
(* timer (TimerQueue.cc:21-31, 82-127).                                      *)
THEOREM InTime == Spec => []CountdownNotLate
<1>1. IInv => CountdownNotLate
  BY DEF IInv
<1> QED
  BY <1>1, Invariance, PTL

(* No timer runs twice within its interval, a one-shot never runs twice, by  *)
(* the clock the loop reads and however that is set (TimerQueue.cc:107-120,  *)
(* Timer.cc:5-12).                                                           *)
THEOREM Spaced == Spec => RunsSpaced
<1> DEFINE Step == \A t \in Timers :
                     last[t] > 0 /\ last'[t] # last[t] =>
                       repeat(t) /\ last'[t] >= last[t] + Interval[t]
<1>1. IInv /\ [Next]_vars => [Step]_vars
  <2> SUFFICES ASSUME IInv, [Next]_vars, NEW t \in Timers, last[t] > 0, last'[t] # last[t]
               PROVE  repeat(t) /\ last'[t] >= last[t] + Interval[t]
    OBVIOUS
  <2>1. run
    BY DEF Next, vars, LoopStep, addTimerOwn, addTimerUser, addTimerFunctor, Epoll,
       handleRead, reset, Tick, Jump
  <2> DEFINE e == First(todo)
  <2>2. e \in todo /\ e \in Entry
    BY <2>1, FirstIsEarliest DEF run, IInv, TypeOK
  <2>3. last' = [last EXCEPT ![e[2]] = snap]
    BY <2>1 DEF run
  <2> HIDE DEF e
  <2>4. t = e[2] /\ last'[t] = snap
    BY <2>2, <2>3 DEF IInv, TypeOK
  <2>5. repeat(t) /\ e[1] >= last[t] + Interval[t] /\ e[1] <= snap
    BY <2>2, <2>4 DEF IInv, NextRunLater
  <2> QED
    BY <2>2, <2>4, <2>5, TimersAssumption DEF IInv, TypeOK, Entry
<1> QED
  BY <1>1, Invariance, PTL DEF Spec, RunsSpaced
=============================================================================
