----------------------- MODULE HierarchicalMutexProofs -----------------------
(***************************************************************************)
(* Deadlock freedom of the hierarchical mutex, for any number of threads   *)
(* and mutexes and any assignment of places.                               *)
(***************************************************************************)
EXTENDS HierarchicalMutex, WellFoundedInduction, TLAPS

(* A thread inside lock() asks for a mutex below all it holds; inside the    *)
(* update it owns such a mutex; inside unlock() it still owns one.           *)
CallInOrder ==
  \A t \in Threads :
    /\ pc[t] \in {"lock", "update"}
         => this_thread_hierarchy_value[t] > hierarchy_value[arg[t]]
    /\ pc[t] \in {"update", "unlock"} => owner[arg[t]] = t

(* What a mutex keeps is the place of the one above it among those its       *)
(* holder has, and no two of them have the same place.                       *)
PreviousIsNextHeld ==
  \A t \in Threads : \A m \in Held(t) :
    /\ previous_hierarchy_value[m] > hierarchy_value[m]
    /\ \A n \in Held(t) :
         /\ hierarchy_value[n] = hierarchy_value[m] => n = m
         /\ hierarchy_value[n] > hierarchy_value[m]
              => hierarchy_value[n] >= previous_hierarchy_value[m]
    /\ \/ previous_hierarchy_value[m] = ULONG_MAX
       \/ \E n \in Held(t) : hierarchy_value[n] = previous_hierarchy_value[m]

IInv == TypeOK /\ CallInOrder /\ LevelIsLowestHeld /\ PreviousIsNextHeld

-----------------------------------------------------------------------------
(* The initial states satisfy the inductive invariant: no thread has locked  *)
(* anything (hieraarchical_mutex.cc:27-30, 56-57).                           *)
LEMMA Initiation == Init => IInv
<1> SUFFICES ASSUME Init PROVE IInv OBVIOUS
<1> USE HierarchyAssumption
<1>1. TypeOK BY DEF Init, TypeOK
<1>2. \A t \in Threads : Held(t) = {} BY DEF Init, Held
<1>3. CallInOrder BY DEF Init, CallInOrder
<1>4. LevelIsLowestHeld BY <1>2 DEF Init, LevelIsLowestHeld
<1>5. PreviousIsNextHeld BY <1>2 DEF PreviousIsNextHeld
<1> QED BY <1>1, <1>3, <1>4, <1>5 DEF IInv

(* A step of one thread that leaves the others' mutexes and place, and what  *)
(* those mutexes keep, as they are needs to be looked at for that thread     *)
(* only (hieraarchical_mutex.cc:13, thread_local).                           *)
LEMMA OtherThreads ==
  ASSUME IInv, NEW t \in Threads,
         \A u \in Threads \ {t} :
            /\ pc'[u] = pc[u] /\ arg'[u] = arg[u]
            /\ this_thread_hierarchy_value'[u] = this_thread_hierarchy_value[u]
            /\ \A m \in Mutexes : owner'[m] = u <=> owner[m] = u,
         \A m \in Mutexes : owner[m] \in Threads \ {t} =>
            previous_hierarchy_value'[m] = previous_hierarchy_value[m]
  PROVE  \A u \in Threads \ {t} :
           /\ Held(u)' = Held(u)
           /\ \A m \in Held(u) : previous_hierarchy_value'[m] = previous_hierarchy_value[m]
<1> TAKE u \in Threads \ {t}
<1>1. Held(u)' = Held(u) BY DEF Held
<1>2. \A m \in Held(u) : previous_hierarchy_value'[m] = previous_hierarchy_value[m]
  BY DEF Held
<1> QED BY <1>1, <1>2

(* Every step of lock(), try_lock() and unlock() keeps the invariant.        *)
LEMMA Consecution == IInv /\ [Next]_vars => IInv'
<1> SUFFICES ASSUME IInv, [Next]_vars PROVE IInv' OBVIOUS
<1> USE HierarchyAssumption
<1>1. CASE UNCHANGED vars
  BY <1>1 DEF vars, IInv, TypeOK, CallInOrder, LevelIsLowestHeld, PreviousIsNextHeld, Held
<1>2. ASSUME NEW t \in Threads, NEW m \in Mutexes, lock(t, m) PROVE IInv'
  <2>1. TypeOK' BY <1>2 DEF lock, Goto, IInv, TypeOK
  <2>2. \A u \in Threads : Held(u)' = Held(u)
    BY <1>2 DEF lock, Goto, IInv, TypeOK, Held
  <2>3. CallInOrder'
    BY <1>2 DEF lock, Goto, check_for_hierarchy_violation, IInv, TypeOK, CallInOrder
  <2>4. LevelIsLowestHeld' BY <1>2, <2>2 DEF lock, IInv, LevelIsLowestHeld
  <2>5. PreviousIsNextHeld' BY <1>2, <2>2 DEF lock, IInv, PreviousIsNextHeld
  <2> QED BY <2>1, <2>3, <2>4, <2>5 DEF IInv
<1>3. ASSUME NEW t \in Threads, NEW m \in Mutexes, Acquire(t, m),
             this_thread_hierarchy_value[t] > hierarchy_value[m],
             pc[t] \in {"run", "lock"}
      PROVE  IInv'
  <2>1. TypeOK' BY <1>3 DEF Acquire, Goto, IInv, TypeOK
  <2>2. \A u \in Threads : Held(u)' = Held(u)
    BY <1>3 DEF Acquire, Goto, IInv, TypeOK, Held
  <2>3. CallInOrder'
    BY <1>3 DEF Acquire, Goto, IInv, TypeOK, CallInOrder
  <2>4. LevelIsLowestHeld' BY <1>3, <2>2 DEF Acquire, IInv, LevelIsLowestHeld
  <2>5. PreviousIsNextHeld' BY <1>3, <2>2 DEF Acquire, IInv, PreviousIsNextHeld
  <2> QED BY <2>1, <2>3, <2>4, <2>5 DEF IInv
<1>4. ASSUME NEW t \in Threads, Unlocked(t) PROVE IInv'
  <2>1. TypeOK' BY <1>4 DEF Unlocked, Goto, IInv, TypeOK
  <2>2. owner[arg[t]] = t BY <1>4 DEF Unlocked, IInv, CallInOrder
  <2>3. \A u \in Threads : Held(u)' = Held(u)
    BY <1>4, <2>2 DEF Unlocked, Goto, IInv, TypeOK, Held
  <2>4. CallInOrder'
    BY <1>4, <2>2 DEF Unlocked, Goto, IInv, TypeOK, CallInOrder
  <2>5. LevelIsLowestHeld' BY <1>4, <2>3 DEF Unlocked, IInv, LevelIsLowestHeld
  <2>6. PreviousIsNextHeld' BY <1>4, <2>3 DEF Unlocked, IInv, PreviousIsNextHeld
  <2> QED BY <2>1, <2>4, <2>5, <2>6 DEF IInv
<1>5. ASSUME NEW t \in Threads, update_hierarchy_value(t) PROVE IInv'
  <2> DEFINE m == arg[t]
             level == this_thread_hierarchy_value[t]
  <2>1. /\ TypeOK /\ m \in Mutexes /\ owner[m] = t /\ m \notin Held(t)
        /\ level > hierarchy_value[m]
    BY <1>5 DEF update_hierarchy_value, IInv, TypeOK, CallInOrder, Held
  <2>2. TypeOK' BY <1>5, <2>1 DEF update_hierarchy_value, Goto, TypeOK
  <2>3. Held(t)' = Held(t) \cup {m}
    BY <1>5, <2>1 DEF update_hierarchy_value, Goto, TypeOK, Held
  <2>4. \A u \in Threads \ {t} :
          /\ Held(u)' = Held(u)
          /\ \A k \in Held(u) : previous_hierarchy_value'[k] = previous_hierarchy_value[k]
          /\ this_thread_hierarchy_value'[u] = this_thread_hierarchy_value[u]
    BY <1>5, <2>1, OtherThreads DEF update_hierarchy_value, Goto, TypeOK
  <2>5. /\ this_thread_hierarchy_value'[t] = hierarchy_value[m]
        /\ previous_hierarchy_value'[m] = level
        /\ \A k \in Held(t) : previous_hierarchy_value'[k] = previous_hierarchy_value[k]
    BY <1>5, <2>1 DEF update_hierarchy_value, TypeOK, Held
  <2>6. CallInOrder'
    BY <1>5, <2>1 DEF update_hierarchy_value, Goto, IInv, TypeOK, CallInOrder
  <2>7. /\ \A k \in Held(t) : level <= hierarchy_value[k]
        /\ level = ULONG_MAX \/ \E k \in Held(t) : level = hierarchy_value[k]
    BY DEF IInv, LevelIsLowestHeld
  <2> HIDE DEF m, level
  <2>8. hierarchy_value[m] \in Nat /\ level \in Nat
        /\ \A k \in Held(t) : k \in Mutexes /\ hierarchy_value[k] \in Nat
    BY <2>1 DEF TypeOK, Held, level
  <2>9. LevelIsLowestHeld'
    <3> SUFFICES ASSUME NEW u \in Threads
                 PROVE  LET l == this_thread_hierarchy_value'[u]
                        IN  /\ \A k \in Held(u)' : l <= hierarchy_value[k]
                            /\ l = ULONG_MAX \/ \E k \in Held(u)' : l = hierarchy_value[k]
      BY DEF LevelIsLowestHeld
    <3>1. CASE u = t BY <3>1, <2>1, <2>3, <2>5, <2>7, <2>8
    <3>2. CASE u # t BY <3>2, <2>4 DEF IInv, LevelIsLowestHeld
    <3> QED BY <3>1, <3>2
  <2>10. PreviousIsNextHeld'
    <3> SUFFICES ASSUME NEW u \in Threads, NEW k \in Held(u)'
                 PROVE  /\ previous_hierarchy_value'[k] > hierarchy_value[k]
                        /\ \A n \in Held(u)' :
                             /\ hierarchy_value[n] = hierarchy_value[k] => n = k
                             /\ hierarchy_value[n] > hierarchy_value[k]
                                  => hierarchy_value[n] >= previous_hierarchy_value'[k]
                        /\ \/ previous_hierarchy_value'[k] = ULONG_MAX
                           \/ \E n \in Held(u)' :
                                hierarchy_value[n] = previous_hierarchy_value'[k]
      BY DEF PreviousIsNextHeld
    <3>1. CASE u = t /\ k = m BY <3>1, <2>1, <2>3, <2>5, <2>7, <2>8
    <3>2. CASE u = t /\ k # m
      <4>1. k \in Held(t) BY <3>2, <2>3
      <4>2. hierarchy_value[m] < hierarchy_value[k] BY <4>1, <2>1, <2>7, <2>8
      <4> QED BY <3>2, <4>1, <4>2, <2>3, <2>5, <2>8 DEF IInv, PreviousIsNextHeld
    <3>3. CASE u # t BY <3>3, <2>4 DEF IInv, PreviousIsNextHeld
    <3> QED BY <3>1, <3>2, <3>3
  <2> QED BY <2>2, <2>6, <2>9, <2>10 DEF IInv
<1>6. ASSUME NEW t \in Threads, NEW m \in Mutexes, unlock(t, m) PROVE IInv'
  <2>1. /\ TypeOK /\ m \in Held(t) /\ pc[t] = "run"
        /\ this_thread_hierarchy_value[t] = hierarchy_value[m]
    BY <1>6 DEF unlock, IInv, Held
  <2>2. TypeOK' BY <1>6, <2>1 DEF unlock, Goto, TypeOK
  <2>3. Held(t)' = Held(t) \ {m}
    BY <1>6, <2>1 DEF unlock, Goto, TypeOK, Held
  <2>4. \A u \in Threads \ {t} :
          Held(u)' = Held(u) /\ this_thread_hierarchy_value'[u] = this_thread_hierarchy_value[u]
    BY <1>6, <2>1, OtherThreads DEF unlock, Goto, TypeOK
  <2>5. /\ this_thread_hierarchy_value'[t] = previous_hierarchy_value[m]
        /\ previous_hierarchy_value' = previous_hierarchy_value
    BY <1>6, <2>1 DEF unlock, TypeOK
  <2>6. CallInOrder'
    BY <1>6, <2>1 DEF unlock, Goto, IInv, TypeOK, CallInOrder
  <2>7. \A k \in Held(t) :
          k \in Mutexes /\ hierarchy_value[k] \in Nat /\ previous_hierarchy_value[k] \in Nat
    BY <2>1 DEF TypeOK, Held
  <2>8. \A k \in Held(t) \ {m} : hierarchy_value[k] > hierarchy_value[m]
    <3> TAKE k \in Held(t) \ {m}
    <3>1. hierarchy_value[m] <= hierarchy_value[k]
      BY <2>1 DEF IInv, LevelIsLowestHeld
    <3>2. hierarchy_value[m] # hierarchy_value[k]
      BY <2>1 DEF IInv, PreviousIsNextHeld
    <3> QED BY <3>1, <3>2, <2>1, <2>7
  <2>9. LevelIsLowestHeld'
    <3> SUFFICES ASSUME NEW u \in Threads
                 PROVE  LET l == this_thread_hierarchy_value'[u]
                        IN  /\ \A k \in Held(u)' : l <= hierarchy_value[k]
                            /\ l = ULONG_MAX \/ \E k \in Held(u)' : l = hierarchy_value[k]
      BY DEF LevelIsLowestHeld
    <3>1. CASE u = t
      <4>1. \A k \in Held(t) \ {m} : previous_hierarchy_value[m] <= hierarchy_value[k]
        BY <2>1, <2>7, <2>8 DEF IInv, PreviousIsNextHeld
      <4>2. \/ previous_hierarchy_value[m] = ULONG_MAX
            \/ \E n \in Held(t) \ {m} : hierarchy_value[n] = previous_hierarchy_value[m]
        BY <2>1, <2>7 DEF IInv, PreviousIsNextHeld
      <4> QED BY <3>1, <4>1, <4>2, <2>3, <2>5
    <3>2. CASE u # t BY <3>2, <2>4 DEF IInv, LevelIsLowestHeld
    <3> QED BY <3>1, <3>2
  <2>10. PreviousIsNextHeld'
    <3> SUFFICES ASSUME NEW u \in Threads, NEW k \in Held(u)'
                 PROVE  /\ previous_hierarchy_value[k] > hierarchy_value[k]
                        /\ \A n \in Held(u)' :
                             /\ hierarchy_value[n] = hierarchy_value[k] => n = k
                             /\ hierarchy_value[n] > hierarchy_value[k]
                                  => hierarchy_value[n] >= previous_hierarchy_value[k]
                        /\ \/ previous_hierarchy_value[k] = ULONG_MAX
                           \/ \E n \in Held(u)' :
                                hierarchy_value[n] = previous_hierarchy_value[k]
      BY <2>5 DEF PreviousIsNextHeld
    <3>1. CASE u = t
      <4>1. k \in Held(t) /\ k # m BY <3>1, <2>3
      <4>2. ASSUME NEW n \in Held(t), hierarchy_value[n] = previous_hierarchy_value[k]
            PROVE  n # m
        <5>1. previous_hierarchy_value[k] > hierarchy_value[k]
          BY <4>1 DEF IInv, PreviousIsNextHeld
        <5> QED BY <4>1, <4>2, <5>1, <2>1, <2>7, <2>8
      <4> QED BY <3>1, <4>1, <4>2, <2>3 DEF IInv, PreviousIsNextHeld
    <3>2. CASE u # t BY <3>2, <2>4 DEF IInv, PreviousIsNextHeld
    <3> QED BY <3>1, <3>2
  <2> QED BY <2>2, <2>6, <2>9, <2>10 DEF IInv
<1>7. ASSUME NEW t \in Threads, Locked(t) PROVE IInv'
  <2>1. /\ arg[t] \in Mutexes /\ Acquire(t, arg[t]) /\ pc[t] \in {"run", "lock"}
        /\ this_thread_hierarchy_value[t] > hierarchy_value[arg[t]]
    BY <1>7 DEF Locked, IInv, TypeOK, CallInOrder
  <2> QED BY <2>1, <1>3
<1>8. ASSUME NEW t \in Threads, NEW m \in Mutexes, try_lock(t, m) PROVE IInv'
  <2>1. /\ Acquire(t, m) /\ pc[t] \in {"run", "lock"}
        /\ this_thread_hierarchy_value[t] > hierarchy_value[m]
    BY <1>8 DEF try_lock, check_for_hierarchy_violation, IInv, TypeOK
  <2> QED BY <2>1, <1>3
<1> QED BY <1>1, <1>2, <1>4, <1>5, <1>6, <1>7, <1>8 DEF Next

-----------------------------------------------------------------------------
(* The inductive invariant holds of every behaviour of the mutexes.          *)
THEOREM Invariance == Spec => []IInv
BY Initiation, Consecution, PTL DEF Spec

(* The types: every hierarchy value, saved or current, is one that a mutex    *)
(* or a thread without one can have (hieraarchical_mutex.cc:7-13, 27-57).    *)
THEOREM TypeCorrect == Spec => []TypeOK
<1>1. IInv => TypeOK BY DEF IInv
<1> QED BY <1>1, Invariance, PTL

(* The thread-local value is always that of the lowest mutex held, however   *)
(* calls of lock(), try_lock() and unlock() are nested and interleaved       *)
(* (hieraarchical_mutex.cc:21-24, 38-44).                                    *)
THEOREM LevelCorrect == Spec => []LevelIsLowestHeld
<1>1. IInv => LevelIsLowestHeld BY DEF IInv
<1> QED BY <1>1, Invariance, PTL

(* A blocked thread that holds the mutex another one waits for is itself     *)
(* waiting for a lower one (hieraarchical_mutex.cc:15-19).                   *)
LEMMA WaitsDescend ==
  ASSUME IInv, NEW t \in Threads, NEW u \in Threads,
         Blocked(t), Blocked(u), owner[arg[t]] = u
  PROVE  hierarchy_value[arg[u]] < hierarchy_value[arg[t]]
<1> USE HierarchyAssumption
<1>1. arg[t] \in Mutexes /\ arg[t] \in Held(u) /\ arg[u] \in Mutexes
  BY DEF IInv, TypeOK, Blocked, Held
<1>2. this_thread_hierarchy_value[u] <= hierarchy_value[arg[t]]
  BY <1>1 DEF IInv, LevelIsLowestHeld
<1>3. this_thread_hierarchy_value[u] > hierarchy_value[arg[u]]
  BY DEF IInv, CallInOrder, Blocked
<1>4. this_thread_hierarchy_value[u] \in Nat BY DEF IInv, TypeOK
<1> QED BY <1>1, <1>2, <1>3, <1>4

(* Threads never wait for each other in a cycle: of the blocked threads, the *)
(* one that waits for the lowest mutex waits for a thread that can go on     *)
(* (hieraarchical_mutex.cc:15-19, 32-36).                                    *)
THEOREM DeadlockFree == Spec => []NoWaitCycle
<1>1. IInv => NoWaitCycle
  <2> SUFFICES ASSUME IInv, \E t \in Threads : Blocked(t)
               PROVE  \E u \in Threads : ~Blocked(u) /\ \E m \in Mutexes : owner[m] = u
    BY DEF NoWaitCycle
  <2> USE HierarchyAssumption
  <2> DEFINE P == {hierarchy_value[arg[t]] : t \in {u \in Threads : Blocked(u)}}
  <2>1. P \subseteq Nat /\ P # {} BY DEF IInv, TypeOK
  <2> HIDE DEF P
  <2>2. PICK v \in P : \A w \in P : ~(<<w, v>> \in OpToRel(<, Nat))
    BY <2>1, NatLessThanWellFounded, WFMin, Zenon
  <2>3. \A w \in P : ~(w < v) BY <2>1, <2>2 DEF OpToRel
  <2>4. PICK t \in Threads : Blocked(t) /\ v = hierarchy_value[arg[t]] BY DEF P
  <2>5. PICK u \in Threads : owner[arg[t]] = u /\ arg[t] \in Mutexes
    BY <2>4 DEF IInv, TypeOK, Blocked
  <2>6. ~Blocked(u)
    <3> SUFFICES ASSUME Blocked(u) PROVE FALSE OBVIOUS
    <3>1. hierarchy_value[arg[u]] < v BY <2>4, <2>5, WaitsDescend
    <3>2. hierarchy_value[arg[u]] \in P BY DEF P
    <3> QED BY <3>1, <3>2, <2>3
  <2> QED BY <2>5, <2>6
<1> QED BY <1>1, Invariance, PTL
=============================================================================
