------------------------- MODULE HierarchicalMutex -------------------------
(***************************************************************************)
(* thread/hieraarchical_mutex.cc: mutexes with a place in a hierarchy, and *)
(* a thread-local value, the place of the mutex the thread locked last.    *)
(* lock() and unlock() are one step for each access to internal_mutex, so  *)
(* that other threads come in between.  An exception leaves everything as  *)
(* it was, and so does a try_lock() that fails: neither is a step.         *)
(***************************************************************************)
EXTENDS Naturals

CONSTANTS
  Threads,
  Mutexes,
  hierarchy_value,  \* function: the place each mutex was constructed with
  ULONG_MAX,
  NoThread

ASSUME HierarchyAssumption ==
  /\ ULONG_MAX \in Nat
  /\ hierarchy_value \in [Mutexes -> 0 .. ULONG_MAX]
  /\ NoThread \notin Threads

VARIABLES
  owner,                        \* internal_mutex of each mutex: who holds it
  previous_hierarchy_value,     \* of each mutex
  this_thread_hierarchy_value,  \* of each thread
  pc,     \* "run": in no call; "lock", "update", "unlock": inside of one
  arg     \* the mutex of the call

vars == <<owner, previous_hierarchy_value, this_thread_hierarchy_value, pc, arg>>

Init ==
  /\ owner = [m \in Mutexes |-> NoThread]
  /\ previous_hierarchy_value = [m \in Mutexes |-> 0]
  /\ this_thread_hierarchy_value = [t \in Threads |-> ULONG_MAX]
  /\ pc = [t \in Threads |-> "run"]
  /\ arg \in [Threads -> Mutexes]

Goto(t, where, m) == pc' = [pc EXCEPT ![t] = where] /\ arg' = [arg EXCEPT ![t] = m]

-----------------------------------------------------------------------------
(* Fault: a mutex of the same place passes.                                  *)
check_for_hierarchy_violation_Equal(t, m) ==
  this_thread_hierarchy_value[t] < hierarchy_value[m]

(* lock() and try_lock() throw when it is TRUE.                              *)
check_for_hierarchy_violation(t, m) ==
  this_thread_hierarchy_value[t] <= hierarchy_value[m]

(* lock() up to internal_mutex.lock(), which blocks while m is held.         *)
lock(t, m) ==
  /\ pc[t] = "run"
  /\ ~check_for_hierarchy_violation(t, m)
  /\ Goto(t, "lock", m)
  /\ UNCHANGED <<owner, previous_hierarchy_value, this_thread_hierarchy_value>>

Acquire(t, m) ==
  /\ owner[m] = NoThread
  /\ owner' = [owner EXCEPT ![m] = t]
  /\ Goto(t, "update", m)
  /\ UNCHANGED <<previous_hierarchy_value, this_thread_hierarchy_value>>

Locked(t) == pc[t] = "lock" /\ Acquire(t, arg[t])

try_lock(t, m) ==
  /\ pc[t] = "run"
  /\ ~check_for_hierarchy_violation(t, m)
  /\ Acquire(t, m)

(* Fault: the value to go back to is not kept.                               *)
update_hierarchy_value_NotKept(t) ==
  /\ pc[t] = "update"
  /\ this_thread_hierarchy_value' =
       [this_thread_hierarchy_value EXCEPT ![t] = hierarchy_value[arg[t]]]
  /\ Goto(t, "run", arg[t])
  /\ UNCHANGED <<owner, previous_hierarchy_value>>

update_hierarchy_value(t) ==
  /\ pc[t] = "update"
  /\ previous_hierarchy_value' =
       [previous_hierarchy_value EXCEPT ![arg[t]] = this_thread_hierarchy_value[t]]
  /\ this_thread_hierarchy_value' =
       [this_thread_hierarchy_value EXCEPT ![t] = hierarchy_value[arg[t]]]
  /\ Goto(t, "run", arg[t])
  /\ UNCHANGED owner

(* A thread unlocks a mutex it holds, in any order; unlock() throws when     *)
(* another one was locked after it.                                          *)
unlock(t, m) ==
  /\ pc[t] = "run"
  /\ owner[m] = t
  /\ this_thread_hierarchy_value[t] = hierarchy_value[m]
  /\ this_thread_hierarchy_value' =
       [this_thread_hierarchy_value EXCEPT ![t] = previous_hierarchy_value[m]]
  /\ Goto(t, "unlock", m)
  /\ UNCHANGED <<owner, previous_hierarchy_value>>

Unlocked(t) ==
  /\ pc[t] = "unlock"
  /\ owner' = [owner EXCEPT ![arg[t]] = NoThread]
  /\ Goto(t, "run", arg[t])
  /\ UNCHANGED <<previous_hierarchy_value, this_thread_hierarchy_value>>

-----------------------------------------------------------------------------
Next ==
  \E t \in Threads :
    \/ Locked(t)
    \/ update_hierarchy_value(t)
    \/ Unlocked(t)
    \/ \E m \in Mutexes : lock(t, m) \/ try_lock(t, m) \/ unlock(t, m)

Spec == Init /\ [][Next]_vars

-----------------------------------------------------------------------------
(* Properties.                                                               *)

(* The types.                                                                *)
TypeOK ==
  /\ owner \in [Mutexes -> Threads \cup {NoThread}]
  /\ previous_hierarchy_value \in [Mutexes -> 0 .. ULONG_MAX]
  /\ this_thread_hierarchy_value \in [Threads -> 0 .. ULONG_MAX]
  /\ pc \in [Threads -> {"run", "lock", "update", "unlock"}]
  /\ arg \in [Threads -> Mutexes]

Blocked(t) == pc[t] = "lock" /\ owner[arg[t]] # NoThread

(* Whatever the threads lock and unlock, they never wait for each other in a *)
(* cycle, of which a thread that locks a mutex twice would be the shortest:  *)
(* while anybody is blocked, there is a thread that holds a mutex and is not *)
(* (hieraarchical_mutex.cc:15-19, 32-36).                                    *)
NoWaitCycle ==
  (\E t \in Threads : Blocked(t))
    => \E u \in Threads : ~Blocked(u) /\ \E m \in Mutexes : owner[m] = u

(* The mutexes a thread has completely locked.                               *)
Held(t) == {m \in Mutexes : /\ owner[m] = t
                            /\ ~(pc[t] \in {"update", "unlock"} /\ arg[t] = m)}

(* The thread-local value is that of the lowest mutex the thread holds, and  *)
(* ULONG_MAX when it holds none: after any nest of lock, try_lock and unlock *)
(* a thread is refused exactly what it may not lock                          *)
(* (hieraarchical_mutex.cc:21-24, 38-44).                                    *)
LevelIsLowestHeld ==
  \A t \in Threads :
    LET level == this_thread_hierarchy_value[t]
    IN  /\ \A m \in Held(t) : level <= hierarchy_value[m]
        /\ level = ULONG_MAX \/ \E m \in Held(t) : level = hierarchy_value[m]
=============================================================================
