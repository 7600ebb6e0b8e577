-------------------------------- MODULE Fifo --------------------------------
(***************************************************************************)
(* What the queues of thread/, and an event loop as the queue of its       *)
(* functors, promise to the threads that share one: every item goes in     *)
(* once, comes out once, to one thread, and items come out in the order    *)
(* they went in, each call taking effect in one step.                      *)
(***************************************************************************)
EXTENDS Sequences

CONSTANTS Threads, Items

VARIABLES
  q,       \* the items in the queue, oldest first
  pushed,  \* the items that have ever gone in
  got      \* for each thread, the items it has taken out

vars == <<q, pushed, got>>

Init ==
  /\ q = <<>>
  /\ pushed = {}
  /\ got = [t \in Threads |-> <<>>]

Enqueue(x) ==
  /\ x \notin pushed
  /\ pushed' = pushed \cup {x}
  /\ q' = Append(q, x)
  /\ UNCHANGED got

Dequeue(t) ==
  /\ q # <<>>
  /\ q' = Tail(q)
  /\ got' = [got EXCEPT ![t] = Append(@, Head(q))]
  /\ UNCHANGED pushed

Next == (\E x \in Items : Enqueue(x)) \/ (\E t \in Threads : Dequeue(t))

Spec == Init /\ [][Next]_vars
=============================================================================
