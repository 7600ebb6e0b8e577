----------------------------- MODULE ByteQueue -----------------------------
(* What a Buffer promises its users: a queue of bytes, filled at the back    *)
(* (append, readFd), drained at the front (retrieve, retrieveAll), where a   *)
(* header can still be put in front (prepend).                               *)
EXTENDS Naturals, Sequences

CONSTANTS Byte, MaxLen

VARIABLE q

Chunk == UNION {[1 .. n -> Byte] : n \in 0 .. MaxLen}

Init == q = <<>>

Put(s) == q' = q \o s
Take(n) == n \in 0 .. Len(q) /\ q' = SubSeq(q, n + 1, Len(q))
PushFront(s) == q' = s \o q

Next ==
  \/ \E s \in Chunk : Put(s) \/ PushFront(s)
  \/ \E n \in 0 .. Len(q) : Take(n)

Spec == Init /\ [][Next]_q
=============================================================================
