------------------------------ MODULE MCLogger ------------------------------
(* Statements around the limits: the smallest and the largest number, a text *)
(* with which the line number does not fit, one after which nothing fits,    *)
(* and one that does not fit itself.                                         *)
EXTENDS Logger

MCStatements ==
  {<<Int10(INT_MIN)>>, <<Pointer(255)>>, <<Text(19)>>, <<Text(24)>>, <<Text(25), Text(4)>>,
   <<Text(12), Pointer(0), Pointer(16), Int10(UINTPTR_MAX)>>}

Symmetry == Permutations(Threads)
=============================================================================
