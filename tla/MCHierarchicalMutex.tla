------------------------ MODULE MCHierarchicalMutex ------------------------
(* Four mutexes, two of them at the same place, the lowest at place 0.     *)
EXTENDS HierarchicalMutex

MCMutexes == {"high", "mid1", "mid2", "low"}
MCValues == [m \in MCMutexes |-> CASE m = "high" -> 4 [] m = "low" -> 0 [] OTHER -> 2]
=============================================================================
