------------------------ MODULE MC_ClassicScheduler ------------------------
EXTENDS ClassicScheduler, TLC
CONSTANTS c1, c2
\* c1 is configured beyond the last priority and clamped to it.
MCConfPrio == [c \in Routines |-> IF c = c1 THEN MaxPrio ELSE 0]
\* Processors are interchangeable, and so are clients.
ThreadSymmetry == Permutations(Processors) \union Permutations(Clients)
=============================================================================
