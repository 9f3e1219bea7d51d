--------------------------- MODULE MCSharedSockets ----------------------------
(* SharedSockets for TLC.  The processes, the tuples and the kernel's open *)
(* file descriptions are interchangeable in the safety runs.               *)
EXTENDS SharedSockets, TLC

Symmetry == Permutations(Clients) \cup Permutations(Keys) \cup Permutations(OFDs)
===============================================================================
