----------------------------- MODULE MCHeadFanout -----------------------------
(* HeadFanout for TLC: threads and legs of one role are interchangeable.   *)
EXTENDS HeadFanout, TLC

Symmetry == Permutations(Threads) \cup Permutations(Conns) \cup Permutations(Ccds)
=============================================================================
