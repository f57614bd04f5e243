---------------------------- MODULE MCSessionTurns ----------------------------
(* SessionTurns for TLC: threads, ids and legs of one role are interchangeable. *)
EXTENDS SessionTurns, TLC

Symmetry == Permutations(Threads) \cup Permutations(Ids) \cup Permutations(Keyboards) \cup Permutations(Phones)
=============================================================================
