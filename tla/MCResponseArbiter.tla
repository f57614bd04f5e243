-------------------------- MODULE MCResponseArbiter --------------------------
(* Instances of the response arbiter for TLC.                              *)
EXTENDS ResponseArbiter, TLC

\* Legs of one role, request ids and threads are interchangeable in every
\* invariant, so states that differ by renaming them are one state.
Symmetry ==
  Permutations(Threads) \cup Permutations(Ids) \cup Permutations(TuiLegs) \cup Permutations(CcdLegs)
=============================================================================
