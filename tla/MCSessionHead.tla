---------------------------- MODULE MCSessionHead ----------------------------
(* Instances of the session head for TLC.                                  *)
EXTENDS SessionHead, TLC

\* Threads and keyboard connections are interchangeable.
Symmetry == Permutations(Threads) \cup Permutations(Conns)
=============================================================================
