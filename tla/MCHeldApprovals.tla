--------------------------- MODULE MCHeldApprovals ---------------------------
(* HeldApprovals for TLC: phones are interchangeable, and so are the tasks     *)
(* that close cards.                                                           *)
EXTENDS HeldApprovals, TLC

AllCards == [question : BOOLEAN, fork : BOOLEAN]
\* A background agent's approval, and a question of the main conversation.
TwoCards == {[question |-> FALSE, fork |-> TRUE], [question |-> TRUE, fork |-> FALSE]}

AnApproval == {[question |-> FALSE, fork |-> TRUE]}

Symmetry == Permutations(Hooks) \cup Permutations(Taps) \cup Permutations(Closers)
=============================================================================
