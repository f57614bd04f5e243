------------------------------ MODULE MCPushGate ------------------------------
(* PushGate for TLC: notifications are interchangeable.                        *)
EXTENDS PushGate, TLC

Symmetry == Permutations(Notices)
=============================================================================
