----------------------------- MODULE MCDeviceQueue -----------------------------
(* DeviceQueue for TLC: doorbells are interchangeable, tests too.              *)
EXTENDS DeviceQueue, TLC

Symmetry == Permutations(Bells) \cup Permutations(Tests)
=============================================================================
