---------------------------- MODULE MCEventStream ----------------------------
(* EventStream for TLC, as it stands.                                      *)
EXTENDS EventStream
=============================================================================
