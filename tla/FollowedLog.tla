----------------------------- MODULE FollowedLog -----------------------------
(***************************************************************************)
(* What the daemon promises of its event logs and the phones that follow   *)
(* them, with nothing said of publishers, the broadcast ring, pages or     *)
(* replays: a log only grows, also over a restart; a phone that follows a  *)
(* session is sent the event after the last one it has, and only when that *)
(* event is in the log.  A phone may stop at any time, alone or because    *)
(* the daemon died; it comes back with the number of the last event it     *)
(* has.                                                                    *)
(***************************************************************************)
EXTENDS Integers

CONSTANTS Sessions, Phones

VARIABLES
  log,      \* how many events of each session are durable
  deleted,  \* sessions that are gone
  cursor    \* the last event each phone has of a session, None if not followed

vars == <<log, deleted, cursor>>

None == -1

Init ==
  /\ log = [s \in Sessions |-> 0]
  /\ deleted = {}
  /\ cursor = [p \in Phones |-> [s \in Sessions |-> None]]

Grow(s) ==
  /\ s \notin deleted
  /\ log'[s] > log[s]
  /\ log' = [log EXCEPT ![s] = log'[s]]
  /\ UNCHANGED <<deleted, cursor>>

Follow(p, s) ==
  /\ s \notin deleted
  /\ cursor'[p][s] \in Nat
  /\ cursor' = [cursor EXCEPT ![p][s] = cursor'[p][s]]
  /\ UNCHANGED <<log, deleted>>

Deliver(p, s) ==
  /\ cursor[p][s] # None /\ cursor[p][s] < log[s]
  /\ cursor' = [cursor EXCEPT ![p][s] = @ + 1]
  /\ UNCHANGED <<log, deleted>>

\* The pairs in F stop; with a deletion, or without one.
Stop(F) ==
  /\ cursor' = [p \in Phones |-> [s \in Sessions |-> IF <<p, s>> \in F THEN None ELSE cursor[p][s]]]
  /\ deleted' \in {deleted} \cup {deleted \cup {s} : s \in Sessions}
  /\ UNCHANGED log

Next ==
  \/ \E s \in Sessions : Grow(s)
  \/ \E p \in Phones, s \in Sessions : Deliver(p, s) \/ Follow(p, s)
  \/ \E F \in SUBSET (Phones \X Sessions) : Stop(F)

Spec == Init /\ [][Next]_vars
=============================================================================
