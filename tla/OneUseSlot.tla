------------------------------ MODULE OneUseSlot ------------------------------
(***************************************************************************)
(* What the Codex broker promises of one approval that two parties may     *)
(* answer: it is open until one of them is allowed to answer; that answer  *)
(* either goes out, is refused before it goes out (and the approval is     *)
(* open again), or ends without proof, which closes the approval for good. *)
(***************************************************************************)
CONSTANTS Approvals

VARIABLES status, by

vars == <<status, by>>

Answerers == {"tui", "ccd"}

Init ==
  /\ status = [k \in Approvals |-> "open"]
  /\ by = [k \in Approvals |-> "nobody"]

Step(k, from, to, who) ==
  /\ status[k] = from
  /\ status' = [status EXCEPT ![k] = to]
  /\ by' = [by EXCEPT ![k] = who]

Answer(k)  == \E r \in Answerers : Step(k, "open", "answering", r)
Written(k) == Step(k, "answering", "answered", by[k])
Refused(k) == Step(k, "answering", "open", "nobody")
GiveUp(k)  == Step(k, "answering", "unproven", by[k])

Next == \E k \in Approvals : Answer(k) \/ Written(k) \/ Refused(k) \/ GiveUp(k)

Spec == Init /\ [][Next]_vars
=============================================================================
