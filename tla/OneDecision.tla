----------------------------- MODULE OneDecision -----------------------------
(***************************************************************************)
(* What the daemon promises of one permission request that the Mac and     *)
(* some phones may decide, with nothing said of hooks, channels, tables or *)
(* restarts.                                                               *)
(*                                                                         *)
(* Claude decides once: as the Mac says, or as one phone's decision says.  *)
(* A phone's decision is sent only while no other is on its way; one that  *)
(* was reported unused is never acted on; and what was sent is not         *)
(* unsent.  At most one outcome is recorded, and never replaced.  An       *)
(* outcome recorded for sure is what happened, and what Claude took from a *)
(* phone is not put down to the Mac, unless a write failed.                *)
(***************************************************************************)
CONSTANTS Phones

VARIABLES
  call,     \* "asking", or what Claude did with the call
  took,     \* the phone whose decision it did, or "none"
  sent,     \* what each phone's decision said, once it was sent
  unused,   \* phones that were told that their decision was not used
  outcome,  \* what is recorded
  failed    \* a write has failed

vars == <<call, took, sent, unused, outcome, failed>>

Sent(p) == sent[p] # "none"
Acts(d) == IF d = "take" THEN "take" ELSE "rejected"
Fits(d) == call \in (IF d = "take" THEN {"take", "other"} ELSE {"rejected"})
Recorded == outcome.by # "none"

Init ==
  /\ call = "asking" /\ took = "none"
  /\ sent = [p \in Phones |-> "none"] /\ unused = {}
  /\ outcome = [by |-> "none"] /\ failed = FALSE

MacDecides ==
  /\ call = "asking" /\ call' \in {"take", "other", "rejected"}
  /\ UNCHANGED <<took, sent, unused, outcome, failed>>

Send(p, d) ==
  /\ ~Sent(p)
  /\ \A q \in Phones : Sent(q) => q \in unused
  /\ sent' = [sent EXCEPT ![p] = d]
  /\ UNCHANGED <<call, took, unused, outcome, failed>>

ReportUnused(p) ==
  /\ Sent(p) /\ p # took
  /\ unused' = unused \cup {p}
  /\ UNCHANGED <<call, took, sent, outcome, failed>>

ClaudeTakes(p) ==
  /\ took' = p
  /\ call = "asking" /\ Sent(p) /\ p \notin unused
  /\ Recorded => outcome.by = "phone" \/ failed
  /\ call' = Acts(sent[p])
  /\ UNCHANGED <<sent, unused, outcome, failed>>

Record(o) ==
  /\ ~Recorded /\ outcome' = o
  /\ o.sure => Fits(o.d)
  /\ o.sure /\ o.by = "phone" => \E p \in Phones \ unused : sent[p] = o.d
  /\ took # "none" => o.by = "phone" \/ failed
  /\ UNCHANGED <<call, took, sent, unused, failed>>

WriteFails == failed' = TRUE /\ UNCHANGED <<call, took, sent, unused, outcome>>

Next ==
  \/ MacDecides \/ WriteFails
  \/ \E p \in Phones : ReportUnused(p) \/ ClaudeTakes(p) \/ \E d \in {"take", "refuse"} : Send(p, d)
  \/ \E o \in [by : {"phone", "mac"}, d : {"take", "refuse"}, sure : BOOLEAN] : Record(o)

Spec == Init /\ [][Next]_vars
=============================================================================
