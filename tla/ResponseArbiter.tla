--------------------------- MODULE ResponseArbiter ---------------------------
(***************************************************************************)
(* The Codex broker's one-use response capability, end to end.             *)
(*                                                                         *)
(* The app-server asks for an approval on every connection it has.  Each   *)
(* client connection of the broker is a leg: the keyboard's (tui.sock) or  *)
(* the daemon's (ccd.sock).  A leg keeps a private view of the request ids *)
(* it was handed; one arbiter, shared by all legs, holds the one-use slot  *)
(* of each approval.  The first answer reserves the slot; its bytes then   *)
(* go through a bounded channel to the leg's upstream pump, and only the   *)
(* pump's receipt turns the reservation into a win or gives it back.  A    *)
(* daemon leg is finally told what became of its answer.                   *)
(*                                                                         *)
(* Sources: codex-broker/src/response_capability.rs, relay.rs, upstream.rs *)
(* and refusal.rs (classify_response).                                     *)
(***************************************************************************)
EXTENDS Integers, FiniteSets

CONSTANTS
  Threads,        \* Codex thread ids
  Ids,            \* server-chosen request ids
  TuiLegs,        \* keyboard connections (the /resume picker opens a second)
  CcdLegs,        \* daemon connections
  MaxTrackedIds,  \* MAX_TRACKED_IDS: ids one leg's view holds
  MaxWinners      \* MAX_WINNERS: slots the arbiter holds

NoThread   == "no-thread"
NoId       == "no-id"
Unseen     == "unseen"
Tombstoned == "tombstoned"

ASSUME ArbiterAssumption ==
  /\ TuiLegs \cap CcdLegs = {}
  /\ {NoThread, Unseen, Tombstoned} \cap Threads = {}
  /\ NoId \notin Ids
  /\ MaxTrackedIds \in Nat
  /\ MaxWinners \in Nat

Legs == TuiLegs \cup CcdLegs
Role == {"tui", "ccd"}
RoleOf(c) == IF c \in TuiLegs THEN "tui" ELSE "ccd"

\* UpstreamRequestKey, with the one generation that exists today.
Keys == Threads \X Ids

Free         == [st |-> "free",      role |-> "nobody"]
Reserved(r)  == [st |-> "reserved",  role |-> r]
Confirmed(r) == [st |-> "confirmed", role |-> r]
SlotState == {Free} \cup {Reserved(r) : r \in Role} \cup {Confirmed(r) : r \in Role}

VARIABLES
  head,      \* the thread the keyboard is on, or NoThread
  slots,     \* ResponseArbiter.winners
  view,      \* LegCapabilities.view, per leg
  poisoned,  \* LegCapabilities.poisoned, per leg
  open,      \* the leg's task is running
  pump,      \* the leg's upstream pump: "up", "ending" (write refused) or "gone"
  stage,     \* where the leg's task is in the answer it is handling
  ans,       \* the request id of that answer, or NoId
  checked,   \* the head that answer was checked against (phone legs)
  receipt,   \* the pump's acknowledgement of that answer's write
  outcome,   \* WriteOutcome of that answer
  closing,   \* close_after_disposition
  won,       \* history: that answer took its slot
  asked,     \* history: server requests this leg saw under each id (0, 1, many)
  answers    \* history: the arbitrated answers whose bytes left, or may have

legVars  == <<view, poisoned, open>>
taskVars == <<stage, ans, checked, receipt, outcome, closing, won>>
vars == <<head, slots, view, poisoned, open, pump, stage, ans, checked, receipt,
          outcome, closing, won, asked, answers>>

Stages   == {"idle", "checked", "handoff", "receipt", "tell"}
Outcomes == {"none", "delivered", "failed", "unconfirmed", "not_forwarded"}
Fates    == {"written", "unproven"}

TypeOK ==
  /\ head \in Threads \cup {NoThread}
  /\ slots \in [Keys -> SlotState]
  /\ view \in [Legs -> [Ids -> Threads \cup {Unseen, Tombstoned}]]
  /\ poisoned \in [Legs -> BOOLEAN]
  /\ open \in [Legs -> BOOLEAN]
  /\ pump \in [Legs -> {"up", "ending", "gone"}]
  /\ stage \in [Legs -> Stages]
  /\ ans \in [Legs -> Ids \cup {NoId}]
  /\ checked \in [Legs -> Threads \cup {NoThread}]
  /\ receipt \in [Legs -> {"waiting", "true", "false", "dropped"}]
  /\ outcome \in [Legs -> Outcomes]
  /\ closing \in [Legs -> BOOLEAN]
  /\ won \in [Legs -> BOOLEAN]
  /\ asked \in [Legs -> [Ids -> 0..2]]
  /\ answers \subseteq [conn : Legs, key : Keys, fate : Fates]

Init ==
  /\ head = NoThread
  /\ slots = [k \in Keys |-> Free]
  /\ view = [c \in Legs |-> [i \in Ids |-> Unseen]]
  /\ poisoned = [c \in Legs |-> FALSE]
  /\ open = [c \in Legs |-> TRUE]
  /\ pump = [c \in Legs |-> "up"]
  /\ stage = [c \in Legs |-> "idle"]
  /\ ans = [c \in Legs |-> NoId]
  /\ checked = [c \in Legs |-> NoThread]
  /\ receipt = [c \in Legs |-> "waiting"]
  /\ outcome = [c \in Legs |-> "none"]
  /\ closing = [c \in Legs |-> FALSE]
  /\ won = [c \in Legs |-> FALSE]
  /\ asked = [c \in Legs |-> [i \in Ids |-> 0]]
  /\ answers = {}

-----------------------------------------------------------------------------
(* The arbiter.                                                            *)

Occupied == {k \in Keys : slots[k] # Free}

\* Slip: only a confirmed slot refuses a second answer.
CanConsume_Slip(k) == slots[k].st # "confirmed" /\ (slots[k] = Free => Cardinality(Occupied) < MaxWinners)

\* consume: a fresh key with room wins; everything else loses.
CanConsume(k) == slots[k] = Free /\ Cardinality(Occupied) < MaxWinners

\* confirm and release act on the caller's own reservation and nothing else.
Confirm(k, r) == IF slots[k] = Reserved(r) THEN [slots EXCEPT ![k] = Confirmed(r)] ELSE slots
Release(k, r) == IF slots[k] = Reserved(r) THEN [slots EXCEPT ![k] = Free] ELSE slots

\* Slip: a reservation already counts as the winner.
Winner_Slip(k) == slots[k].role

\* winner: only a confirmed slot names anybody.
Winner(k) == IF slots[k].st = "confirmed" THEN slots[k].role ELSE "nobody"

-----------------------------------------------------------------------------
(* One leg's view.                                                         *)

Bump(n) == IF n = 0 THEN 1 ELSE 2

Tracked(c) == {i \in Ids : view[c][i] # Unseen}

\* Slip: the newest request takes the id over.
Register_Slip(c, i, occupancy) ==
  IF view[c][i] = Unseen /\ Cardinality(Tracked(c)) >= MaxTrackedIds THEN view
  ELSE [view EXCEPT ![c][i] = occupancy]

\* register: a second occupant of an id tombstones it; a new id past the cap
\* stays unseen; otherwise the occupancy (a thread, or Tombstoned) is kept.
Register(c, i, occupancy) ==
  IF view[c][i] # Unseen THEN [view EXCEPT ![c][i] = Tombstoned]
  ELSE IF Cardinality(Tracked(c)) >= MaxTrackedIds THEN view
  ELSE [view EXCEPT ![c][i] = occupancy]

\* slot_key / bound_thread: a clean binding on a leg that is not poisoned.
NamesSlot(c, i) == ~poisoned[c] /\ view[c][i] \in Threads
SlotKey(c, i)   == <<view[c][i], i>>

\* The leg's task reads its next frame only between answers: handle_text is
\* awaited inline, receipt included.
Reading(c) == open[c] /\ stage[c] = "idle"

\* The task ends: its pump, its view and all it remembered go with it.  Slots do not.
CloseLeg(c) ==
  /\ open' = [open EXCEPT ![c] = FALSE]
  /\ pump' = [pump EXCEPT ![c] = "gone"]
  /\ view' = [view EXCEPT ![c] = [i \in Ids |-> Unseen]]
  /\ poisoned' = [poisoned EXCEPT ![c] = FALSE]
  /\ asked' = [asked EXCEPT ![c] = [i \in Ids |-> 0]]

\* A command or file-change approval arrives on leg c.  On a phone leg it binds
\* only if it is on the head; otherwise it occupies its id and is withheld.
ObserveApproval(c, i, t) ==
  /\ Reading(c)
  /\ asked' = [asked EXCEPT ![c][i] = Bump(@)]
  /\ view' = IF poisoned[c] THEN view
             ELSE Register(c, i, IF c \in TuiLegs \/ head = t THEN t ELSE Tombstoned)
  /\ UNCHANGED <<head, slots, poisoned, open, pump, taskVars, answers>>

\* Any other server request, a hybrid, or an approval naming no usable thread.
ObserveOther(c, i) ==
  /\ Reading(c)
  /\ asked' = [asked EXCEPT ![c][i] = Bump(@)]
  /\ view' = IF poisoned[c] THEN view ELSE Register(c, i, Tombstoned)
  /\ UNCHANGED <<head, slots, poisoned, open, pump, taskVars, answers>>

\* A frame that cannot be classified may have been a request under any id.
\* It poisons the view: a phone leg closes, the keyboard's goes on.
ObserveUnclassifiable(c) ==
  /\ Reading(c)
  /\ \/ /\ c \in CcdLegs
        /\ CloseLeg(c)
     \/ /\ c \in TuiLegs
        /\ poisoned' = [poisoned EXCEPT ![c] = TRUE]
        /\ asked' = [asked EXCEPT ![c] = [i \in Ids |-> Bump(@[i])]]
        /\ UNCHANGED <<view, open, pump>>
  /\ UNCHANGED <<head, slots, taskVars, answers>>

-----------------------------------------------------------------------------
(* An answer, from the client's frame to the pump's channel.               *)

\* biased select: a leg whose upstream has ended closes before it reads its client.
CanRead(c) == Reading(c) /\ pump[c] # "gone"

\* arbitrate_tui: the keyboard's answer forwards unless it names a slot that is
\* taken; an answer that names no slot forwards without one.
KeyboardAnswer(c, i) ==
  /\ c \in TuiLegs
  /\ CanRead(c)
  /\ IF NamesSlot(c, i)
     THEN IF CanConsume(SlotKey(c, i))
          THEN /\ slots' = [slots EXCEPT ![SlotKey(c, i)] = Reserved("tui")]
               /\ won' = [won EXCEPT ![c] = TRUE]
               /\ stage' = [stage EXCEPT ![c] = "handoff"]
               /\ ans' = [ans EXCEPT ![c] = i]
          ELSE UNCHANGED <<slots, won, stage, ans>>
     ELSE /\ stage' = [stage EXCEPT ![c] = "handoff"]
          /\ ans' = [ans EXCEPT ![c] = i]
          /\ UNCHANGED <<slots, won>>
  /\ UNCHANGED <<head, legVars, pump, checked, receipt, outcome, closing, asked, answers>>

\* classify_response reads the head under the session's lock ...
PhoneAnswer(c, i) ==
  /\ c \in CcdLegs
  /\ CanRead(c)
  /\ ans' = [ans EXCEPT ![c] = i]
  /\ checked' = [checked EXCEPT ![c] = head]
  /\ stage' = [stage EXCEPT ![c] = "checked"]
  /\ UNCHANGED <<head, slots, legVars, pump, receipt, outcome, closing, won, asked, answers>>

\* ... and authorize takes the slot under the arbiter's, against the head it read.
Authorized(c) ==
  /\ checked[c] # NoThread
  /\ NamesSlot(c, ans[c])
  /\ view[c][ans[c]] = checked[c]
  /\ CanConsume(SlotKey(c, ans[c]))

PhoneAuthorize(c) ==
  /\ stage[c] = "checked"
  /\ IF Authorized(c)
     THEN /\ slots' = [slots EXCEPT ![SlotKey(c, ans[c])] = Reserved("ccd")]
          /\ won' = [won EXCEPT ![c] = TRUE]
          /\ stage' = [stage EXCEPT ![c] = "handoff"]
          /\ UNCHANGED outcome
     ELSE /\ outcome' = [outcome EXCEPT ![c] = "not_forwarded"]
          /\ stage' = [stage EXCEPT ![c] = "tell"]
          /\ UNCHANGED <<slots, won>>
  /\ UNCHANGED <<head, legVars, pump, ans, checked, receipt, closing, asked, answers>>

-----------------------------------------------------------------------------
(* The write and its receipt.                                              *)

\* What the leg's task does once the fate of its write is settled.
Settle(c, how) ==
  /\ outcome' = [outcome EXCEPT ![c] = how]
  /\ stage' = [stage EXCEPT ![c] = "tell"]
  /\ won' = [won EXCEPT ![c] = FALSE]

\* History: an arbitrated answer's bytes left, or may have.
Record(c, fate) ==
  answers' = IF won[c]
             THEN answers \cup {[conn |-> c, key |-> SlotKey(c, ans[c]), fate |-> fate]}
             ELSE answers

ConfirmWrite(c) ==
  slots' = IF NamesSlot(c, ans[c]) THEN Confirm(SlotKey(c, ans[c]), RoleOf(c)) ELSE slots
ReleaseWrite(c) ==
  slots' = IF NamesSlot(c, ans[c]) THEN Release(SlotKey(c, ans[c]), RoleOf(c)) ELSE slots

HandOff(c) ==
  /\ stage[c] = "handoff"
  /\ pump[c] # "gone"
  /\ stage' = [stage EXCEPT ![c] = "receipt"]
  /\ receipt' = [receipt EXCEPT ![c] = "waiting"]
  /\ UNCHANGED <<head, slots, legVars, pump, ans, checked, outcome, closing, won, asked, answers>>

\* Slip: a hand-off that moved nothing keeps the slot.
HandOffRefused_Slip(c) ==
  /\ stage[c] = "handoff"
  /\ pump[c] = "gone"
  /\ Settle(c, "failed")
  /\ closing' = [closing EXCEPT ![c] = TRUE]
  /\ UNCHANGED <<head, slots, legVars, pump, ans, checked, receipt, asked, answers>>

\* The channel is closed: zero bytes left, so the slot goes back.
HandOffRefused(c) ==
  /\ stage[c] = "handoff"
  /\ pump[c] = "gone"
  /\ ReleaseWrite(c)
  /\ Settle(c, "failed")
  /\ closing' = [closing EXCEPT ![c] = TRUE]
  /\ UNCHANGED <<head, legVars, pump, ans, checked, receipt, asked, answers>>

\* Slip: the budget covers the hand-off alone.
BudgetExpires_Slip(c) ==
  /\ stage[c] = "handoff" /\ pump[c] # "gone"
  /\ Settle(c, "unconfirmed")
  /\ Record(c, "unproven")
  /\ closing' = [closing EXCEPT ![c] = TRUE]
  /\ UNCHANGED <<head, slots, legVars, pump, ans, checked, receipt, asked>>

\* The write budget covers the hand-off and the receipt; past it nothing is
\* proven, so the reservation stands and the leg closes.
BudgetExpires(c) ==
  /\ \/ stage[c] = "handoff" /\ pump[c] # "gone"
     \/ stage[c] = "receipt" /\ receipt[c] = "waiting"
  /\ Settle(c, "unconfirmed")
  /\ Record(c, "unproven")
  /\ closing' = [closing EXCEPT ![c] = TRUE]
  /\ UNCHANGED <<head, slots, legVars, pump, ans, checked, receipt, asked>>

\* The pump, another task: it writes the message, is refused by the socket, or
\* ends (the app-server closed, or a write was refused) with the message unacknowledged.
PumpWrites(c) ==
  /\ stage[c] = "receipt" /\ receipt[c] = "waiting" /\ pump[c] = "up"
  /\ receipt' = [receipt EXCEPT ![c] = "true"]
  /\ UNCHANGED <<head, slots, legVars, pump, stage, ans, checked, outcome, closing, won, asked, answers>>

PumpRefused(c) ==
  /\ stage[c] = "receipt" /\ receipt[c] = "waiting" /\ pump[c] = "up"
  /\ receipt' = [receipt EXCEPT ![c] = "false"]
  /\ pump' = [pump EXCEPT ![c] = "ending"]
  /\ UNCHANGED <<head, slots, legVars, stage, ans, checked, outcome, closing, won, asked, answers>>

PumpEnds(c) ==
  /\ pump[c] # "gone"
  /\ pump' = [pump EXCEPT ![c] = "gone"]
  /\ receipt' = IF stage[c] = "receipt" /\ receipt[c] = "waiting"
                THEN [receipt EXCEPT ![c] = "dropped"] ELSE receipt
  /\ UNCHANGED <<head, slots, legVars, stage, ans, checked, outcome, closing, won, asked, answers>>

\* Slip: a dropped receipt is read as a refusal.
ReadReceipt_Slip(c) ==
  /\ stage[c] = "receipt"
  /\ \/ receipt[c] = "true" /\ ConfirmWrite(c) /\ Settle(c, "delivered") /\ Record(c, "written")
     \/ receipt[c] = "false" /\ ReleaseWrite(c) /\ Settle(c, "failed") /\ UNCHANGED answers
     \/ receipt[c] = "dropped" /\ ReleaseWrite(c) /\ Settle(c, "failed") /\ Record(c, "unproven")
  /\ UNCHANGED <<head, legVars, pump, ans, checked, receipt, closing, asked>>

\* Proven written: confirm.  Refused: release.  Dropped: nobody can say, and the
\* reservation stays.
ReadReceipt(c) ==
  /\ stage[c] = "receipt"
  /\ \/ receipt[c] = "true" /\ ConfirmWrite(c) /\ Settle(c, "delivered") /\ Record(c, "written")
     \/ receipt[c] = "false" /\ ReleaseWrite(c) /\ Settle(c, "failed") /\ UNCHANGED answers
     \/ receipt[c] = "dropped" /\ UNCHANGED slots /\ Settle(c, "unconfirmed") /\ Record(c, "unproven")
  /\ UNCHANGED <<head, legVars, pump, ans, checked, receipt, closing, asked>>

\* response_disposition: what a daemon leg is told about its own answer.
Tells(c) == c \in CcdLegs /\ NamesSlot(c, ans[c])

DispositionFor(c) ==
  [key |-> SlotKey(c, ans[c]),
   delivered |-> outcome[c] = "delivered",
   winner |-> IF outcome[c] = "not_forwarded" THEN Winner(SlotKey(c, ans[c])) ELSE "nobody",
   cause |-> CASE outcome[c] = "failed"      -> "write_failed"
               [] outcome[c] = "unconfirmed" -> "unconfirmed"
               [] OTHER                      -> "none"]

\* The disposition is the last thing the task does about an answer; a send that
\* fails or expires ends the leg, and so does an upstream that took nothing.
TellDisposition(c) ==
  /\ stage[c] = "tell"
  /\ stage' = [stage EXCEPT ![c] = "idle"]
  /\ ans' = [ans EXCEPT ![c] = NoId]
  /\ outcome' = [outcome EXCEPT ![c] = "none"]
  /\ closing' = [closing EXCEPT ![c] = FALSE]
  /\ receipt' = [receipt EXCEPT ![c] = "waiting"]
  /\ checked' = [checked EXCEPT ![c] = NoThread]
  /\ \/ closing[c] /\ CloseLeg(c)
     \/ ~closing[c] /\ UNCHANGED <<legVars, pump, asked>>
     \/ Tells(c) /\ CloseLeg(c)
  /\ UNCHANGED <<head, slots, won, answers>>

-----------------------------------------------------------------------------
(* The rest of the leg's life, and the head.                               *)

\* The client closed, a read failed, or the upstream ended.
LegEnds(c) ==
  /\ Reading(c)
  /\ CloseLeg(c)
  /\ UNCHANGED <<head, slots, taskVars, answers>>

\* The keyboard moves; SessionHead says how.
HeadMoves(t) ==
  /\ head' = t
  /\ head' # head
  /\ UNCHANGED <<slots, legVars, pump, taskVars, asked, answers>>

LegStep(c) ==
  \/ \E i \in Ids, t \in Threads : ObserveApproval(c, i, t)
  \/ \E i \in Ids : ObserveOther(c, i) \/ KeyboardAnswer(c, i) \/ PhoneAnswer(c, i)
  \/ ObserveUnclassifiable(c)
  \/ PhoneAuthorize(c)
  \/ HandOff(c) \/ HandOffRefused(c) \/ BudgetExpires(c)
  \/ PumpWrites(c) \/ PumpRefused(c) \/ PumpEnds(c)
  \/ ReadReceipt(c)
  \/ TellDisposition(c)
  \/ LegEnds(c)

Next ==
  \/ \E c \in Legs : LegStep(c)
  \/ \E t \in Threads \cup {NoThread} : HeadMoves(t)

Spec == Init /\ [][Next]_vars

\* The runtime polls a leg's task whenever it can run and its timers expire; the
\* app-server, its socket and the people answering owe nothing.
Fairness ==
  \A c \in Legs :
    /\ WF_vars(PhoneAuthorize(c))
    /\ WF_vars(HandOffRefused(c))
    /\ WF_vars(BudgetExpires(c))
    /\ WF_vars(ReadReceipt(c))
    /\ WF_vars(TellDisposition(c))

FairSpec == Spec /\ Fairness

-----------------------------------------------------------------------------
(* Properties.                                                             *)

\* Leg c's answer in flight holds the slot of key k.
Holds(c, k) == won[c] /\ stage[c] \in {"handoff", "receipt"} /\ SlotKey(c, ans[c]) = k

\* One approval, one answer (ResponseArbiter::consume, release): of all the
\* arbitrated answers to one approval, from any leg, at most one is in flight,
\* written or possibly written.  A second may follow only a refused write.
OneAnswer ==
  \A k \in Keys :
    /\ \A c, d \in Legs : Holds(c, k) /\ Holds(d, k) => c = d
    /\ \A c \in Legs, a \in answers : Holds(c, k) => a.key # k
    /\ \A a, b \in answers : a.key = k /\ b.key = k => a = b

\* A bare id never aliases (IdState, poison): an answer takes a slot only on a leg
\* that has seen exactly one server request that could be meant by its id.
NoAlias == \A c \in Legs : won[c] => asked[c][ans[c]] = 1

\* No lockout (release_write, HandOffRefused): a taken slot is backed by an answer
\* in flight or by one whose bytes left or may have, so an approval nobody
\* answered can still be answered.
NoLockout ==
  \A k \in Keys :
    slots[k] # Free => \/ \E c \in Legs : Holds(c, k)
                       \/ \E a \in answers : a.key = k

\* What the daemon is told is true (response_disposition): delivered means its own
\* bytes were written; a named winner is a role whose answer was written.
TruthfulDisposition ==
  \A c \in CcdLegs :
    stage[c] = "tell" /\ Tells(c) =>
      LET d == DispositionFor(c) IN
        /\ d.delivered => [conn |-> c, key |-> d.key, fate |-> "written"] \in answers
        /\ d.winner # "nobody" =>
             \E a \in answers : a.key = d.key /\ a.fate = "written" /\ RoleOf(a.conn) = d.winner

\* No leg is parked (UPSTREAM_WRITE_BUDGET): every answer a leg starts on is done
\* with, whatever the app-server and its socket do.
LegSettles == \A c \in Legs : stage[c] # "idle" ~> stage[c] = "idle"

-----------------------------------------------------------------------------
(* What the arbiter promises of each approval, and how this module keeps it. *)

SlotStatus ==
  [k \in Keys |->
     IF slots[k] = Free THEN "open"
     ELSE IF slots[k].st = "confirmed" THEN "answered"
     ELSE IF \E c \in Legs : Holds(c, k) THEN "answering"
     ELSE "unproven"]

SlotAnswerer == [k \in Keys |-> slots[k].role]

Abstract == INSTANCE OneUseSlot WITH Approvals <- Keys, status <- SlotStatus, by <- SlotAnswerer

\* Every step of the broker is a step of the abstract one-use slot, or none.
RefinesOneUseSlot == Abstract!Spec
=============================================================================
