------------------------------- MODULE PushGate -------------------------------
(* What may ring the phone about one run: the gate that admits a doorbell, and *)
(* the task that carries it through its grace to the sender.                   *)
(*                                                                             *)
(* Source: mac/ccd/src/push_gate.rs; state.rs (dispatch_push, maybe_push, the  *)
(* end of handle_permission_request, delete_exited_session); ws_server.rs (a   *)
(* frame written to the phone).                                                *)
(*                                                                             *)
(* One run, one prompt and one phone: every table of the gate is keyed by the  *)
(* run. A ticket is good while its two epochs have not moved, so a doorbell    *)
(* remembers only whether each moved since it was admitted. Payloads and the   *)
(* length of waits are left out; a look at the keyboard finds someone or not.  *)
(* A Codex turn's end (admit_turn_end) is left out: it rings as a quiet state. *)
EXTENDS Integers, FiniteSets

CONSTANTS
  Cards,      \* decisions of the run, all asked under one prompt
  Notices,    \* Notification hooks
  MaxRings,   \* bound: doorbells admitted
  MaxReturns  \* bound: how often the owner is back while a doorbell is on its way

ASSUME RingsAssumption == MaxRings \in Nat /\ MaxReturns \in Nat

ASSUME CardsAssumption == "none" \notin Cards

VARIABLES
  filed,      \* events of the run in the log
  wm,         \* the gate's delivered watermark of the phone
  seen,       \* history: the newest event ever written to the phone
  card,       \* [Cards -> ...]: the entry in inner.pending
  seqOf,      \* the event of each card
  taken,      \* history: cards that a read of the screen took for answered at the Mac
  notice,     \* maybe_push, per Notification hook
  ambient,    \* the last quiet state pushed, or "none"
  rung,       \* Rung.cards
  prompted,   \* Rung.prompts has the prompt
  ended,      \* the row says Exited
  deletion,   \* delete_exited_session
  ring,       \* dispatch_push, per doorbell
  admitted,   \* how many doorbells were admitted
  order,      \* the doorbell that holds ring_order, or 0
  returns,    \* how often a doorbell went back to waiting for the owner to leave
  rang        \* history: how often each card was handed to the sender, by doorbells
              \* that could not read their run at most once

gateVars == <<wm, ambient, rung, prompted>>
cardVars == <<card, seqOf, taken>>
runVars == <<filed, ended, deletion, seen>>
ringVars == <<ring, admitted, order, returns, rang>>
vars == <<gateVars, cardVars, notice, runVars, ringVars>>

-----------------------------------------------------------------------------
Rings == 1..MaxRings
Quiet == {"Waiting", "Done"}
NoCard == "none"
Deleted == deletion \in {"gone", "evicted"}
Open == {c \in Cards : card[c] \in {"filed", "stored", "open"}}
Stages == {"grace", "look", "screen", "row", "order", "check", "count", "send"}
Free == [at |-> "free"]
Ringing == [at : Stages, card : Cards \cup {NoCard}, seq : Nat, moved : BOOLEAN,
            evicted : BOOLEAN, excluded : BOOLEAN, unread : BOOLEAN]

\* The type of every variable, and whose ring_order is: the doorbell between its wait for
\* the lock and its hand-off holds it, and nobody else does.
GateTypeOK ==
  /\ filed \in Nat /\ wm \in 0..filed /\ seen \in 0..filed
  /\ card \in [Cards -> {"none", "filed", "stored", "open", "shut", "closed"}]
  /\ seqOf \in [Cards -> 0..filed]
  /\ taken \subseteq Cards \cup {NoCard}
  /\ notice \in [Notices -> [at : {"idle", "filed", "read", "done"},
                             kind : Quiet \cup {"prompt"}, seq : Nat, cards : SUBSET Cards]]
  /\ ambient \in Quiet \cup {"none"}
  /\ rung \subseteq Cards
  /\ {prompted, ended} \subseteq BOOLEAN
  /\ deletion \in {"no", "checked", "gone", "evicted"}
  /\ ring \in [Rings -> {Free} \cup Ringing]
  /\ admitted \in 0..MaxRings /\ order \in 0..MaxRings /\ returns \in 0..MaxReturns
  /\ rang \in [Cards -> Nat]
  /\ \A r \in Rings : order = r <=> ring[r].at \in {"check", "count", "send"}

GateInit ==
  /\ filed = 0 /\ wm = 0 /\ seen = 0
  /\ card = [c \in Cards |-> "none"] /\ seqOf = [c \in Cards |-> 0] /\ taken = {}
  /\ notice = [n \in Notices |-> [at |-> "idle", kind |-> "prompt", seq |-> 0, cards |-> {}]]
  /\ ambient = "none" /\ rung = {} /\ prompted = FALSE
  /\ ended = FALSE /\ deletion = "no"
  /\ ring = [r \in Rings |-> Free]
  /\ admitted = 0 /\ order = 0 /\ returns = 0
  /\ rang = [c \in Cards |-> 0]

-----------------------------------------------------------------------------
(* Tickets. quiet_ticket and note_progress move the progress epoch, evict the  *)
(* session's; every doorbell under way sees it.                                *)

Moved(rs) == [r \in Rings |-> IF rs[r] = Free THEN Free ELSE [rs[r] EXCEPT !.moved = TRUE]]

\* A doorbell admitted now, with a fresh ticket; c is the card it announces.
Admit(rs, c, seq) ==
  /\ admitted < MaxRings
  /\ admitted' = admitted + 1
  /\ ring' = [rs EXCEPT ![admitted + 1] =
       [at |-> "grace", card |-> c, seq |-> seq, moved |-> FALSE, evicted |-> FALSE,
        excluded |-> FALSE, unread |-> FALSE]]

NoRing(rs) == ring' = rs /\ UNCHANGED admitted

\* Slip: every doorbell heeds progress.
Heeds_Slip(r) == TRUE

\* heed_progress: a decision outlives other tools' progress.
Heeds(r) == ring[r].card = NoCard

\* exclusions_if_valid, the ticket's half.
Valid(r) == ~ring[r].evicted /\ (Heeds(r) => ~ring[r].moved)

\* card_is_open.
StillOpen(r) == ring[r].card = NoCard \/ ring[r].card \in Open

-----------------------------------------------------------------------------
(* The run.                                                                    *)

\* A PermissionRequest registers its card and files it.
CardFiled(c) ==
  /\ card[c] = "none" /\ ~Deleted
  /\ card' = [card EXCEPT ![c] = "filed"]
  /\ filed' = filed + 1
  /\ seqOf' = [seqOf EXCEPT ![c] = filed + 1]
  /\ UNCHANGED <<gateVars, taken, notice, ended, deletion, seen, ringVars>>

\* persist_pending: a run deleted meanwhile takes its card with it.
CardStored(c) ==
  /\ card[c] = "filed"
  /\ card' = [card EXCEPT ![c] = IF Deleted THEN "closed" ELSE "stored"]
  /\ UNCHANGED <<gateVars, seqOf, taken, notice, runVars, ringVars>>

\* admit_decision, whatever became of the card and of the run since.
AdmitDecision(c) ==
  /\ card[c] \in {"stored", "shut"}
  /\ card' = [card EXCEPT ![c] = IF card[c] = "stored" THEN "open" ELSE "closed"]
  /\ ambient' = "none" /\ prompted' = TRUE /\ rung' = rung \cup {c}
  /\ IF c \in rung THEN NoRing(Moved(ring)) ELSE Admit(Moved(ring), c, seqOf[c])
  /\ UNCHANGED <<wm, seqOf, taken, notice, runVars, order, returns, rang>>

\* The decision is made, here or on a phone, and its card closed, the request's hook
\* perhaps past its last look at it. A decision made at the Mac leaves the card open until
\* the call's result, and only the screen tells.
CardCloses(c) ==
  /\ c \in Open
  /\ \/ card[c] # "stored" /\ card' = [card EXCEPT ![c] = "closed"]
     \/ card[c] # "open" /\ card' = [card EXCEPT ![c] = "shut"]
  /\ UNCHANGED <<gateVars, seqOf, taken, notice, runVars, ringVars>>

\* note_progress: a tool runs, a turn ends, text lands.
NoteProgress ==
  /\ ring' = Moved(ring)
  /\ ambient' = "none"
  /\ UNCHANGED <<wm, rung, prompted, cardVars, notice, runVars, admitted, order, returns, rang>>

\* note_delivered: after the frame was written.
NoteDelivered(seq) ==
  /\ seq \in wm + 1..filed
  /\ wm' = seq
  /\ seen' = IF seq > seen THEN seq ELSE seen
  /\ UNCHANGED <<ambient, rung, prompted, cardVars, notice, filed, ended, deletion, ringVars>>

RunEnds ==
  /\ ~ended
  /\ ended' = TRUE
  /\ UNCHANGED <<gateVars, cardVars, notice, filed, deletion, seen, ringVars>>

\* delete_exited_session: refused while a card is open; then the rows go; then
\* the gate's tables.
DeleteChecks ==
  /\ deletion = "no" /\ ended /\ Open = {}
  /\ deletion' = "checked"
  /\ UNCHANGED <<gateVars, cardVars, notice, filed, ended, seen, ringVars>>

DeleteRows ==
  /\ deletion = "checked"
  /\ deletion' = "gone"
  /\ UNCHANGED <<gateVars, cardVars, notice, filed, ended, seen, ringVars>>

\* Slip: the tables are emptied and the epoch stays.
EvictSession_Slip ==
  /\ deletion = "gone"
  /\ deletion' = "evicted"
  /\ ambient' = "none" /\ rung' = {} /\ prompted' = FALSE /\ wm' = 0
  /\ UNCHANGED <<cardVars, notice, filed, ended, seen, ringVars>>

EvictSession ==
  /\ deletion = "gone"
  /\ deletion' = "evicted"
  /\ ring' = [r \in Rings |-> IF ring[r] = Free THEN Free ELSE [ring[r] EXCEPT !.evicted = TRUE]]
  /\ ambient' = "none" /\ rung' = {} /\ prompted' = FALSE /\ wm' = 0
  /\ UNCHANGED <<cardVars, notice, filed, ended, seen, admitted, order, returns, rang>>

-----------------------------------------------------------------------------
(* maybe_push: a Notification hook.                                            *)

NoticeFiled(n, k) ==
  /\ notice[n].at = "idle" /\ ~Deleted
  /\ filed' = filed + 1
  /\ notice' = [notice EXCEPT ![n] = [at |-> IF k = "prompt" THEN "filed" ELSE "read", kind |-> k,
                                      seq |-> filed + 1, cards |-> {}]]
  /\ UNCHANGED <<gateVars, cardVars, ended, deletion, seen, ringVars>>

\* open_cards_of_prompt, read before the gate is entered.
NoticeReads(n) ==
  /\ notice[n].at = "filed"
  /\ notice' = [notice EXCEPT ![n].at = "read", ![n].cards = Open]
  /\ UNCHANGED <<gateVars, cardVars, runVars, ringVars>>

\* admit_ambient, and the waiting arm of admit_notice: news once.
AdmitAmbient(class, seq) ==
  /\ IF ambient = class THEN NoRing(ring) ELSE Admit(Moved(ring), NoCard, seq)
  /\ ambient' = class
  /\ UNCHANGED <<rung, prompted>>

\* Slip: the notice does not record the card it rings for.
AdmitNotice_Slip(n) ==
  LET cards == notice[n].cards IN
  IF cards \ rung # {}
  THEN \E c \in cards \ rung :
         /\ prompted' = TRUE /\ ambient' = "none" /\ UNCHANGED rung
         /\ Admit(Moved(ring), c, notice[n].seq)
  ELSE IF cards # {} \/ prompted THEN NoRing(ring) /\ UNCHANGED <<ambient, rung, prompted>>
  ELSE AdmitAmbient("Waiting", notice[n].seq)

\* admit_notice: the decision behind it, unless that rang already.
AdmitNotice(n) ==
  LET cards == notice[n].cards IN
  IF cards \ rung # {}
  THEN \E c \in cards \ rung :
         /\ rung' = rung \cup {c} /\ prompted' = TRUE /\ ambient' = "none"
         /\ Admit(Moved(ring), c, notice[n].seq)
  ELSE IF cards # {} \/ prompted THEN NoRing(ring) /\ UNCHANGED <<ambient, rung, prompted>>
  ELSE AdmitAmbient("Waiting", notice[n].seq)

NoticeAdmits(n) ==
  /\ notice[n].at = "read"
  /\ notice' = [notice EXCEPT ![n] = [at |-> "done", kind |-> "prompt", seq |-> 0, cards |-> {}]]
  /\ IF notice[n].kind = "prompt" THEN AdmitNotice(n) ELSE AdmitAmbient(notice[n].kind, notice[n].seq)
  /\ UNCHANGED <<wm, cardVars, runVars, order, returns, rang>>

-----------------------------------------------------------------------------
(* dispatch_push: one task per doorbell.                                       *)

To(r, a) == ring' = [ring EXCEPT ![r].at = a]
Drop(r) == ring' = [ring EXCEPT ![r] = Free]

\* Slip: the guard outlives the doorbell that took it.
Frees_Slip(r) == UNCHANGED order

Frees(r) == order' = IF order = r THEN 0 ELSE order
RingOnly == UNCHANGED <<gateVars, card, seqOf, notice, runVars, admitted, rang>>

GraceEnds(r) ==
  /\ ring[r].at = "grace"
  /\ To(r, "look")
  /\ RingOnly /\ UNCHANGED <<order, returns, taken>>

\* Someone is there: it waits, and ends if it stopped mattering.
LookHome(r) ==
  /\ ring[r].at = "look" /\ ~(Valid(r) /\ StillOpen(r))
  /\ Drop(r)
  /\ RingOnly /\ UNCHANGED <<order, returns, taken>>

LookAway(r) ==
  /\ ring[r].at = "look"
  /\ To(r, IF Heeds(r) THEN "row" ELSE "screen")
  /\ RingOnly /\ UNCHANGED <<order, returns, taken>>

\* answered_at_the_mac, one read of the screen: it shows the composer and no dialog, or
\* it does not. The dialog may be back after that, another pane having been looked at, and
\* the card still open; its doorbell is gone.
Screen(r) ==
  /\ ring[r].at = "screen"
  /\ \/ Drop(r) /\ taken' = taken \cup {ring[r].card}
     \/ To(r, "row") /\ UNCHANGED taken
  /\ RingOnly /\ UNCHANGED <<order, returns>>

\* The run still exists and, for a quiet state, still runs. A read that fails is no
\* reason to stay silent.
Row(r) ==
  /\ ring[r].at = "row"
  /\ \/ IF Deleted \/ (Heeds(r) /\ ended) THEN Drop(r) ELSE To(r, "order")
     \/ ring' = [ring EXCEPT ![r].at = "order", ![r].unread = TRUE]
  /\ RingOnly /\ UNCHANGED <<order, returns, taken>>

Order(r) ==
  /\ ring[r].at = "order" /\ order = 0
  /\ order' = r
  /\ To(r, "check")
  /\ RingOnly /\ UNCHANGED <<returns, taken>>

\* exclusions_if_valid, asked again after the wait for the lock.
Check(r) ==
  /\ ring[r].at = "check"
  /\ IF Valid(r)
     THEN /\ ring' = [ring EXCEPT ![r].at = "count", ![r].excluded = (wm >= ring[r].seq)]
          /\ UNCHANGED order
     ELSE Drop(r) /\ Frees(r)
  /\ RingOnly /\ UNCHANGED <<returns, taken>>

\* The owner is back, the screen's read or the lock having taken its time: the loop
\* starts over, and lets go of ring_order.
OwnerBack(r) ==
  /\ ring[r].at \in {"screen", "check"}
  /\ returns < MaxReturns
  /\ returns' = returns + 1
  /\ To(r, "look") /\ Frees(r)
  /\ RingOnly /\ UNCHANGED taken

\* The count of waiting decisions, read with the card.
Count(r) ==
  /\ ring[r].at = "count"
  /\ IF StillOpen(r) THEN To(r, "send") /\ UNCHANGED order ELSE Drop(r) /\ Frees(r)
  /\ RingOnly /\ UNCHANGED <<returns, taken>>

\* sender.send ends: the doorbell is with the senders.
Sent(r) ==
  /\ ring[r].at = "send"
  /\ rang' = [c \in Cards |-> IF c # ring[r].card THEN rang[c]
                              ELSE IF ring[r].unread THEN 1 ELSE rang[c] + 1]
  /\ Drop(r) /\ Frees(r)
  /\ UNCHANGED <<gateVars, cardVars, notice, runVars, admitted, returns>>

-----------------------------------------------------------------------------
RunStep ==
  \/ \E c \in Cards : CardFiled(c) \/ CardStored(c) \/ AdmitDecision(c) \/ CardCloses(c)
  \/ \E n \in Notices : \/ NoticeReads(n) \/ NoticeAdmits(n)
                        \/ \E k \in Quiet \cup {"prompt"} : NoticeFiled(n, k)
  \/ NoteProgress \/ RunEnds \/ DeleteChecks \/ DeleteRows \/ EvictSession
  \/ \E seq \in wm + 1..filed : NoteDelivered(seq)

RingStep(r) ==
  GraceEnds(r) \/ LookAway(r) \/ Screen(r) \/ Row(r) \/ Order(r) \/ Check(r) \/ Count(r) \/ Sent(r)

GateNext == RunStep \/ \E r \in Rings : RingStep(r) \/ LookHome(r) \/ OwnerBack(r)

GateSpec == GateInit /\ [][GateNext]_vars

\* A doorbell's task is polled, and the owner leaves at some time.
FairGateSpec == GateSpec /\ \A r \in Rings : WF_vars(RingStep(r))

-----------------------------------------------------------------------------
(* Properties.                                                                 *)

\* One decision rings once (admit_decision, admit_notice): a card announced by its
\* request or by the notification of its prompt is handed to the senders at most once,
\* however the two hooks, the deletion of the run and the cards' reads interleave. A doorbell
\* that could not read its run may repeat one: it goes out by design.
OneRing == \A c \in Cards : rang[c] <= 1

\* A phone is left out of a ring exactly when it has seen what the ring is about
\* (exclusions_if_valid): a run's eviction empties the watermarks, and no doorbell takes
\* the empty table for a phone that was told nothing. A doorbell that could
\* not read its run is not covered.
SeenNotRung ==
  [][\A r \in Rings : ring[r].at = "check" /\ ring'[r].at = "count" /\ ~ring[r].unread =>
       (ring'[r].excluded <=> seen >= ring[r].seq)]_vars

\* No two silences (maybe_push, admit_decision): a card that is open rings, whichever of
\* its hooks was admitted for it, unless it closes, its run goes, or the screen, when it
\* would ring, showed it answered. That reading is final, even if the dialog comes back.
CardRings == \A c \in Cards :
  card[c] = "open" ~> (rang[c] > 0 \/ card[c] # "open" \/ c \in taken \/ deletion # "no")
=============================================================================
