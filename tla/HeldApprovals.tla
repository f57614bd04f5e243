---------------------------- MODULE HeldApprovals ----------------------------
(* One permission request of a Claude run, from the hook that asks to its one  *)
(* outcome: the hook's connection held open by the daemon, the card in memory  *)
(* and its rows on disk, the phones that answer it, the Mac's keyboard that    *)
(* may answer it first, the tasks that close it without a phone, and the       *)
(* daemon's crash and recovery.                                                *)
(*                                                                             *)
(* Source: mac/ccd/src/state.rs (handle_permission_request, answer,            *)
(* resolve_without_phone, the sweeps, recover), store.rs (the three tables),   *)
(* ipc_server.rs (the hook's connection), cc-hook (which fails open).          *)
(*                                                                             *)
(* A step is what a task does between two awaits. Everything is keyed by       *)
(* (session, request id), so one request is enough; it is joined to its call.  *)
(* A decision is "take" (Allow, or the answers of a question) or "refuse"      *)
(* (Deny, Decline). Deleted sessions, Codex runs, the doorbell, payload        *)
(* hashes and the events that announce a hold are left out.                    *)
EXTENDS Integers

CONSTANTS
  Cards,                \* the kinds of card: [question, fork]
  Hooks,                \* PermissionRequest hooks: the request and its replays
  Taps,                 \* answers sent by phones
  Closers,              \* tasks that close cards: tailer, sweeps, exits, Stop
  Recovery,             \* the start-up task that settles claims
  LOCAL_RESOLVE_MISSES, \* screen reads that prove a dialog is gone
  ReadsMiss,            \* bound: whether the log, read back, may miss a result
  MaxCrashes,           \* bound: crashes of the daemon
  MaxFaults             \* bound: writes that fail

ASSUME TasksAssumption ==
  /\ Hooks \cap Taps = {} /\ Hooks \cap Closers = {} /\ Taps \cap Closers = {}
  /\ Recovery \notin Hooks \cup Taps \cup Closers
  /\ "none" \notin Hooks \cup Taps \cup Closers \cup {Recovery}

ASSUME CardsAssumption == Cards \subseteq [question : BOOLEAN, fork : BOOLEAN]

ASSUME BoundsAssumption ==
  /\ LOCAL_RESOLVE_MISSES \in Nat \ {0} /\ ReadsMiss \in BOOLEAN
  /\ MaxCrashes \in Nat /\ MaxFaults \in Nat

VARIABLES
  card,     \* what is asked: a question or an approval, by the main agent or a fork
  call,     \* Claude's side: "asking", or how the call went
  took,     \* history: the tap whose decision Claude took
  alive,    \* hooks whose connection Claude has not ended
  post,     \* the PostToolUse hook of the call
  tailed,   \* the transcript line of the result has been read
  stopped,  \* a Stop hook of the main conversation arrived since the request
  exited,   \* the run has ended
  keyed,    \* KeyedCall: joined (PreToolUse seen), ended, rejected
  entry,    \* inner.pending for the request, or NoEntry
  chan,     \* the oneshot channel of each hook
  hook,     \* handle_permission_request, per hook
  tap,      \* answer, per tap
  work,     \* the outcome each task is writing
  gate,     \* who holds the answer gate
  asked,    \* the request is in the event log
  result,   \* the ToolResult is in the event log
  row,      \* pending_approvals: the hold of the stored card, or "none"
  claim,    \* answer_claims: the claiming tap's decision, or "none"
  ledger,   \* answers: the outcome, or NoOutcome
  told,     \* the resolution is in the event log
  up,       \* "up", or recovering before any socket is open
  crashes, faults

claudeVars == <<call, took, alive>>
newsVars == <<post, tailed, stopped, exited, keyed>>
logVars == <<asked, result>>
diskVars == <<row, claim, ledger, told>>
runVars == <<card, up, crashes>>
ramVars == <<entry, chan, hook, tap, work, gate>>
vars == <<claudeVars, newsVars, entry, chan, hook, tap, work, gate, logVars,
          diskVars, runVars, faults>>

-----------------------------------------------------------------------------
Decisions == {"take", "refuse"}
Ran == {"take", "other"}            \* "other": the Mac gave another answer
Holds == {"held", "at_mac", "ended"}
Workers == Hooks \cup Taps \cup Closers \cup {Recovery}

\* AnswerOutcome; sure means neither inferred nor indeterminate.
Outcomes == [by : {"phone", "mac"}, d : Decisions, sure : BOOLEAN]
NoOutcome == [by |-> "none"]
NoEntry == [hold |-> "none"]
Entries == [hold : Holds, resp : Hooks \cup {"none"}, claimed : BOOLEAN, ran : BOOLEAN,
            rejected : BOOLEAN, confirm : Taps \cup {"none"}, misses : 0..LOCAL_RESOLVE_MISSES]
Idle == [at |-> "idle"]
Present == entry # NoEntry

HookStates == {"idle", "register", "write", "unregister", "read", "turn", "ended",
               "persist", "wait", "back", "back_row", "gone", "gone_hold", "gone_row",
               "returned", "over"}
TapStates == {"idle", "gate", "entry", "claim", "unclaim", "hand", "send",
              "confirm", "release", "settle", "drop", "record", "remove", "clear", "done"}

HeldTypeOK ==
  /\ card \in Cards
  /\ call \in {"asking", "rejected"} \cup Ran
  /\ took \in Taps \cup {"none"}
  /\ alive \subseteq Hooks
  /\ post \in {"no", "writing", "filed", "done"}
  /\ {tailed, stopped, exited, asked, result, told} \subseteq BOOLEAN
  /\ up \in {"up", "down", "restoring"}
  /\ keyed \in [joined : BOOLEAN, ended : BOOLEAN, rejected : BOOLEAN]
  /\ entry \in Entries \cup {NoEntry}
  /\ chan \in [Hooks -> {"none", "open", "closed", "pass", "dead"} \cup Decisions]
  /\ hook \in [Hooks -> [at : HookStates, held : BOOLEAN, reg : BOOLEAN,
                         seen : {"open", "ran", "rejected"}, missed : BOOLEAN,
                         reply : {"none", "pass"} \cup Decisions]]
  /\ tap \in [Taps -> [at : TapStates, d : Decisions, resp : Hooks \cup {"none"},
                       conf : {"none", "lost"} \cup Ran, sent : BOOLEAN,
                       told : {"none", "applied", "duplicate", "refused", "unknown", "lost"}]]
  /\ work \in [Workers -> {Idle} \cup [at : {"gate", "ended", "take", "record", "announce"},
                                      o : Outcomes]]
  /\ gate \in Taps \cup Closers \cup {"none"}
  /\ row \in Holds \cup {"none"}
  /\ claim \in Decisions \cup {"none"}
  /\ ledger \in Outcomes \cup {NoOutcome}
  /\ crashes \in 0..MaxCrashes
  /\ faults \in 0..MaxFaults

Fresh == [at |-> "idle", held |-> FALSE, reg |-> FALSE, seen |-> "open", missed |-> FALSE,
          reply |-> "none"]

Untouched == [at |-> "idle", d |-> "take", resp |-> "none", conf |-> "none", sent |-> FALSE,
              told |-> "none"]

Init ==
  /\ card \in Cards
  /\ call = "asking" /\ took = "none" /\ alive = Hooks
  /\ post = "no" /\ tailed = FALSE /\ stopped = FALSE /\ exited = FALSE
  /\ keyed = [joined |-> TRUE, ended |-> FALSE, rejected |-> FALSE]
  /\ entry = NoEntry
  /\ chan = [h \in Hooks |-> "none"]
  /\ hook = [h \in Hooks |-> Fresh]
  /\ tap = [t \in Taps |-> Untouched]
  /\ work = [w \in Workers |-> Idle]
  /\ gate = "none"
  /\ asked = FALSE /\ result = FALSE
  /\ row = "none" /\ claim = "none" /\ ledger = NoOutcome /\ told = FALSE
  /\ up = "up" /\ crashes = 0 /\ faults = 0

-----------------------------------------------------------------------------
(* Channels and the card.                                                      *)

\* The sender of h is dropped unused: the receiver reads an error.
Close(ch, h) == [g \in Hooks |-> IF g = h /\ ch[g] = "open" THEN "closed" ELSE ch[g]]
Put(ch, h, v) == [g \in Hooks |-> IF g = h /\ ch[g] = "open" THEN v ELSE ch[g]]

\* The entry leaves the map; its responder and its confirm sender go with it.
Remove ==
  /\ entry' = NoEntry
  /\ chan' = IF Present THEN Close(chan, entry.resp) ELSE chan

\* end_call: a request read later sees that its call is over.
EndCall == keyed' = [keyed EXCEPT !.ended = keyed.joined]

\* A task that closes the card with outcome o.
Closing(w, o) == work' = [work EXCEPT ![w] = [at |-> "take", o |-> o]]
Local(d, sure) == [by |-> "mac", d |-> d, sure |-> sure]
Phone(d, sure) == [by |-> "phone", d |-> d, sure |-> sure]

\* settle_indeterminate: a claimed decision whose fate is unknown.
Settling(w, d) == work' = [work EXCEPT ![w] = [at |-> "record", o |-> Phone(d, FALSE)]]

Fault == faults < MaxFaults /\ faults' = faults + 1

-----------------------------------------------------------------------------
(* Claude and the Mac's keyboard.                                              *)

\* Someone at the Mac answers the dialog, or dismisses it.
MacAnswers(e) ==
  /\ call = "asking"
  /\ e = "other" => card.question
  /\ call' = e
  /\ UNCHANGED <<took, alive, newsVars, ramVars, logVars, diskVars, runVars, faults>>

\* Claude ends the hook: Escape, its own timeout, its death. cc-hook exits and
\* the connection closes, which the handler notices once it waits.
ClaudeEndsHook(h) ==
  /\ hook[h].at \in {"wait", "back", "back_row", "returned"}
  /\ h \in alive
  /\ alive' = alive \ {h}
  /\ UNCHANGED <<call, took, newsVars, ramVars, logVars, diskVars, runVars, faults>>

\* cc-hook prints the reply. Claude takes the first answer it gets.
ClaudeReads(h) ==
  LET d == hook[h].reply
      takes == h \in alive /\ call = "asking" /\ d \in Decisions IN
  /\ hook[h].at = "returned"
  /\ hook' = [hook EXCEPT ![h] = [Fresh EXCEPT !.at = "over"]]
  /\ call' = IF takes THEN (IF d = "take" THEN "take" ELSE "rejected") ELSE call
  /\ took' = IF takes THEN CHOOSE t \in Taps : tap[t].sent /\ tap[t].resp = h ELSE took
  /\ alive' = alive \ {h}
  /\ UNCHANGED <<newsVars, entry, chan, tap, work, gate, logVars, diskVars, runVars, faults>>

-----------------------------------------------------------------------------
(* How the daemon learns that the call is over.                                *)

\* note_tool_result, and for a question note_question_ran: a phone's answer in
\* Claude's hands learns what Claude ran with, a hook still held is let go.
Note ==
  LET waiting == card.question /\ entry.confirm # "none" IN
  IF ~Present THEN UNCHANGED <<entry, chan, tap>> ELSE
  /\ entry' = [entry EXCEPT !.ran = TRUE, !.confirm = "none",
                            !.resp = IF waiting THEN @ ELSE "none"]
  /\ chan' = IF waiting THEN chan
             ELSE IF card.question THEN Put(chan, entry.resp, "pass") ELSE Close(chan, entry.resp)
  /\ tap' = [t \in Taps |-> IF waiting /\ t = entry.confirm /\ tap[t].at \in {"send", "confirm"}
                            THEN [tap[t] EXCEPT !.conf = call] ELSE tap[t]]

\* PostToolUse arrives. A question is settled before anything is written.
PostBegin ==
  /\ up = "up" /\ post = "no" /\ call \in Ran
  /\ card.question
  /\ post' = "writing"
  /\ Note
  /\ UNCHANGED <<claudeVars, tailed, stopped, exited, keyed, hook, work, gate, logVars, diskVars,
                 runVars, faults>>

PostFile ==
  /\ \/ post = "writing"
     \/ ~card.question /\ up = "up" /\ post = "no" /\ call \in Ran
  /\ \/ post' = "filed" /\ result' = TRUE /\ UNCHANGED faults
     \/ Fault /\ post' = "done" /\ UNCHANGED result
  /\ UNCHANGED <<claudeVars, tailed, stopped, exited, keyed, ramVars, asked, diskVars, runVars>>

PostNote ==
  /\ post = "filed"
  /\ post' = "done"
  /\ Note
  /\ EndCall
  /\ UNCHANGED <<claudeVars, tailed, stopped, exited, hook, work, gate, logVars, diskVars, runVars,
                 faults>>

\* A PostToolUse hook that finds no daemon is lost.
PostLost ==
  /\ up # "up" /\ post = "no" /\ call \in Ran
  /\ post' = "done"
  /\ UNCHANGED <<claudeVars, tailed, stopped, exited, keyed, ramVars, logVars, diskVars, runVars,
                 faults>>

\* The tailer files the transcript line of the result with its cursor ...
TailRead(c) ==
  /\ up = "up" /\ ~tailed /\ call # "asking"
  /\ work[c] = Idle
  /\ tailed' = TRUE
  /\ work' = [work EXCEPT ![c] = [at |-> "ended",
                o |-> Local(IF call = "rejected" THEN "refuse" ELSE "take", TRUE)]]
  /\ UNCHANGED <<claudeVars, post, stopped, exited, keyed, entry, chan, hook, tap, gate, logVars,
                 diskVars, runVars, faults>>

\* Slip: a card that is already filed is left to the sweeps.
CallEnded_Slip(w) ==
  /\ work[w].at = "ended"
  /\ work' = [work EXCEPT ![w] = Idle]
  /\ keyed' = IF Present THEN keyed ELSE [keyed EXCEPT !.ended = keyed.joined]
  /\ UNCHANGED <<entry, chan, claudeVars, post, tailed, stopped, exited, hook, tap, gate, logVars,
                 diskVars, runVars, faults>>

\* ... and then says that the call is over: call_ended. An ordinary card is over,
\* its hook let go; without a card the call is remembered as over.
CallEnded(w) ==
  LET o == work[w].o IN
  /\ work[w].at = "ended"
  /\ IF Present /\ ~card.question
     THEN /\ entry' = [entry EXCEPT !.rejected = (o.d = "refuse" /\ ~entry.ran), !.ran = TRUE,
                                    !.resp = "none"]
          /\ chan' = Close(chan, entry.resp)
          /\ Closing(w, o)
          /\ UNCHANGED keyed
     ELSE /\ work' = [work EXCEPT ![w] = Idle]
          /\ keyed' = IF Present THEN keyed
                      ELSE [keyed EXCEPT !.ended = keyed.joined,
                                         !.rejected = keyed.joined /\ o.d = "refuse"]
          /\ UNCHANGED <<entry, chan>>
  /\ UNCHANGED <<claudeVars, post, tailed, stopped, exited, hook, tap, gate, logVars, diskVars,
                 runVars, faults>>

\* main_thread_moved: the turn ended over a question of the main conversation
\* that is still held. Its hook is let go and its card closes.
Moved(w) ==
  IF Present /\ ~entry.claimed /\ entry.resp # "none"
  THEN /\ chan' = Put(chan, entry.resp, "pass")
       /\ entry' = [entry EXCEPT !.resp = "none"]
       /\ Closing(w, Local("refuse", FALSE))
  ELSE UNCHANGED <<chan, entry, work>>

StopHook(c) ==
  /\ up = "up" /\ ~stopped /\ call # "asking"
  /\ card.question /\ ~card.fork
  /\ work[c] = Idle
  /\ stopped' = TRUE
  /\ Moved(c)
  /\ UNCHANGED <<claudeVars, post, tailed, exited, keyed, hook, tap, gate, logVars, diskVars,
                 runVars, faults>>

\* mark_exited: the run has ended. Its cards are read now, closed later.
RunExits(c) ==
  /\ up = "up" /\ ~exited
  /\ work[c] = Idle
  /\ exited' = TRUE
  /\ call' = IF call = "asking" THEN "rejected" ELSE call
  /\ work' = [work EXCEPT ![c] = IF Present THEN [at |-> "gate", o |-> Local("refuse", FALSE)]
                                            ELSE Idle]
  /\ UNCHANGED <<took, alive, post, tailed, stopped, keyed, entry, chan, hook, tap, gate, logVars,
                 diskVars, runVars, faults>>

\* close_card_of_ended_run: behind any answer in flight on the card.
CloseCard(c) ==
  /\ work[c].at = "gate"
  /\ gate = "none"
  /\ IF Present
     THEN /\ entry' = [entry EXCEPT !.resp = "none"]
          /\ chan' = Close(chan, entry.resp)
          /\ gate' = c
          /\ Closing(c, work[c].o)
     ELSE work' = [work EXCEPT ![c] = Idle] /\ UNCHANGED <<entry, chan, gate>>
  /\ UNCHANGED <<claudeVars, newsVars, hook, tap, logVars, diskVars, runVars, faults>>

-----------------------------------------------------------------------------
(* The sweeps: only cards no phone is answering, and no held card by age or    *)
(* by the screen.                                                              *)

\* Slip: a card whose hook ended, or that a restart brought back, does not age.
Expire_Slip(c) ==
  /\ up = "up" /\ work[c] = Idle
  /\ Present /\ ~entry.claimed
  /\ ~card.question /\ entry.hold = "at_mac"
  /\ Closing(c, Local("refuse", FALSE))
  /\ UNCHANGED <<claudeVars, newsVars, entry, chan, hook, tap, gate, logVars, diskVars, runVars,
                 faults>>

Expire(c) ==
  /\ up = "up" /\ work[c] = Idle
  /\ Present /\ ~entry.claimed
  /\ ~card.question /\ entry.hold # "held"
  /\ Closing(c, Local("refuse", FALSE))
  /\ UNCHANGED <<claudeVars, newsVars, entry, chan, hook, tap, gate, logVars, diskVars, runVars,
                 faults>>

SweepRan(c) ==
  /\ up = "up" /\ work[c] = Idle
  /\ Present /\ ~entry.claimed
  /\ entry.ran
  /\ Closing(c, Local(IF entry.rejected /\ ~card.question THEN "refuse" ELSE "take", TRUE))
  /\ UNCHANGED <<claudeVars, newsVars, entry, chan, hook, tap, gate, logVars, diskVars, runVars,
                 faults>>

\* One reading of the run's screen: the composer is back, or not.
SweepScreen(c, back) ==
  LET n == IF ~back THEN 0 ELSE IF entry.misses = LOCAL_RESOLVE_MISSES THEN entry.misses
                                ELSE entry.misses + 1 IN
  /\ up = "up" /\ work[c] = Idle
  /\ Present /\ ~entry.claimed
  /\ ~entry.ran /\ entry.hold # "held"
  /\ entry' = [entry EXCEPT !.misses = n]
  /\ IF n = LOCAL_RESOLVE_MISSES THEN Closing(c, Local("refuse", FALSE)) ELSE UNCHANGED work
  /\ UNCHANGED <<claudeVars, newsVars, chan, hook, tap, gate, logVars, diskVars, runVars, faults>>

-----------------------------------------------------------------------------
(* resolve_without_phone, and the writes it shares with settle_indeterminate   *)
(* and with the end of answer.                                                 *)

\* Slip: a card a phone has claimed is taken too.
Take_Slip(w) ==
  /\ work[w].at = "take"
  /\ IF Present THEN Remove /\ EndCall /\ work' = [work EXCEPT ![w].at = "record"]
     ELSE work' = [work EXCEPT ![w] = Idle] /\ UNCHANGED <<entry, chan, keyed>>
  /\ gate' = IF ~Present /\ gate = w THEN "none" ELSE gate
  /\ UNCHANGED <<claudeVars, post, tailed, stopped, exited, hook, tap, logVars, diskVars, runVars,
                 faults>>

\* Claim by removal, unless a phone's answer has claimed the card.
Take(w) ==
  /\ work[w].at = "take"
  /\ IF Present /\ ~entry.claimed
     THEN /\ Remove
          /\ EndCall
          /\ work' = [work EXCEPT ![w].at = "record"]
          /\ UNCHANGED gate
     ELSE /\ work' = [work EXCEPT ![w] = Idle]
          /\ gate' = IF gate = w THEN "none" ELSE gate
          /\ UNCHANGED <<entry, chan, keyed>>
  /\ UNCHANGED <<claudeVars, post, tailed, stopped, exited, hook, tap, logVars, diskVars, runVars,
                 faults>>

\* Slip: the last outcome stays.
Write_Slip(o) == ledger' = o /\ claim' = "none"

\* record_answer: the first outcome stays, and settles the claim with it.
Write(o) ==
  IF ledger = NoOutcome THEN ledger' = o /\ claim' = "none" ELSE UNCHANGED <<ledger, claim>>

\* A failed write ends settle_indeterminate, and nothing else.
Record(w) ==
  /\ work[w].at = "record"
  /\ \/ /\ Write(work[w].o)
        /\ work' = [work EXCEPT ![w].at = "announce"]
        /\ UNCHANGED faults
     \/ /\ Fault
        /\ work' = IF w \in Taps \cup {Recovery} THEN [work EXCEPT ![w] = Idle]
                   ELSE [work EXCEPT ![w].at = "announce"]
        /\ UNCHANGED <<ledger, claim>>
  /\ UNCHANGED <<claudeVars, newsVars, entry, chan, hook, tap, gate, logVars, row, told, runVars>>

\* The row goes, and the resolution is filed once under its source id.
Announce(w) ==
  /\ work[w].at = "announce"
  /\ row' = "none"
  /\ told' = TRUE
  /\ work' = [work EXCEPT ![w] = Idle]
  /\ gate' = IF gate = w /\ w \in Closers THEN "none" ELSE gate
  /\ UNCHANGED <<claudeVars, newsVars, entry, chan, hook, tap, logVars, claim, ledger, runVars,
                 faults>>

-----------------------------------------------------------------------------
(* handle_permission_request.                                                  *)

At(h, a) == hook' = [hook EXCEPT ![h].at = a]
\* The handler returns; its locals and the receiver it waited on are gone.
Returned(v) == [Fresh EXCEPT !.at = "returned", !.reply = v]
Return(h, v) ==
  /\ hook' = [hook EXCEPT ![h] = Returned(v)]
  /\ chan' = [chan EXCEPT ![h] = "dead"]

\* The request is joined to its call and the hold decided: an ordinary call that
\* is over is not held, and a card is not held when someone is at the Mac, when
\* this cc-hook does not wait, or when its payload is too large for a phone. A
\* replay comes after the request it repeats was filed, and is done with before
\* it would look at how its call ended.
Arrive(h, held) ==
  /\ up = "up" /\ keyed.joined /\ ~exited
  /\ hook[h].at = "idle"
  /\ asked \/ \A g \in Hooks : hook[g].at = "idle"
  /\ held => card.question \/ ~keyed.ended
  /\ hook' = [hook EXCEPT ![h].at = "register", ![h].held = held,
                          ![h].seen = IF asked \/ ~keyed.ended THEN "open"
                                      ELSE IF keyed.rejected THEN "rejected" ELSE "ran"]
  /\ UNCHANGED <<claudeVars, newsVars, entry, chan, tap, work, gate, logVars, diskVars, runVars,
                 faults>>

\* Registered before the card is written. A request already registered is a
\* replay and keeps its entry.
Register(h) ==
  /\ hook[h].at = "register"
  /\ hook' = [hook EXCEPT ![h].at = "write", ![h].reg = ~Present]
  /\ chan' = [chan EXCEPT ![h] = IF hook[h].held THEN "open" ELSE "none"]
  /\ entry' = IF Present THEN entry
              ELSE [hold |-> IF hook[h].held THEN "held" ELSE "at_mac",
                    resp |-> IF hook[h].held THEN h ELSE "none",
                    claimed |-> FALSE, ran |-> FALSE, rejected |-> FALSE,
                    confirm |-> "none", misses |-> 0]
  /\ UNCHANGED <<claudeVars, newsVars, tap, work, gate, logVars, diskVars, runVars, faults>>

\* Slip: a duplicate leaves its registration behind.
WriteCard_Slip(h) ==
  /\ hook[h].at = "write"
  /\ IF asked THEN Return(h, "pass") ELSE At(h, "read") /\ UNCHANGED chan
  /\ asked' = TRUE
  /\ UNCHANGED <<claudeVars, newsVars, entry, tap, work, gate, result, diskVars, runVars, faults>>

\* The card goes to the log and the phones. A duplicate, or a write that fails,
\* takes its registration back.
WriteCard(h) ==
  /\ hook[h].at = "write"
  /\ \/ ~asked /\ asked' = TRUE /\ At(h, "read") /\ UNCHANGED <<faults, chan>>
     \/ /\ IF asked THEN UNCHANGED faults ELSE Fault
        /\ IF hook[h].reg THEN At(h, "unregister") /\ UNCHANGED chan ELSE Return(h, "pass")
        /\ UNCHANGED asked
  /\ UNCHANGED <<claudeVars, newsVars, entry, tap, work, gate, result, diskVars, runVars>>

Unregister(h) ==
  /\ hook[h].at = "unregister"
  /\ entry' = NoEntry
  /\ hook' = [hook EXCEPT ![h] = Returned("pass")]
  /\ chan' = [(IF Present THEN Close(chan, entry.resp) ELSE chan) EXCEPT ![h] = "dead"]
  /\ tap' = [t \in Taps |-> IF Present /\ entry.confirm = t /\ tap[t].conf = "none"
                            THEN [tap[t] EXCEPT !.conf = "lost"] ELSE tap[t]]
  /\ UNCHANGED <<claudeVars, newsVars, work, gate, logVars, diskVars, runVars, faults>>

\* Slip: nothing is read back.
ReadBack_Slip(h) ==
  /\ hook[h].at = "read"
  /\ At(h, "turn")
  /\ UNCHANGED <<claudeVars, newsVars, entry, chan, tap, work, gate, logVars, diskVars, runVars,
                 faults>>

\* What was filed before the registration is read back from the log. The read may miss a
\* result: a query fails, the call's own event is not found, or a thousand events lie
\* before the result. Then it goes on as if nothing had been filed ...
ReadBack(h) ==
  /\ hook[h].at = "read"
  /\ \E missed \in BOOLEAN :
       /\ missed => result /\ ReadsMiss
       /\ hook' = [hook EXCEPT ![h].at = IF card.question /\ ~card.fork THEN "turn" ELSE "ended",
                               ![h].missed = missed]
       /\ IF result /\ ~missed THEN Note /\ EndCall ELSE UNCHANGED <<entry, chan, tap, keyed>>
  /\ UNCHANGED <<claudeVars, post, tailed, stopped, exited, work, gate, logVars, diskVars, runVars,
                 faults>>

\* ... likewise the end of the turn ...
TurnOver(h) ==
  /\ hook[h].at = "turn"
  /\ At(h, "ended")
  /\ IF stopped THEN Moved(h) ELSE UNCHANGED <<entry, chan, work>>
  /\ UNCHANGED <<claudeVars, newsVars, tap, gate, logVars, diskVars, runVars, faults>>

\* ... and the end of the call.
SeenEnded(h) ==
  /\ hook[h].at = "ended" /\ work[h] = Idle
  /\ hook[h].seen # "open"
  /\ hook' = [hook EXCEPT ![h].seen = "open"]
  /\ work' = [work EXCEPT ![h] = [at |-> "ended",
                o |-> Local(IF hook[h].seen = "rejected" THEN "refuse" ELSE "take", TRUE)]]
  /\ UNCHANGED <<claudeVars, newsVars, entry, chan, tap, gate, logVars, diskVars, runVars, faults>>

\* Resolved while its card was being written: nothing to hold.
StillOpen(h) ==
  /\ hook[h].at = "ended" /\ work[h] = Idle
  /\ hook[h].seen = "open"
  /\ IF Present THEN At(h, "persist") /\ UNCHANGED chan ELSE Return(h, "pass")
  /\ UNCHANGED <<claudeVars, newsVars, entry, tap, work, gate, logVars, diskVars, runVars, faults>>

\* persist_pending, best effort; a card that is not held goes to the Mac.
Persist(h) ==
  /\ hook[h].at = "persist"
  /\ \/ row' = (IF hook[h].held THEN "held" ELSE "at_mac") /\ UNCHANGED faults
     \/ Fault /\ UNCHANGED row
  /\ IF hook[h].held THEN At(h, "wait") /\ UNCHANGED chan ELSE Return(h, "pass")
  /\ UNCHANGED <<claudeVars, newsVars, entry, tap, work, gate, logVars, claim, ledger, told, runVars>>

\* The select: the phone's decision, or a channel closed or passed over ...
Answered(h) ==
  /\ hook[h].at \in {"wait", "back", "back_row"}
  /\ chan[h] \notin {"open", "none"}
  /\ Return(h, IF chan[h] = "closed" THEN "pass" ELSE chan[h])
  /\ UNCHANGED <<claudeVars, newsVars, entry, tap, work, gate, logVars, diskVars, runVars, faults>>

\* ... or Claude ended the hook: hook_ended, the receiver already dropped ...
Gone(h) ==
  /\ hook[h].at \in {"wait", "back", "back_row"}
  /\ h \notin alive
  /\ At(h, "gone")
  /\ chan' = [chan EXCEPT ![h] = "dead"]
  /\ UNCHANGED <<claudeVars, newsVars, entry, tap, work, gate, logVars, diskVars, runVars, faults>>

\* ... (with current settings the end of a question's hook is the end of the
\* question) ...
HookEnded(h, current) ==
  /\ hook[h].at = "gone"
  /\ IF ~Present THEN Return(h, "pass") /\ UNCHANGED work
     ELSE /\ At(h, "gone_hold")
          /\ UNCHANGED chan
          /\ IF card.question /\ current THEN Closing(h, Local("refuse", FALSE)) ELSE UNCHANGED work
  /\ UNCHANGED <<claudeVars, newsVars, entry, tap, gate, logVars, diskVars, runVars, faults>>

\* ... or someone is back at the Mac, and a background agent's card is theirs. A
\* phone's answer in flight is left to finish.
SomeoneReturns(h) ==
  /\ hook[h].at = "wait" /\ card.fork
  /\ Present /\ ~entry.claimed /\ entry.resp # "none"
  /\ entry' = [entry EXCEPT !.resp = "none"]
  /\ At(h, "back")
  /\ UNCHANGED <<claudeVars, newsVars, chan, tap, work, gate, logVars, diskVars, runVars, faults>>

\* set_question_hold: the card first, its row in a step of its own.
HoldOf(h) == IF hook[h].at \in {"back", "back_row"} THEN "at_mac" ELSE "ended"
SetHold(h) ==
  /\ hook[h].at \in {"back", "gone_hold"} /\ work[h] = Idle
  /\ IF Present
     THEN /\ entry' = [entry EXCEPT !.hold = HoldOf(h)]
          /\ At(h, IF hook[h].at = "back" THEN "back_row" ELSE "gone_row")
          /\ UNCHANGED chan
     ELSE Return(h, "pass") /\ UNCHANGED entry
  /\ UNCHANGED <<claudeVars, newsVars, tap, work, gate, logVars, diskVars, runVars, faults>>

HoldRow(h) ==
  /\ hook[h].at \in {"back_row", "gone_row"}
  /\ row' = HoldOf(h)
  /\ Return(h, "pass")
  /\ UNCHANGED <<claudeVars, newsVars, entry, tap, work, gate, logVars, claim, ledger, told, runVars,
                 faults>>

-----------------------------------------------------------------------------
(* answer: a phone's decision.                                                 *)

TapTo(t, a) == tap' = [tap EXCEPT ![t].at = a]
\* The answer is given to the phone and the gate released. What a decision that
\* was sent said, and to which hook, stays on record.
Tell(t, r) ==
  /\ tap' = [tap EXCEPT ![t] = [(IF tap[t].sent THEN tap[t] ELSE Untouched)
                                EXCEPT !.at = "done", !.told = r, !.conf = "none"]]
  /\ gate' = "none"

\* A phone that has seen the card.
TapBegin(t, d) ==
  /\ up = "up" /\ asked
  /\ tap[t].at = "idle"
  /\ tap' = [tap EXCEPT ![t].at = "gate", ![t].d = d]
  /\ UNCHANGED <<claudeVars, newsVars, entry, chan, hook, work, gate, logVars, diskVars, runVars,
                 faults>>

\* Slip: a claim nobody settled is overlooked.
TapLedger_Slip(t) ==
  /\ tap[t].at = "gate" /\ gate = "none"
  /\ IF ledger # NoOutcome THEN Tell(t, "duplicate") ELSE gate' = t /\ TapTo(t, "entry")
  /\ UNCHANGED <<claudeVars, newsVars, entry, chan, hook, work, logVars, diskVars, runVars, faults>>

\* 0 to 2: behind the gate, the ledger wins over everything, and a claim nobody
\* settled is settled as unknown: nothing is sent again. A ledger or a claim that cannot be
\* read refuses the answer.
TapLedger(t) ==
  /\ tap[t].at = "gate" /\ gate = "none"
  /\ \/ ledger # NoOutcome /\ Tell(t, "duplicate") /\ UNCHANGED work
     \/ /\ ledger = NoOutcome
        /\ gate' = t
        /\ IF claim = "none" THEN TapTo(t, "entry") /\ UNCHANGED work
           ELSE TapTo(t, "settle") /\ Settling(t, claim)
     \/ Tell(t, "refused") /\ UNCHANGED work
  /\ UNCHANGED <<claudeVars, newsVars, entry, chan, hook, logVars, diskVars, runVars, faults>>

\* hook_decision: only a held hook whose call is not over carries a decision.
Carries == Present /\ entry.hold = "held" /\ entry.resp # "none" /\ ~entry.ran

\* 3: claimed in memory, so that a local resolution backs off.
TapEntry(t) ==
  /\ tap[t].at = "entry"
  /\ IF Carries
     THEN entry' = [entry EXCEPT !.claimed = TRUE] /\ TapTo(t, "claim") /\ UNCHANGED gate
     ELSE Tell(t, "refused") /\ UNCHANGED entry
  /\ UNCHANGED <<claudeVars, newsVars, chan, hook, work, logVars, diskVars, runVars, faults>>

\* Slip: claimed in memory only.
TapClaim_Slip(t) ==
  /\ tap[t].at = "claim"
  /\ TapTo(t, "hand")
  /\ UNCHANGED <<claudeVars, newsVars, entry, chan, hook, work, gate, logVars, diskVars, runVars,
                 faults>>

\* 4: claimed durably, before anything is handed over.
TapClaim(t) ==
  /\ tap[t].at = "claim"
  /\ \/ claim' = tap[t].d /\ TapTo(t, "hand") /\ UNCHANGED faults
     \/ Fault /\ TapTo(t, "unclaim") /\ UNCHANGED claim
  /\ UNCHANGED <<claudeVars, newsVars, entry, chan, hook, work, gate, logVars, row, ledger, told,
                 runVars>>

\* 5: the hook is taken only now, under the lock ...
TapHand(t) ==
  /\ tap[t].at = "hand"
  /\ tap' = [tap EXCEPT ![t].at = IF Present /\ entry.resp # "none" THEN "send" ELSE "release",
                        ![t].resp = IF Present THEN entry.resp ELSE "none"]
  /\ entry' = IF ~Present THEN entry
              ELSE [entry EXCEPT !.resp = "none", !.confirm = IF card.question THEN t ELSE @]
  /\ UNCHANGED <<claudeVars, newsVars, chan, hook, work, gate, logVars, diskVars, runVars, faults>>

\* ... and the decision sent, unless the handler has stopped listening.
TapSend(t) ==
  /\ tap[t].at = "send"
  /\ IF chan[tap[t].resp] = "open"
     THEN /\ chan' = Put(chan, tap[t].resp, tap[t].d)
          /\ tap' = [tap EXCEPT ![t].at = IF card.question THEN "confirm" ELSE "record",
                                ![t].sent = TRUE]
     ELSE TapTo(t, "release") /\ UNCHANGED chan
  /\ UNCHANGED <<claudeVars, newsVars, entry, hook, work, gate, logVars, diskVars, runVars, faults>>

\* Slip: an answer that is not confirmed in time is reported as unused.
TapConfirm_Slip(t) ==
  /\ tap[t].at = "confirm"
  /\ TapTo(t, IF tap[t].conf = tap[t].d THEN "record" ELSE "release")
  /\ UNCHANGED <<claudeVars, newsVars, entry, chan, hook, work, gate, logVars, diskVars, runVars,
                 faults>>

\* apply_question: the answer Claude ran with, or none in time.
TapConfirm(t) ==
  /\ tap[t].at = "confirm"
  /\ \/ /\ tap[t].conf \in Ran
        /\ TapTo(t, IF tap[t].conf = tap[t].d THEN "record" ELSE "release")
        /\ UNCHANGED work
     \/ /\ tap[t].conf \in {"none", "lost"}
        /\ TapTo(t, "settle")
        /\ Settling(t, tap[t].d)
  /\ UNCHANGED <<claudeVars, newsVars, entry, chan, hook, gate, logVars, diskVars, runVars, faults>>

\* Refused: the claim is released, unless that write fails, which is not looked at.
TapRelease(t) ==
  /\ tap[t].at = "release"
  /\ \/ claim' = "none" /\ UNCHANGED faults
     \/ Fault /\ UNCHANGED claim
  /\ TapTo(t, "unclaim")
  /\ UNCHANGED <<claudeVars, newsVars, entry, chan, hook, work, gate, logVars, row, ledger, told,
                 runVars>>

\* The card is answerable again.
TapUnclaim(t) ==
  /\ tap[t].at = "unclaim"
  /\ entry' = IF Present THEN [entry EXCEPT !.claimed = FALSE] ELSE entry
  /\ Tell(t, "refused")
  /\ UNCHANGED <<claudeVars, newsVars, chan, hook, work, logVars, diskVars, runVars, faults>>

\* Settled as unknown: the card goes, the phone is told what the ledger says, if it can
\* be read.
TapSettled(t) ==
  /\ tap[t].at = "settle" /\ work[t] = Idle
  /\ Remove
  /\ \/ ledger # NoOutcome /\ Tell(t, "duplicate")
     \/ Tell(t, "unknown")
  /\ UNCHANGED <<claudeVars, newsVars, hook, work, logVars, diskVars, runVars, faults>>

\* 6: the outcome, which also clears the claim. A failed write leaves the claim.
TapRecord(t) ==
  /\ tap[t].at = "record"
  /\ tap' = [tap EXCEPT ![t].at = "remove",
                        ![t].told = IF ledger = NoOutcome THEN "applied" ELSE "duplicate"]
  /\ \/ Write(Phone(tap[t].d, card.question)) /\ UNCHANGED faults
     \/ ledger = NoOutcome /\ Fault /\ UNCHANGED <<ledger, claim>>
  /\ UNCHANGED <<claudeVars, newsVars, entry, chan, hook, work, gate, logVars, row, told, runVars>>

TapRemove(t) ==
  /\ tap[t].at = "remove"
  /\ Remove
  /\ EndCall
  /\ TapTo(t, "clear")
  /\ UNCHANGED <<claudeVars, post, tailed, stopped, exited, hook, work, gate, logVars, diskVars,
                 runVars, faults>>

TapClear(t) ==
  /\ tap[t].at = "clear"
  /\ row' = "none"
  /\ told' = TRUE
  /\ Tell(t, tap[t].told)
  /\ UNCHANGED <<claudeVars, newsVars, entry, chan, hook, work, logVars, claim, ledger, runVars,
                 faults>>

-----------------------------------------------------------------------------
(* The daemon dies; what it comes back with.                                   *)

Crash ==
  /\ crashes < MaxCrashes
  /\ crashes' = crashes + 1
  /\ up' = "down"
  /\ entry' = NoEntry
  /\ chan' = [h \in Hooks |-> "dead"]
  /\ hook' = [h \in Hooks |-> IF hook[h].at \in {"idle", "over"} THEN hook[h]
                              ELSE [Fresh EXCEPT !.at = "over"]]
  /\ tap' = [t \in Taps |-> IF tap[t].at \in {"idle", "done"} THEN tap[t]
                            ELSE [tap[t] EXCEPT !.at = "done", !.told = "lost"]]
  /\ work' = [w \in Workers |-> Idle]
  /\ gate' = "none"
  /\ keyed' = [joined |-> FALSE, ended |-> FALSE, rejected |-> FALSE]
  /\ post' = IF post = "no" THEN "no" ELSE "done"
  /\ alive' = {h \in alive : hook[h].at = "idle"}
  /\ UNCHANGED <<call, took, tailed, stopped, exited, logVars, diskVars, card, faults>>

\* recover, before any socket is open: an unsettled claim becomes an unknown
\* outcome ...
RecoverClaim ==
  /\ up = "down"
  /\ up' = "restoring"
  /\ work' = IF claim = "none" \/ ledger # NoOutcome THEN work
             ELSE [work EXCEPT ![Recovery] = [at |-> "record", o |-> Phone(claim, FALSE)]]
  /\ UNCHANGED <<claudeVars, newsVars, entry, chan, hook, tap, gate, logVars, diskVars, card,
                 crashes, faults>>

\* ... and cards without an outcome come back; none is held, for no hook is.
Restore ==
  LET back == row # "none" /\ ledger = NoOutcome
      hold == IF row = "held" THEN "ended" ELSE row IN
  /\ up = "restoring" /\ work[Recovery] = Idle
  /\ up' = "up"
  /\ entry' = IF back THEN [hold |-> hold, resp |-> "none", claimed |-> FALSE, ran |-> FALSE,
                            rejected |-> FALSE, confirm |-> "none", misses |-> 0]
              ELSE NoEntry
  /\ row' = IF back THEN hold ELSE row
  /\ UNCHANGED <<claudeVars, newsVars, chan, hook, tap, work, gate, logVars, claim, ledger, told,
                 card, crashes, faults>>

-----------------------------------------------------------------------------
Outcome(w) == CallEnded(w) \/ Take(w) \/ Record(w) \/ Announce(w)

HookStep(h) ==
  \/ Register(h) \/ WriteCard(h) \/ Unregister(h) \/ ReadBack(h) \/ TurnOver(h) \/ SeenEnded(h)
  \/ StillOpen(h) \/ Persist(h) \/ Answered(h) \/ Gone(h) \/ SetHold(h) \/ HoldRow(h)
  \/ \E current \in BOOLEAN : HookEnded(h, current)

TapStep(t) ==
  \/ TapLedger(t) \/ TapEntry(t) \/ TapClaim(t) \/ TapHand(t) \/ TapSend(t)
  \/ TapConfirm(t) \/ TapRelease(t) \/ TapUnclaim(t) \/ TapSettled(t) \/ TapRecord(t)
  \/ TapRemove(t) \/ TapClear(t)

News == PostBegin \/ PostFile \/ PostNote \/ \E c \in Closers : TailRead(c)
Sweeps == \E c \in Closers : Expire(c) \/ SweepRan(c)

Next ==
  \/ \E e \in Ran \cup {"rejected"} : MacAnswers(e)
  \/ \E h \in Hooks : ClaudeEndsHook(h) \/ ClaudeReads(h) \/ HookStep(h) \/ SomeoneReturns(h)
  \/ \E h \in Hooks, held \in BOOLEAN : Arrive(h, held)
  \/ \E t \in Taps : TapStep(t) \/ \E d \in Decisions : TapBegin(t, d)
  \/ \E c \in Closers : StopHook(c) \/ RunExits(c) \/ CloseCard(c)
  \/ \E c \in Closers, back \in BOOLEAN : SweepScreen(c, back)
  \/ \E w \in Workers : Outcome(w)
  \/ News \/ PostLost \/ Sweeps
  \/ Crash \/ RecoverClaim \/ Restore

Spec == Init /\ [][Next]_vars

\* The daemon's tasks are polled, its tickers tick and the tailer reads; Claude,
\* the Mac and the phones do as they please.
Fairness ==
  /\ \A h \in Hooks : WF_vars(HookStep(h) \/ Outcome(h))
  /\ \A t \in Taps : WF_vars(TapStep(t) \/ Outcome(t))
  /\ \A c \in Closers : WF_vars(CloseCard(c) \/ Outcome(c))
  /\ WF_vars(RecoverClaim \/ Restore \/ Outcome(Recovery))
  /\ WF_vars(\E c \in Closers : TailRead(c))
  /\ WF_vars(\E c \in Closers : Expire(c))
  /\ WF_vars(\E c \in Closers : SweepRan(c))

FairSpec == Spec /\ Fairness

-----------------------------------------------------------------------------
\* At most one phone's decision is ever handed to the hooks of this request, not
\* counting one reported back as unused, whatever fails and however often the
\* daemon restarts.
HandedOnce ==
  \A t, u \in {v \in Taps : tap[v].sent /\ tap[v].told # "refused"} : t = u

\* A decision Claude took, or may still take, is covered on disk by its claim or
\* by an outcome: no restart can forget that it was sent.
SentIsOnDisk ==
  \A t \in Taps : tap[t].sent /\ (took = t \/ call = "asking")
                => claim # "none" \/ ledger # NoOutcome

\* A phone told that its answer was not used is told the truth: Claude never
\* acts on it, then or later.
RefusedIsInert ==
  \A t \in Taps : tap[t].told = "refused" =>
    /\ took # t
    /\ \A h \in Hooks : tap[t].sent /\ tap[t].resp = h /\ hook[h].at # "over" /\ h \in alive
                        => call # "asking"

\* An outcome recorded as observed is what happened to the call, and the Mac is
\* not credited with a decision Claude took from a phone, unless a write failed.
OutcomeIsTrue ==
  ledger # NoOutcome =>
    /\ ledger.sure => call \in (IF ledger.d = "take" THEN Ran ELSE {"rejected"})
    /\ took # "none" => ledger.by = "phone" \/ faults > 0

\* What the phones' decisions come to: what was sent, and who was told that it
\* was not used.
SentBy == [t \in Taps |-> IF tap[t].sent THEN tap[t].d ELSE "none"]
ToldUnused == {t \in Taps : tap[t].sent /\ tap[t].told = "refused"}

Abstract == INSTANCE OneDecision
              WITH Phones <- Taps, sent <- SentBy, unused <- ToldUnused, outcome <- ledger,
                   failed <- (faults > 0)

\* Every step of the hooks, the answers, the sweeps, the crash and the recovery
\* is a step of the one decision, or none.
RefinesOneDecision == Abstract!Spec

\* A card in memory whose request has an outcome is about to be removed: no
\* phantom blocks the session.
NoPhantom ==
  Present /\ ledger # NoOutcome =>
    \/ \E t \in Taps : tap[t].at \in {"settle", "remove"}
    \/ \E h \in Hooks : hook[h].at \in {"write", "unregister"} /\ hook[h].reg

\* A hook waits on past its call's filed result only until that result is noted,
\* or a phone's answer already in hand is sent: a result filed while the request
\* was being registered is not lost between the two, unless the read of the log
\* itself missed it.
ResultLetsGo ==
  \A h \in Hooks : hook[h].at = "wait" /\ chan[h] = "open" /\ result =>
    \/ post = "filed" \/ hook[h].missed
    \/ \E t \in Taps : tap[t].at = "send" /\ tap[t].resp = h

\* A result that is read from the transcript while an ordinary card is held lets
\* its hook go.
HooksAreReleased ==
  \A h \in Hooks : hook[h].at = "wait" /\ ~card.question /\ call # "asking" /\ ~tailed
                  ~> hook[h].at \in {"returned", "over"}

\* An ordinary card closes once it is not held, or once the transcript line of
\* its call's result is still to be read.
CardsClose ==
  /\ ~card.question /\ Present
  /\ entry.hold # "held" \/ (call # "asking" /\ ~tailed)
  ~> ~Present

\* While the run goes on, the transcript line of its call's result closes an
\* ordinary card "even when Claude does not end its hook" (the comment on
\* call_ended). The code breaks this: a line read between
\* the look at the call and the registration of the card finds no card to
\* close, and nothing looks for it again.
TranscriptCloses ==
  ~card.question /\ Present /\ call # "asking" /\ tailed ~> ~Present \/ exited

\* A decision reported as sent to Claude is what the hook returned, unless
\* Claude ended the hook first.
SentIsReturned ==
  \A t \in Taps : tap[t].told = "applied" /\ tap[t].at = "done" =>
    \A h \in Hooks : tap[t].resp = h /\ h \in alive /\ hook[h].at = "returned"
                     => hook[h].reply = tap[t].d

=============================================================================
