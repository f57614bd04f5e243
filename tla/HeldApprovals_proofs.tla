------------------------- MODULE HeldApprovals_proofs -------------------------
(***************************************************************************)
(* Theorems about the held approval, for any cards, hooks, phones, closing *)
(* tasks and numbers of crashes and failed writes.                         *)
(*                                                                         *)
(* None of the properties is inductive.  What they rest on: the answer     *)
(* gate is held by one tap from the check of the ledger to its last write; *)
(* a decision is in one channel, whose sender is in the card or in the     *)
(* hand of one tap; one hook only gets past filing the card, and a card a  *)
(* replay brought back stays only while that replay is being refused;      *)
(* after a crash no hook is held again; a rejection is told once, by one   *)
(* task; and while a decision may reach Claude its card is claimed, or     *)
(* gone with the daemon, so that nobody else writes the outcome.           *)
(*                                                                         *)
(* The proof has three layers.  The first says which steps change a        *)
(* variable at all (Frames) and what they make of a hook, a channel, the   *)
(* card, a tap and a task; the second shows each part of the invariant     *)
(* from those; the third maps each step to one of OneDecision or to none.  *)
(***************************************************************************)
EXTENDS HeldApprovals, TLAPS

(* The type invariant, by variable.                                        *)

HookRec == [at : HookStates, held : BOOLEAN, reg : BOOLEAN,
            seen : {"open", "ran", "rejected"}, missed : BOOLEAN,
            reply : {"none", "pass"} \cup Decisions]
TapRec == [at : TapStates, d : Decisions, resp : Hooks \cup {"none"},
           conf : {"none", "lost"} \cup Ran, sent : BOOLEAN,
           told : {"none", "applied", "duplicate", "refused", "unknown", "lost"}]
WorkRec == [at : {"gate", "ended", "take", "record", "announce"}, o : Outcomes]
ChanStates == {"none", "open", "closed", "pass", "dead"} \cup Decisions

ClaudeType == /\ call \in {"asking", "rejected"} \cup Ran
              /\ took \in Taps \cup {"none"}
              /\ alive \subseteq Hooks
NewsType == /\ post \in {"no", "writing", "filed", "done"}
            /\ tailed \in BOOLEAN /\ stopped \in BOOLEAN /\ exited \in BOOLEAN
            /\ keyed \in [joined : BOOLEAN, ended : BOOLEAN, rejected : BOOLEAN]
EntryType == entry \in Entries \cup {NoEntry}
ChanType == chan \in [Hooks -> ChanStates]
HookType == hook \in [Hooks -> HookRec]
TapType == tap \in [Taps -> TapRec]
WorkType == work \in [Workers -> {Idle} \cup WorkRec]
GateType == gate \in Taps \cup Closers \cup {"none"}
DiskType == /\ asked \in BOOLEAN /\ result \in BOOLEAN /\ told \in BOOLEAN
            /\ row \in Holds \cup {"none"}
            /\ claim \in Decisions \cup {"none"}
            /\ ledger \in Outcomes \cup {NoOutcome}
RunType == /\ card \in Cards
           /\ up \in {"up", "down", "restoring"}
           /\ crashes \in 0..MaxCrashes
           /\ faults \in 0..MaxFaults

\* The parts together are the type invariant.
LEMMA TypeParts ==
  HeldTypeOK <=> /\ ClaudeType /\ NewsType /\ EntryType /\ ChanType /\ HookType /\ TapType /\ WorkType
                 /\ GateType /\ DiskType /\ RunType
<1>1. {tailed, stopped, exited, asked, result, told} \subseteq BOOLEAN <=>
        /\ tailed \in BOOLEAN /\ stopped \in BOOLEAN /\ exited \in BOOLEAN
        /\ asked \in BOOLEAN /\ result \in BOOLEAN /\ told \in BOOLEAN
  OBVIOUS
<1> QED BY <1>1 DEF HeldTypeOK, ClaudeType, NewsType, EntryType, ChanType, HookType, TapType, WorkType,
                GateType, DiskType, RunType, HookRec, TapRec, WorkRec, ChanStates

-----------------------------------------------------------------------------
(* The operators the actions are made of.                                  *)

\* An entry is none, or a card.
LEMMA EntryShape ==
  ASSUME EntryType
  PROVE  /\ Present => entry \in Entries
         /\ entry \in Entries => Present
         /\ NoEntry \notin Entries
BY DEF EntryType, Present, NoEntry, Entries, Holds

\* A hook moves to a place and keeps the rest.
LEMMA HookAt ==
  ASSUME HookType, NEW h \in Hooks, NEW a \in HookStates, At(h, a)
  PROVE  /\ HookType'
         /\ \A g \in Hooks : g # h => hook'[g] = hook[g]
         /\ hook'[h].at = a /\ hook'[h].held = hook[h].held /\ hook'[h].reg = hook[h].reg
         /\ hook'[h].seen = hook[h].seen /\ hook'[h].reply = hook[h].reply
         /\ hook'[h].missed = hook[h].missed
<1>1. hook[h] \in HookRec
  BY DEF HookType
<1>2. hook' = [hook EXCEPT ![h] = [hook[h] EXCEPT !.at = a]]
  BY DEF At
<1>3. [hook[h] EXCEPT !.at = a] \in HookRec
  BY <1>1 DEF HookRec
<1>4. hook'[h] = [hook[h] EXCEPT !.at = a] /\ \A g \in Hooks : g # h => hook'[g] = hook[g]
  BY <1>2 DEF HookType
<1> QED BY <1>1, <1>2, <1>3, <1>4 DEF HookType, HookRec

\* A hook's record replaced.
LEMMA HookSet ==
  ASSUME HookType, NEW h \in Hooks, NEW x \in HookRec, hook' = [hook EXCEPT ![h] = x]
  PROVE  HookType' /\ hook'[h] = x /\ \A g \in Hooks : g # h => hook'[g] = hook[g]
BY DEF HookType

\* The record of a hook that has returned.
LEMMA ReturnedShape ==
  ASSUME NEW v \in {"none", "pass"} \cup Decisions
  PROVE  /\ Returned(v) \in HookRec /\ Returned(v).at = "returned" /\ ~Returned(v).held /\ ~Returned(v).reg
         /\ Returned(v).seen = "open" /\ Returned(v).reply = v
BY DEF Returned, Fresh, HookRec, HookStates

\* ... and of one Claude is done with.
LEMMA OverShape ==
  LET x == [Fresh EXCEPT !.at = "over"] IN
  x \in HookRec /\ x.at = "over" /\ ~x.held /\ ~x.reg /\ x.seen = "open" /\ x.reply = "none"
BY DEF Fresh, HookRec, HookStates

\* A hook arrives: nothing but how it was asked and what is known of its call is new.
LEMMA ArriveMakes ==
  ASSUME HookType, NEW h \in Hooks, NEW held \in BOOLEAN, Arrive(h, held)
  PROVE  /\ HookType' /\ \A g \in Hooks : g # h => hook'[g] = hook[g]
         /\ hook[h].at = "idle" /\ hook'[h].at = "register"
         /\ hook'[h].reply = hook[h].reply /\ hook'[h].reg = hook[h].reg
         /\ hook'[h].seen = IF asked \/ ~keyed.ended THEN "open" ELSE IF keyed.rejected THEN "rejected" ELSE "ran"
<1> DEFINE seen == IF asked \/ ~keyed.ended THEN "open" ELSE IF keyed.rejected THEN "rejected" ELSE "ran"
           x == [hook[h] EXCEPT !.at = "register", !.held = held, !.seen = seen]
<1>1. hook' = [hook EXCEPT ![h] = x] /\ hook[h].at = "idle"
  BY DEF Arrive, HookType
<1>2. seen \in {"open", "ran", "rejected"}
  OBVIOUS
<1>3. hook[h] \in HookRec
  BY DEF HookType
<1> HIDE DEF seen
<1>4. x \in HookRec /\ x.at = "register" /\ x.reply = hook[h].reply /\ x.reg = hook[h].reg /\ x.seen = seen
  BY <1>2, <1>3 DEF HookRec, HookStates
<1> HIDE DEF x
<1>5. HookType' /\ hook'[h] = x /\ \A g \in Hooks : g # h => hook'[g] = hook[g]
  BY <1>1, <1>4, HookSet
<1> QED BY <1>1, <1>4, <1>5 DEF seen

\* A hook has read the log back: nothing but its place and what it missed is new.
LEMMA ReadBackMakes ==
  ASSUME HookType, NEW h \in Hooks, ReadBack(h)
  PROVE  /\ HookType' /\ \A g \in Hooks : g # h => hook'[g] = hook[g]
         /\ hook[h].at = "read" /\ hook'[h].at \in {"turn", "ended"}
         /\ hook'[h].reply = hook[h].reply /\ hook'[h].reg = hook[h].reg
         /\ hook'[h].seen = hook[h].seen
         /\ hook'[h].missed \/ ~result \/ Note
<1>1. PICK missed \in BOOLEAN :
         /\ hook' = [hook EXCEPT ![h].at = IF card.question /\ ~card.fork THEN "turn" ELSE "ended",
                                 ![h].missed = missed]
         /\ missed \/ ~result \/ Note
  BY DEF ReadBack
<1> DEFINE a == IF card.question /\ ~card.fork THEN "turn" ELSE "ended"
           x == [hook[h] EXCEPT !.at = a, !.missed = missed]
<1>2. hook' = [hook EXCEPT ![h] = x] /\ a \in {"turn", "ended"}
  BY <1>1 DEF HookType
<1>3. hook[h] \in HookRec
  BY DEF HookType
<1> HIDE DEF a
<1>4. /\ x \in HookRec /\ x.at = a /\ x.reply = hook[h].reply /\ x.reg = hook[h].reg
      /\ x.seen = hook[h].seen /\ x.missed = missed
  BY <1>2, <1>3 DEF HookRec, HookStates
<1> HIDE DEF x
<1>5. HookType' /\ hook'[h] = x /\ \A g \in Hooks : g # h => hook'[g] = hook[g]
  BY <1>2, <1>4, HookSet
<1>6. hook[h].at = "read"
  BY DEF ReadBack
<1> QED BY <1>1, <1>2, <1>4, <1>5, <1>6

\* A hook returns.
LEMMA HookReturns ==
  ASSUME HookType, ChanType, NEW h \in Hooks, NEW v \in {"none", "pass"} \cup Decisions, Return(h, v)
  PROVE  /\ HookType' /\ ChanType'
         /\ \A g \in Hooks : g # h => hook'[g] = hook[g] /\ chan'[g] = chan[g]
         /\ chan'[h] = "dead" /\ hook'[h] = Returned(v)
         /\ hook'[h].at = "returned" /\ ~hook'[h].held /\ ~hook'[h].reg
         /\ hook'[h].seen = "open" /\ hook'[h].reply = v
<1>1. hook' = [hook EXCEPT ![h] = Returned(v)] /\ chan' = [chan EXCEPT ![h] = "dead"]
  BY DEF Return
<1>2. Returned(v) \in HookRec
  BY ReturnedShape
<1>3. HookType' /\ hook'[h] = Returned(v) /\ \A g \in Hooks : g # h => hook'[g] = hook[g]
  BY <1>1, <1>2, HookSet
<1>4. ChanType' /\ chan'[h] = "dead" /\ \A g \in Hooks : g # h => chan'[g] = chan[g]
  BY <1>1 DEF ChanType, ChanStates
<1> QED BY <1>3, <1>4, ReturnedShape

\* A sender dropped: only an open channel changes.
LEMMA Closes ==
  ASSUME ChanType, NEW h
  PROVE  /\ Close(chan, h) \in [Hooks -> ChanStates]
         /\ \A g \in Hooks : Close(chan, h)[g] = IF g = h /\ chan[g] = "open" THEN "closed" ELSE chan[g]
BY DEF ChanType, Close, ChanStates

\* The same for a value put.
LEMMA Puts ==
  ASSUME ChanType, NEW h, NEW v \in ChanStates
  PROVE  /\ Put(chan, h, v) \in [Hooks -> ChanStates]
         /\ \A g \in Hooks : Put(chan, h, v)[g] = IF g = h /\ chan[g] = "open" THEN v ELSE chan[g]
BY DEF ChanType, Put

\* A tap moves to a place and keeps the rest.
LEMMA TapAt ==
  ASSUME TapType, NEW t \in Taps, NEW a \in TapStates, TapTo(t, a)
  PROVE  /\ TapType'
         /\ \A u \in Taps : u # t => tap'[u] = tap[u]
         /\ tap'[t].at = a /\ tap'[t].d = tap[t].d /\ tap'[t].resp = tap[t].resp
         /\ tap'[t].conf = tap[t].conf /\ tap'[t].sent = tap[t].sent /\ tap'[t].told = tap[t].told
<1>1. tap[t] \in TapRec
  BY DEF TapType
<1>2. tap' = [tap EXCEPT ![t] = [tap[t] EXCEPT !.at = a]]
  BY DEF TapTo
<1>3. [tap[t] EXCEPT !.at = a] \in TapRec
  BY <1>1 DEF TapRec
<1>4. tap'[t] = [tap[t] EXCEPT !.at = a] /\ \A u \in Taps : u # t => tap'[u] = tap[u]
  BY <1>2 DEF TapType
<1> QED BY <1>1, <1>2, <1>3, <1>4 DEF TapType, TapRec

\* A tap's record replaced.
LEMMA TapSet ==
  ASSUME TapType, NEW t \in Taps, NEW x \in TapRec, tap' = [tap EXCEPT ![t] = x]
  PROVE  TapType' /\ tap'[t] = x /\ \A u \in Taps : u # t => tap'[u] = tap[u]
BY DEF TapType

\* The phone is told: a decision that was sent stays on record, any other is forgotten.
LEMMA TapTold ==
  ASSUME TapType, NEW t \in Taps, NEW r \in {"none", "applied", "duplicate", "refused", "unknown", "lost"},
         Tell(t, r)
  PROVE  /\ TapType' /\ gate' = "none"
         /\ \A u \in Taps : u # t => tap'[u] = tap[u]
         /\ tap'[t].at = "done" /\ tap'[t].told = r /\ tap'[t].conf = "none"
         /\ tap'[t].sent = tap[t].sent
         /\ tap[t].sent => tap'[t].d = tap[t].d /\ tap'[t].resp = tap[t].resp
         /\ ~tap[t].sent => tap'[t].resp = "none"
<1> DEFINE y == IF tap[t].sent THEN tap[t] ELSE Untouched
           x == [y EXCEPT !.at = "done", !.told = r, !.conf = "none"]
<1>1. tap[t] \in TapRec
  BY DEF TapType
<1>2. Untouched \in TapRec /\ ~Untouched.sent /\ Untouched.resp = "none"
  BY DEF Untouched, TapRec, TapStates, Decisions, Ran
<1>3. y \in TapRec /\ y.sent = tap[t].sent /\ (tap[t].sent => y = tap[t])
      /\ (~tap[t].sent => y.resp = "none")
  BY <1>1, <1>2 DEF TapRec
<1> HIDE DEF y
<1>4. /\ x \in TapRec /\ x.at = "done" /\ x.told = r /\ x.conf = "none"
      /\ x.sent = y.sent /\ x.d = y.d /\ x.resp = y.resp
  BY <1>3 DEF TapRec, TapStates
<1>5. tap' = [tap EXCEPT ![t] = x] /\ gate' = "none"
  BY DEF Tell, y
<1> HIDE DEF x
<1>6. TapType' /\ tap'[t] = x /\ \A u \in Taps : u # t => tap'[u] = tap[u]
  BY <1>4, <1>5, TapSet
<1> QED BY <1>3, <1>4, <1>5, <1>6

\* A task's outcome set, or dropped.
LEMMA WorkSet ==
  ASSUME WorkType, NEW w \in Workers, NEW x \in {Idle} \cup WorkRec, work' = [work EXCEPT ![w] = x]
  PROVE  WorkType' /\ work'[w] = x /\ \A v \in Workers : v # w => work'[v] = work[v]
BY DEF WorkType

\* A task is idle, or has an outcome to write.
LEMMA WorkShape ==
  ASSUME NEW x \in {Idle} \cup WorkRec
  PROVE  /\ x = Idle <=> x.at = "idle"
         /\ x # Idle => x \in WorkRec /\ x.o \in Outcomes
BY DEF Idle, WorkRec

\* The outcomes the tasks write.
LEMMA OutcomeShape ==
  ASSUME NEW d \in Decisions, NEW sure \in BOOLEAN
  PROVE  /\ Local(d, sure) \in Outcomes /\ Phone(d, sure) \in Outcomes
         /\ Local(d, sure).by = "mac" /\ Phone(d, sure).by = "phone"
         /\ Local(d, sure).d = d /\ Phone(d, sure).d = d
         /\ Local(d, sure).sure = sure /\ Phone(d, sure).sure = sure
         /\ NoOutcome \notin Outcomes
BY DEF Local, Phone, Outcomes, NoOutcome

-----------------------------------------------------------------------------
(* Which steps change what.                                                *)

HookActs ==
  \/ \E h \in Hooks : \/ ClaudeReads(h) \/ Register(h) \/ WriteCard(h) \/ Unregister(h) \/ ReadBack(h)
                      \/ TurnOver(h) \/ SeenEnded(h) \/ StillOpen(h) \/ Persist(h) \/ Answered(h)
                      \/ Gone(h) \/ SomeoneReturns(h) \/ SetHold(h) \/ HoldRow(h)
                      \/ \E held \in BOOLEAN : Arrive(h, held)
                      \/ \E current \in BOOLEAN : HookEnded(h, current)
  \/ Crash

ChanActs ==
  \/ PostBegin \/ PostNote \/ Crash
  \/ \E w \in Workers : CallEnded(w) \/ Take(w)
  \/ \E c \in Closers : StopHook(c) \/ CloseCard(c)
  \/ \E h \in Hooks : \/ Register(h) \/ WriteCard(h) \/ Unregister(h) \/ ReadBack(h) \/ TurnOver(h)
                      \/ StillOpen(h) \/ Persist(h) \/ Answered(h) \/ Gone(h) \/ SetHold(h)
                      \/ HoldRow(h) \/ \E current \in BOOLEAN : HookEnded(h, current)
  \/ \E t \in Taps : TapSend(t) \/ TapSettled(t) \/ TapRemove(t)

EntryActs ==
  \/ PostBegin \/ PostNote \/ Crash \/ Restore
  \/ \E w \in Workers : CallEnded(w) \/ Take(w)
  \/ \E c \in Closers : StopHook(c) \/ CloseCard(c) \/ \E back \in BOOLEAN : SweepScreen(c, back)
  \/ \E h \in Hooks : \/ Register(h) \/ Unregister(h) \/ ReadBack(h) \/ TurnOver(h)
                      \/ SomeoneReturns(h) \/ SetHold(h)
  \/ \E t \in Taps : TapEntry(t) \/ TapHand(t) \/ TapUnclaim(t) \/ TapSettled(t) \/ TapRemove(t)

TapActs ==
  \/ PostBegin \/ PostNote \/ Crash
  \/ \E h \in Hooks : Unregister(h) \/ ReadBack(h)
  \/ \E t \in Taps : \/ TapLedger(t) \/ TapEntry(t) \/ TapClaim(t) \/ TapHand(t) \/ TapSend(t)
                     \/ TapConfirm(t) \/ TapRelease(t) \/ TapUnclaim(t) \/ TapSettled(t)
                     \/ TapRecord(t) \/ TapRemove(t) \/ TapClear(t)
                     \/ \E d \in Decisions : TapBegin(t, d)

WorkActs ==
  \/ \E c \in Closers : \/ TailRead(c) \/ StopHook(c) \/ RunExits(c) \/ CloseCard(c) \/ Expire(c)
                        \/ SweepRan(c) \/ \E back \in BOOLEAN : SweepScreen(c, back)
  \/ \E w \in Workers : CallEnded(w) \/ Take(w) \/ Record(w) \/ Announce(w)
  \/ \E h \in Hooks : TurnOver(h) \/ SeenEnded(h) \/ \E current \in BOOLEAN : HookEnded(h, current)
  \/ \E t \in Taps : TapLedger(t) \/ TapConfirm(t)
  \/ Crash \/ RecoverClaim

GateActs ==
  \/ \E c \in Closers : CloseCard(c)
  \/ \E w \in Workers : Take(w) \/ Announce(w)
  \/ \E t \in Taps : TapLedger(t) \/ TapEntry(t) \/ TapUnclaim(t) \/ TapSettled(t) \/ TapClear(t)
  \/ Crash

KeyedActs ==
  \/ PostNote \/ Crash
  \/ \E w \in Workers : CallEnded(w) \/ Take(w)
  \/ \E h \in Hooks : ReadBack(h)
  \/ \E t \in Taps : TapRemove(t)

ClaudeActs ==
  \/ \E e \in Ran \cup {"rejected"} : MacAnswers(e)
  \/ \E h \in Hooks : ClaudeEndsHook(h) \/ ClaudeReads(h)
  \/ \E c \in Closers : RunExits(c)
  \/ Crash

CoverActs ==
  \/ \E w \in Workers : Record(w)
  \/ \E t \in Taps : TapClaim(t) \/ TapRelease(t) \/ TapRecord(t)

LogActs ==
  \/ PostFile \/ Restore
  \/ \E w \in Workers : Announce(w)
  \/ \E h \in Hooks : WriteCard(h) \/ Persist(h) \/ HoldRow(h)
  \/ \E t \in Taps : TapClear(t)

NewsActs ==
  \/ PostBegin \/ PostFile \/ PostNote \/ PostLost \/ Crash
  \/ \E c \in Closers : TailRead(c) \/ StopHook(c) \/ RunExits(c)

UpActs ==
  \/ Crash \/ RecoverClaim \/ Restore

BoundActs ==
  \/ PostFile \/ Crash
  \/ \E w \in Workers : Record(w)
  \/ \E h \in Hooks : WriteCard(h) \/ Persist(h)
  \/ \E t \in Taps : TapClaim(t) \/ TapRelease(t) \/ TapRecord(t)

\* A step that is not among them leaves the variable alone.
LEMMA Frames ==
  ASSUME [Next]_vars
  PROVE  /\ HookActs \/ UNCHANGED hook
         /\ ChanActs \/ UNCHANGED chan
         /\ EntryActs \/ UNCHANGED entry
         /\ TapActs \/ UNCHANGED tap
         /\ WorkActs \/ UNCHANGED work
         /\ GateActs \/ UNCHANGED gate
         /\ KeyedActs \/ UNCHANGED keyed
         /\ ClaudeActs \/ UNCHANGED <<call, took, alive>>
         /\ CoverActs \/ UNCHANGED <<claim, ledger>>
         /\ LogActs \/ UNCHANGED <<asked, result, row, told>>
         /\ NewsActs \/ UNCHANGED <<post, tailed, stopped, exited>>
         /\ UpActs \/ UNCHANGED up
         /\ BoundActs \/ UNCHANGED <<faults, crashes, card>>
<1>1. ASSUME NEW e \in Ran \cup {"rejected"}, MacAnswers(e)
      PROVE  UNCHANGED <<newsVars, ramVars, logVars, diskVars, runVars, took, alive, faults>>
  BY <1>1 DEF MacAnswers, ramVars
<1>2. ASSUME NEW h \in Hooks, ClaudeEndsHook(h)
      PROVE  UNCHANGED <<newsVars, ramVars, logVars, diskVars, runVars, call, took, faults>>
  BY <1>2 DEF ClaudeEndsHook, ramVars
<1>3. ASSUME NEW h \in Hooks, ClaudeReads(h)
      PROVE  UNCHANGED <<newsVars, logVars, diskVars, runVars, entry, chan, tap, work, gate, faults>>
  BY <1>3 DEF ClaudeReads, ramVars
<1>4. ASSUME PostBegin
      PROVE  UNCHANGED <<claudeVars, logVars, diskVars, runVars, tailed, stopped, exited, keyed, hook,
                         work, gate, faults>>
  BY <1>4 DEF PostBegin, ramVars
<1>5. ASSUME PostFile
      PROVE  UNCHANGED <<claudeVars, ramVars, diskVars, runVars, tailed, stopped, exited, keyed, asked>>
  BY <1>5 DEF PostFile, ramVars
<1>6. ASSUME PostNote
      PROVE  UNCHANGED <<claudeVars, logVars, diskVars, runVars, tailed, stopped, exited, hook, work,
                         gate, faults>>
  BY <1>6 DEF PostNote, ramVars
<1>7. ASSUME PostLost
      PROVE  UNCHANGED <<claudeVars, ramVars, logVars, diskVars, runVars, tailed, stopped, exited,
                         keyed, faults>>
  BY <1>7 DEF PostLost, ramVars
<1>8. ASSUME NEW c \in Closers, TailRead(c)
      PROVE  UNCHANGED <<claudeVars, logVars, diskVars, runVars, post, stopped, exited, keyed, entry,
                         chan, hook, tap, gate, faults>>
  BY <1>8 DEF TailRead, ramVars
<1>9. ASSUME NEW w \in Workers, CallEnded(w)
      PROVE  UNCHANGED <<claudeVars, logVars, diskVars, runVars, post, tailed, stopped, exited, hook,
                         tap, gate, faults>>
  BY <1>9 DEF CallEnded, ramVars
<1>10. ASSUME NEW c \in Closers, StopHook(c)
       PROVE  UNCHANGED <<claudeVars, logVars, diskVars, runVars, post, tailed, exited, keyed, hook,
                          tap, gate, faults>>
  BY <1>10 DEF StopHook, ramVars
<1>11. ASSUME NEW c \in Closers, RunExits(c)
       PROVE  UNCHANGED <<logVars, diskVars, runVars, took, alive, post, tailed, stopped, keyed, entry,
                          chan, hook, tap, gate, faults>>
  BY <1>11 DEF RunExits, ramVars
<1>12. ASSUME NEW c \in Closers, CloseCard(c)
       PROVE  UNCHANGED <<claudeVars, newsVars, logVars, diskVars, runVars, hook, tap, faults>>
  BY <1>12 DEF CloseCard, ramVars
<1>13. ASSUME NEW c \in Closers, Expire(c)
       PROVE  UNCHANGED <<claudeVars, newsVars, logVars, diskVars, runVars, entry, chan, hook, tap,
                          gate, faults>>
  BY <1>13 DEF Expire, ramVars
<1>14. ASSUME NEW c \in Closers, SweepRan(c)
       PROVE  UNCHANGED <<claudeVars, newsVars, logVars, diskVars, runVars, entry, chan, hook, tap,
                          gate, faults>>
  BY <1>14 DEF SweepRan, ramVars
<1>15. ASSUME NEW c \in Closers, NEW back \in BOOLEAN, SweepScreen(c, back)
       PROVE  UNCHANGED <<claudeVars, newsVars, logVars, diskVars, runVars, chan, hook, tap, gate,
                          faults>>
  BY <1>15 DEF SweepScreen, ramVars
<1>16. ASSUME NEW w \in Workers, Take(w)
       PROVE  UNCHANGED <<claudeVars, logVars, diskVars, runVars, post, tailed, stopped, exited, hook,
                          tap, faults>>
  BY <1>16 DEF Take, ramVars
<1>17. ASSUME NEW w \in Workers, Record(w)
       PROVE  UNCHANGED <<claudeVars, newsVars, logVars, runVars, entry, chan, hook, tap, gate, row,
                          told>>
  BY <1>17 DEF Record, ramVars
<1>18. ASSUME NEW w \in Workers, Announce(w)
       PROVE  UNCHANGED <<claudeVars, newsVars, logVars, runVars, entry, chan, hook, tap, claim,
                          ledger, faults>>
  BY <1>18 DEF Announce, ramVars
<1>19. ASSUME NEW h \in Hooks, NEW held \in BOOLEAN, Arrive(h, held)
       PROVE  UNCHANGED <<claudeVars, newsVars, logVars, diskVars, runVars, entry, chan, tap, work,
                          gate, faults>>
  BY <1>19 DEF Arrive, ramVars
<1>20. ASSUME NEW h \in Hooks, Register(h)
       PROVE  UNCHANGED <<claudeVars, newsVars, logVars, diskVars, runVars, tap, work, gate, faults>>
  BY <1>20 DEF Register, ramVars
<1>21. ASSUME NEW h \in Hooks, WriteCard(h)
       PROVE  UNCHANGED <<claudeVars, newsVars, diskVars, runVars, entry, tap, work, gate, result>>
  BY <1>21 DEF WriteCard, ramVars
<1>22. ASSUME NEW h \in Hooks, Unregister(h)
       PROVE  UNCHANGED <<claudeVars, newsVars, logVars, diskVars, runVars, work, gate, faults>>
  BY <1>22 DEF Unregister, ramVars
<1>23. ASSUME NEW h \in Hooks, ReadBack(h)
       PROVE  UNCHANGED <<claudeVars, logVars, diskVars, runVars, post, tailed, stopped, exited, work,
                          gate, faults>>
  BY <1>23 DEF ReadBack, ramVars
<1>24. ASSUME NEW h \in Hooks, TurnOver(h)
       PROVE  UNCHANGED <<claudeVars, newsVars, logVars, diskVars, runVars, tap, gate, faults>>
  BY <1>24 DEF TurnOver, ramVars
<1>25. ASSUME NEW h \in Hooks, SeenEnded(h)
       PROVE  UNCHANGED <<claudeVars, newsVars, logVars, diskVars, runVars, entry, chan, tap, gate,
                          faults>>
  BY <1>25 DEF SeenEnded, ramVars
<1>26. ASSUME NEW h \in Hooks, StillOpen(h)
       PROVE  UNCHANGED <<claudeVars, newsVars, logVars, diskVars, runVars, entry, tap, work, gate,
                          faults>>
  BY <1>26 DEF StillOpen, ramVars
<1>27. ASSUME NEW h \in Hooks, Persist(h)
       PROVE  UNCHANGED <<claudeVars, newsVars, logVars, runVars, entry, tap, work, gate, claim,
                          ledger, told>>
  BY <1>27 DEF Persist, ramVars
<1>28. ASSUME NEW h \in Hooks, Answered(h)
       PROVE  UNCHANGED <<claudeVars, newsVars, logVars, diskVars, runVars, entry, tap, work, gate,
                          faults>>
  BY <1>28 DEF Answered, ramVars
<1>29. ASSUME NEW h \in Hooks, Gone(h)
       PROVE  UNCHANGED <<claudeVars, newsVars, logVars, diskVars, runVars, entry, tap, work, gate,
                          faults>>
  BY <1>29 DEF Gone, ramVars
<1>30. ASSUME NEW h \in Hooks, NEW current \in BOOLEAN, HookEnded(h, current)
       PROVE  UNCHANGED <<claudeVars, newsVars, logVars, diskVars, runVars, entry, tap, gate, faults>>
  BY <1>30 DEF HookEnded, ramVars
<1>31. ASSUME NEW h \in Hooks, SomeoneReturns(h)
       PROVE  UNCHANGED <<claudeVars, newsVars, logVars, diskVars, runVars, chan, tap, work, gate,
                          faults>>
  BY <1>31 DEF SomeoneReturns, ramVars
<1>32. ASSUME NEW h \in Hooks, SetHold(h)
       PROVE  UNCHANGED <<claudeVars, newsVars, logVars, diskVars, runVars, tap, work, gate, faults>>
  BY <1>32 DEF SetHold, ramVars
<1>33. ASSUME NEW h \in Hooks, HoldRow(h)
       PROVE  UNCHANGED <<claudeVars, newsVars, logVars, runVars, entry, tap, work, gate, claim,
                          ledger, told, faults>>
  BY <1>33 DEF HoldRow, ramVars
<1>34. ASSUME NEW t \in Taps, NEW d \in Decisions, TapBegin(t, d)
       PROVE  UNCHANGED <<claudeVars, newsVars, logVars, diskVars, runVars, entry, chan, hook, work,
                          gate, faults>>
  BY <1>34 DEF TapBegin, ramVars
<1>35. ASSUME NEW t \in Taps, TapLedger(t)
       PROVE  UNCHANGED <<claudeVars, newsVars, logVars, diskVars, runVars, entry, chan, hook, faults>>
  BY <1>35 DEF TapLedger, ramVars
<1>36. ASSUME NEW t \in Taps, TapEntry(t)
       PROVE  UNCHANGED <<claudeVars, newsVars, logVars, diskVars, runVars, chan, hook, work, faults>>
  BY <1>36 DEF TapEntry, ramVars
<1>37. ASSUME NEW t \in Taps, TapClaim(t)
       PROVE  UNCHANGED <<claudeVars, newsVars, logVars, runVars, entry, chan, hook, work, gate, row,
                          ledger, told>>
  BY <1>37 DEF TapClaim, ramVars
<1>38. ASSUME NEW t \in Taps, TapHand(t)
       PROVE  UNCHANGED <<claudeVars, newsVars, logVars, diskVars, runVars, chan, hook, work, gate,
                          faults>>
  BY <1>38 DEF TapHand, ramVars
<1>39. ASSUME NEW t \in Taps, TapSend(t)
       PROVE  UNCHANGED <<claudeVars, newsVars, logVars, diskVars, runVars, entry, hook, work, gate,
                          faults>>
  BY <1>39 DEF TapSend, ramVars
<1>40. ASSUME NEW t \in Taps, TapConfirm(t)
       PROVE  UNCHANGED <<claudeVars, newsVars, logVars, diskVars, runVars, entry, chan, hook, gate,
                          faults>>
  BY <1>40 DEF TapConfirm, ramVars
<1>41. ASSUME NEW t \in Taps, TapRelease(t)
       PROVE  UNCHANGED <<claudeVars, newsVars, logVars, runVars, entry, chan, hook, work, gate, row,
                          ledger, told>>
  BY <1>41 DEF TapRelease, ramVars
<1>42. ASSUME NEW t \in Taps, TapUnclaim(t)
       PROVE  UNCHANGED <<claudeVars, newsVars, logVars, diskVars, runVars, chan, hook, work, faults>>
  BY <1>42 DEF TapUnclaim, ramVars
<1>43. ASSUME NEW t \in Taps, TapSettled(t)
       PROVE  UNCHANGED <<claudeVars, newsVars, logVars, diskVars, runVars, hook, work, faults>>
  BY <1>43 DEF TapSettled, ramVars
<1>44. ASSUME NEW t \in Taps, TapRecord(t)
       PROVE  UNCHANGED <<claudeVars, newsVars, logVars, runVars, entry, chan, hook, work, gate, row,
                          told>>
  BY <1>44 DEF TapRecord, ramVars
<1>45. ASSUME NEW t \in Taps, TapRemove(t)
       PROVE  UNCHANGED <<claudeVars, logVars, diskVars, runVars, post, tailed, stopped, exited, hook,
                          work, gate, faults>>
  BY <1>45 DEF TapRemove, ramVars
<1>46. ASSUME NEW t \in Taps, TapClear(t)
       PROVE  UNCHANGED <<claudeVars, newsVars, logVars, runVars, entry, chan, hook, work, claim,
                          ledger, faults>>
  BY <1>46 DEF TapClear, ramVars
<1>47. ASSUME Crash
       PROVE  UNCHANGED <<logVars, diskVars, call, took, tailed, stopped, exited, card, faults>>
  BY <1>47 DEF Crash, ramVars
<1>48. ASSUME RecoverClaim
       PROVE  UNCHANGED <<claudeVars, newsVars, logVars, diskVars, entry, chan, hook, tap, gate, card,
                          crashes, faults>>
  BY <1>48 DEF RecoverClaim, ramVars
<1>49. ASSUME Restore
       PROVE  UNCHANGED <<claudeVars, newsVars, logVars, chan, hook, tap, work, gate, claim, ledger,
                          told, card, crashes, faults>>
  BY <1>49 DEF Restore, ramVars
<1> USE DEF claudeVars, newsVars, ramVars, logVars, diskVars, runVars
<1>51. HookActs \/ UNCHANGED hook
  BY <1>1, <1>2, <1>4, <1>5, <1>6, <1>7, <1>8, <1>9, <1>10, <1>11, <1>12, <1>13, <1>14, <1>15, <1>16,
     <1>17, <1>18, <1>34, <1>35, <1>36, <1>37, <1>38, <1>39, <1>40, <1>41, <1>42, <1>43, <1>44, <1>45,
     <1>46, <1>48, <1>49
     DEF HookActs, Next, Outcome, HookStep, TapStep, News, Sweeps, vars
<1>52. ChanActs \/ UNCHANGED chan
  BY <1>1, <1>2, <1>3, <1>5, <1>7, <1>8, <1>11, <1>13, <1>14, <1>15, <1>17, <1>18, <1>19, <1>25, <1>31,
     <1>34, <1>35, <1>36, <1>37, <1>38, <1>40, <1>41, <1>42, <1>44, <1>46, <1>48, <1>49
     DEF ChanActs, Next, Outcome, HookStep, TapStep, News, Sweeps, vars
<1>53. EntryActs \/ UNCHANGED entry
  BY <1>1, <1>2, <1>3, <1>5, <1>7, <1>8, <1>11, <1>13, <1>14, <1>17, <1>18, <1>19, <1>21, <1>25, <1>26,
     <1>27, <1>28, <1>29, <1>30, <1>33, <1>34, <1>35, <1>37, <1>39, <1>40, <1>41, <1>44, <1>46, <1>48
     DEF EntryActs, Next, Outcome, HookStep, TapStep, News, Sweeps, vars
<1>54. TapActs \/ UNCHANGED tap
  BY <1>1, <1>2, <1>3, <1>5, <1>7, <1>8, <1>9, <1>10, <1>11, <1>12, <1>13, <1>14, <1>15, <1>16, <1>17,
     <1>18, <1>19, <1>20, <1>21, <1>24, <1>25, <1>26, <1>27, <1>28, <1>29, <1>30, <1>31, <1>32, <1>33,
     <1>48, <1>49
     DEF TapActs, Next, Outcome, HookStep, TapStep, News, Sweeps, vars
<1>55. WorkActs \/ UNCHANGED work
  BY <1>1, <1>2, <1>3, <1>4, <1>5, <1>6, <1>7, <1>19, <1>20, <1>21, <1>22, <1>23, <1>26, <1>27, <1>28,
     <1>29, <1>31, <1>32, <1>33, <1>34, <1>36, <1>37, <1>38, <1>39, <1>41, <1>42, <1>43, <1>44, <1>45,
     <1>46, <1>49
     DEF WorkActs, Next, Outcome, HookStep, TapStep, News, Sweeps, vars
<1>56. GateActs \/ UNCHANGED gate
  BY <1>1, <1>2, <1>3, <1>4, <1>5, <1>6, <1>7, <1>8, <1>9, <1>10, <1>11, <1>13, <1>14, <1>15, <1>17,
     <1>19, <1>20, <1>21, <1>22, <1>23, <1>24, <1>25, <1>26, <1>27, <1>28, <1>29, <1>30, <1>31, <1>32,
     <1>33, <1>34, <1>37, <1>38, <1>39, <1>40, <1>41, <1>44, <1>45, <1>48, <1>49
     DEF GateActs, Next, Outcome, HookStep, TapStep, News, Sweeps, vars
<1>57. KeyedActs \/ UNCHANGED keyed
  BY <1>1, <1>2, <1>3, <1>4, <1>5, <1>7, <1>8, <1>10, <1>11, <1>12, <1>13, <1>14, <1>15, <1>17, <1>18,
     <1>19, <1>20, <1>21, <1>22, <1>24, <1>25, <1>26, <1>27, <1>28, <1>29, <1>30, <1>31, <1>32, <1>33,
     <1>34, <1>35, <1>36, <1>37, <1>38, <1>39, <1>40, <1>41, <1>42, <1>43, <1>44, <1>46, <1>48, <1>49
     DEF KeyedActs, Next, Outcome, HookStep, TapStep, News, Sweeps, vars
<1>58. ClaudeActs \/ UNCHANGED <<call, took, alive>>
  BY <1>4, <1>5, <1>6, <1>7, <1>8, <1>9, <1>10, <1>12, <1>13, <1>14, <1>15, <1>16, <1>17, <1>18, <1>19,
     <1>20, <1>21, <1>22, <1>23, <1>24, <1>25, <1>26, <1>27, <1>28, <1>29, <1>30, <1>31, <1>32, <1>33,
     <1>34, <1>35, <1>36, <1>37, <1>38, <1>39, <1>40, <1>41, <1>42, <1>43, <1>44, <1>45, <1>46, <1>48,
     <1>49
     DEF ClaudeActs, Next, Outcome, HookStep, TapStep, News, Sweeps, vars
<1>59. CoverActs \/ UNCHANGED <<claim, ledger>>
  BY <1>1, <1>2, <1>3, <1>4, <1>5, <1>6, <1>7, <1>8, <1>9, <1>10, <1>11, <1>12, <1>13, <1>14, <1>15,
     <1>16, <1>18, <1>19, <1>20, <1>21, <1>22, <1>23, <1>24, <1>25, <1>26, <1>27, <1>28, <1>29, <1>30,
     <1>31, <1>32, <1>33, <1>34, <1>35, <1>36, <1>38, <1>39, <1>40, <1>42, <1>43, <1>45, <1>46, <1>47,
     <1>48, <1>49
     DEF CoverActs, Next, Outcome, HookStep, TapStep, News, Sweeps, vars
<1>60. LogActs \/ UNCHANGED <<asked, result, row, told>>
  BY <1>1, <1>2, <1>3, <1>4, <1>6, <1>7, <1>8, <1>9, <1>10, <1>11, <1>12, <1>13, <1>14, <1>15, <1>16,
     <1>17, <1>19, <1>20, <1>22, <1>23, <1>24, <1>25, <1>26, <1>28, <1>29, <1>30, <1>31, <1>32, <1>34,
     <1>35, <1>36, <1>37, <1>38, <1>39, <1>40, <1>41, <1>42, <1>43, <1>44, <1>45, <1>47, <1>48
     DEF LogActs, Next, Outcome, HookStep, TapStep, News, Sweeps, vars
<1>61. NewsActs \/ UNCHANGED <<post, tailed, stopped, exited>>
  BY <1>1, <1>2, <1>3, <1>9, <1>12, <1>13, <1>14, <1>15, <1>16, <1>17, <1>18, <1>19, <1>20, <1>21,
     <1>22, <1>23, <1>24, <1>25, <1>26, <1>27, <1>28, <1>29, <1>30, <1>31, <1>32, <1>33, <1>34, <1>35,
     <1>36, <1>37, <1>38, <1>39, <1>40, <1>41, <1>42, <1>43, <1>44, <1>45, <1>46, <1>48, <1>49
     DEF NewsActs, Next, Outcome, HookStep, TapStep, News, Sweeps, vars
<1>62. UpActs \/ UNCHANGED up
  BY <1>1, <1>2, <1>3, <1>4, <1>5, <1>6, <1>7, <1>8, <1>9, <1>10, <1>11, <1>12, <1>13, <1>14, <1>15,
     <1>16, <1>17, <1>18, <1>19, <1>20, <1>21, <1>22, <1>23, <1>24, <1>25, <1>26, <1>27, <1>28, <1>29,
     <1>30, <1>31, <1>32, <1>33, <1>34, <1>35, <1>36, <1>37, <1>38, <1>39, <1>40, <1>41, <1>42, <1>43,
     <1>44, <1>45, <1>46
     DEF UpActs, Next, Outcome, HookStep, TapStep, News, Sweeps, vars
<1>63. BoundActs \/ UNCHANGED <<faults, crashes, card>>
  BY <1>1, <1>2, <1>3, <1>4, <1>6, <1>7, <1>8, <1>9, <1>10, <1>11, <1>12, <1>13, <1>14, <1>15, <1>16,
     <1>18, <1>19, <1>20, <1>22, <1>23, <1>24, <1>25, <1>26, <1>28, <1>29, <1>30, <1>31, <1>32, <1>33,
     <1>34, <1>35, <1>36, <1>38, <1>39, <1>40, <1>41, <1>42, <1>43, <1>45, <1>46, <1>48, <1>49
     DEF BoundActs, Next, Outcome, HookStep, TapStep, News, Sweeps, vars
<1> QED BY <1>51, <1>52, <1>53, <1>54, <1>55, <1>56, <1>57, <1>58, <1>59, <1>60, <1>61, <1>62, <1>63

-----------------------------------------------------------------------------
(* Every variable keeps its type.                                          *)

\* What a card is, and that nobody is called "none".
LEMMA Names ==
  /\ \A t \in Taps : t # "none" /\ t \notin Hooks /\ t \notin Closers /\ t # Recovery
  /\ \A h \in Hooks : h # "none" /\ h \notin Closers /\ h # Recovery
  /\ \A c \in Closers : c # "none" /\ c # Recovery
BY TasksAssumption

\* The sender that leaves with a card, and what Note, Moved and Remove make of it.
LEMMA RemoveMakes ==
  ASSUME EntryType, ChanType, Remove
  PROVE  /\ EntryType' /\ ChanType' /\ ~Present'
         /\ \A h \in Hooks : chan'[h] = IF Present /\ entry.resp = h /\ chan[h] = "open" THEN "closed" ELSE chan[h]
<1>1. EntryType' /\ ~Present'
  BY DEF Remove, EntryType, Present
<1>2. CASE Present
  BY <1>1, <1>2, Closes DEF Remove, ChanType
<1>3. CASE ~Present
  BY <1>1, <1>3 DEF Remove, ChanType
<1> QED BY <1>2, <1>3

\* ... what a noted result makes of the card, the channels and the taps ...
LEMMA NoteMakes ==
  ASSUME EntryType, ChanType, TapType, card \in Cards, call \in Ran, Note
  PROVE  /\ EntryType' /\ ChanType' /\ TapType' /\ (Present' <=> Present)
         /\ Present => /\ entry'.ran /\ entry'.confirm = "none" /\ entry'.hold = entry.hold
                       /\ entry'.claimed = entry.claimed /\ entry'.rejected = entry.rejected
                       /\ IF card.question /\ entry.confirm # "none" THEN entry'.resp = entry.resp /\ chan' = chan
                          ELSE /\ entry'.resp = "none"
                               /\ \A h \in Hooks : chan'[h] = IF entry.resp = h /\ chan[h] = "open"
                                    THEN (IF card.question THEN "pass" ELSE "closed") ELSE chan[h]
         /\ ~Present => chan' = chan
         /\ \A t \in Taps : \/ tap'[t] = tap[t]
                            \/ tap'[t] = [tap[t] EXCEPT !.conf = call] /\ tap[t].at \in {"send", "confirm"}
<1>1. CASE ~Present
  BY <1>1 DEF Note, EntryType, ChanType, TapType, Present
<1>2. CASE Present
  <2> DEFINE waiting == card.question /\ entry.confirm # "none"
  <2>0. entry \in Entries
    BY <1>2, EntryShape
  <2>1. /\ entry' = [entry EXCEPT !.ran = TRUE, !.confirm = "none", !.resp = IF waiting THEN @ ELSE "none"]
        /\ chan' = IF waiting THEN chan
                   ELSE IF card.question THEN Put(chan, entry.resp, "pass") ELSE Close(chan, entry.resp)
        /\ tap' = [t \in Taps |-> IF waiting /\ t = entry.confirm /\ tap[t].at \in {"send", "confirm"}
                                  THEN [tap[t] EXCEPT !.conf = call] ELSE tap[t]]
    BY <1>2 DEF Note
  <2> HIDE DEF waiting
  <2>2. /\ entry' \in Entries /\ entry'.ran /\ entry'.confirm = "none" /\ entry'.hold = entry.hold
        /\ entry'.claimed = entry.claimed /\ entry'.rejected = entry.rejected
        /\ entry'.resp = IF waiting THEN entry.resp ELSE "none"
    BY <2>0, <2>1 DEF Entries
  <2>3. EntryType' /\ Present'
    BY <2>2, EntryShape DEF EntryType, Present, NoEntry
  <2>4. ChanType' /\ (waiting => chan' = chan)
        /\ (~waiting => \A h \in Hooks : chan'[h] = IF entry.resp = h /\ chan[h] = "open"
                                    THEN (IF card.question THEN "pass" ELSE "closed") ELSE chan[h])
    <3>1. CASE waiting
      BY <2>1, <3>1 DEF ChanType
    <3>2. CASE ~waiting /\ card.question
      BY <2>1, <3>2, Puts DEF ChanType, ChanStates
    <3>3. CASE ~waiting /\ ~card.question
      BY <2>1, <3>3, Closes DEF ChanType
    <3> QED BY <3>1, <3>2, <3>3
  <2>5. ASSUME NEW t \in Taps
        PROVE  /\ tap'[t] \in TapRec
               /\ \/ tap'[t] = tap[t]
                  \/ tap'[t] = [tap[t] EXCEPT !.conf = call] /\ tap[t].at \in {"send", "confirm"}
    <3>1. tap[t] \in TapRec
      BY DEF TapType
    <3>2. [tap[t] EXCEPT !.conf = call] \in TapRec
      BY <3>1 DEF TapRec
    <3> QED BY <2>1, <3>1, <3>2
  <2>6. TapType'
    BY <2>1, <2>5 DEF TapType
  <2> QED BY <1>2, <2>2, <2>3, <2>4, <2>5, <2>6 DEF waiting
<1> QED BY <1>1, <1>2

\* ... and what the end of the turn makes of them.
LEMMA MovedMakes ==
  ASSUME EntryType, ChanType, WorkType, NEW w \in Workers, Moved(w)
  PROVE  /\ EntryType' /\ ChanType' /\ WorkType' /\ (Present' <=> Present)
         /\ \/ UNCHANGED <<chan, entry, work>>
            \/ /\ Present /\ ~entry.claimed /\ entry.resp # "none"
               /\ entry' = [entry EXCEPT !.resp = "none"]
               /\ \A h \in Hooks : chan'[h] = IF entry.resp = h /\ chan[h] = "open" THEN "pass" ELSE chan[h]
               /\ work' = [work EXCEPT ![w] = [at |-> "take", o |-> Local("refuse", FALSE)]]
<1>1. CASE ~(Present /\ ~entry.claimed /\ entry.resp # "none")
  BY <1>1 DEF Moved, EntryType, ChanType, WorkType, Present
<1>2. CASE Present /\ ~entry.claimed /\ entry.resp # "none"
  <2>1. /\ chan' = Put(chan, entry.resp, "pass") /\ entry' = [entry EXCEPT !.resp = "none"]
        /\ work' = [work EXCEPT ![w] = [at |-> "take", o |-> Local("refuse", FALSE)]]
    BY <1>2 DEF Moved, Closing
  <2>2. entry \in Entries
    BY <1>2, EntryShape
  <2>3. entry' \in Entries
    BY <2>1, <2>2 DEF Entries
  <2>4. EntryType' /\ Present'
    BY <2>3, EntryShape DEF EntryType, Present, NoEntry
  <2>5. [at |-> "take", o |-> Local("refuse", FALSE)] \in WorkRec
    BY OutcomeShape DEF WorkRec, Decisions
  <2>6. WorkType'
    BY <2>1, <2>5, WorkSet
  <2>7. ChanType'
        /\ \A h \in Hooks : chan'[h] = IF entry.resp = h /\ chan[h] = "open" THEN "pass" ELSE chan[h]
    BY <2>1, Puts DEF ChanType, ChanStates
  <2> QED BY <1>2, <2>1, <2>4, <2>6, <2>7
<1> QED BY <1>1, <1>2

-----------------------------------------------------------------------------
(* What was sent, to whom, and what is left of it in the channels and the  *)
(* replies.                                                                *)

\* Where a hook still has the receiver of its channel.
Listening == {"write", "unregister", "read", "turn", "ended", "persist", "wait", "back", "back_row"}

\* The daemon hears of a result only when there is one.
PostInv == post # "no" \/ result => call \in Ran

\* A tap's place tells whether its decision was sent, and what it was told.
SentInv ==
  \A t \in Taps :
    /\ tap[t].sent => tap[t].resp \in Hooks /\ tap[t].at \in
         {"confirm", "record", "release", "unclaim", "settle", "remove", "clear", "done"}
    /\ tap[t].at \in {"confirm", "record", "remove", "clear"} => tap[t].sent
    /\ tap[t].at = "send" => tap[t].resp \in Hooks
    /\ tap[t].told # "none" => tap[t].at \in {"remove", "clear", "done"}
    /\ tap[t].told = "refused" => tap[t].at = "done"
    /\ tap[t].conf \in Ran => tap[t].conf = call

\* A decision that was sent is in its hook's channel or in its reply, until the hook drops
\* the receiver; and nothing else is.
TapChan ==
  /\ \A t \in Taps : tap[t].sent => /\ chan[tap[t].resp] \in {tap[t].d, "dead"}
                                    /\ hook[tap[t].resp].at \notin {"idle", "register"}
  /\ \A t \in Taps : tap[t].at = "send" => hook[tap[t].resp].at \notin {"idle", "register"}
  /\ \A t, u \in Taps : tap[t].sent /\ tap[u].sent /\ tap[t].resp = tap[u].resp => t = u
HookChan ==
  \A h \in Hooks :
    /\ chan[h] \in Decisions => \E t \in Taps : tap[t].sent /\ tap[t].resp = h
    /\ hook[h].reply \in Decisions =>
         /\ hook[h].at = "returned"
         /\ \E t \in Taps : tap[t].sent /\ tap[t].resp = h /\ tap[t].d = hook[h].reply
    /\ hook[h].at \in Listening => chan[h] # "dead"
    /\ Present /\ entry.resp = h => hook[h].at \notin {"idle", "register"}

Types == /\ ClaudeType /\ NewsType /\ EntryType /\ ChanType /\ HookType /\ TapType /\ WorkType
         /\ GateType /\ DiskType /\ RunType
Sends == PostInv /\ SentInv /\ TapChan /\ HookChan

\* An entry made of a card is a card.
LEMMA EntrySet ==
  ASSUME entry' \in Entries
  PROVE  EntryType' /\ Present'
BY DEF EntryType, Present, NoEntry, Entries, Holds

\* The type invariant, part by part: Claude's side ...
LEMMA ClaudeTypeStep ==
  ASSUME Types, Sends, [Next]_vars
  PROVE  ClaudeType'
<1> USE DEF Types
<1>1. ASSUME NEW e \in Ran \cup {"rejected"}, MacAnswers(e) PROVE ClaudeType'
  BY <1>1 DEF MacAnswers, ClaudeType
<1>2. ASSUME NEW h \in Hooks, ClaudeEndsHook(h) PROVE ClaudeType'
  BY <1>2 DEF ClaudeEndsHook, ClaudeType
<1>3. ASSUME NEW h \in Hooks, ClaudeReads(h) PROVE ClaudeType'
  <2>1. took' \in Taps \cup {"none"}
    <3>1. CASE h \in alive /\ call = "asking" /\ hook[h].reply \in Decisions
      <4>1. \E t \in Taps : tap[t].sent /\ tap[t].resp = h
        BY <3>1 DEF Sends, HookChan
      <4>2. took' = CHOOSE t \in Taps : tap[t].sent /\ tap[t].resp = h
        BY <1>3, <3>1 DEF ClaudeReads
      <4> QED BY <4>1, <4>2
    <3>2. CASE ~(h \in alive /\ call = "asking" /\ hook[h].reply \in Decisions)
      BY <1>3, <3>2 DEF ClaudeReads, ClaudeType
    <3> QED BY <3>1, <3>2
  <2>2. call' \in {call, "take", "rejected"} /\ alive' = alive \ {h}
    BY <1>3 DEF ClaudeReads
  <2> QED BY <2>1, <2>2 DEF ClaudeType, Ran
<1>4. ASSUME NEW c \in Closers, RunExits(c) PROVE ClaudeType'
  BY <1>4 DEF RunExits, ClaudeType
<1>5. ASSUME Crash PROVE ClaudeType'
  BY <1>5 DEF Crash, ClaudeType
<1>6. ASSUME UNCHANGED <<call, took, alive>> PROVE ClaudeType'
  BY <1>6 DEF ClaudeType
<1> QED BY <1>1, <1>2, <1>3, <1>4, <1>5, <1>6, Frames DEF ClaudeActs

\* ... what the daemon hears ...
LEMMA NewsTypeStep ==
  ASSUME Types, [Next]_vars
  PROVE  NewsType'
<1> USE DEF Types
<1>1. post' \in {"no", "writing", "filed", "done"}
  <2>1. ASSUME UNCHANGED <<post, tailed, stopped, exited>> PROVE post' \in {"no", "writing", "filed", "done"}
    BY <2>1 DEF NewsType
  <2> QED BY <2>1, Frames DEF NewsActs, NewsType, PostBegin, PostFile, PostNote, PostLost, Crash, TailRead,
                              StopHook, RunExits
<1>2. tailed' \in BOOLEAN /\ stopped' \in BOOLEAN /\ exited' \in BOOLEAN
  <2>1. ASSUME UNCHANGED <<post, tailed, stopped, exited>>
        PROVE  UNCHANGED <<tailed, stopped, exited>>
    BY <2>1
  <2>2. tailed' \in {tailed, TRUE} /\ stopped' \in {stopped, TRUE} /\ exited' \in {exited, TRUE}
    BY <2>1, Frames DEF NewsActs, NewsType, PostBegin, PostFile, PostNote, PostLost, Crash, TailRead,
                        StopHook, RunExits
  <2> QED BY <2>2, Zenon DEF NewsType
<1>3. keyed' \in [joined : BOOLEAN, ended : BOOLEAN, rejected : BOOLEAN]
  <2>0. keyed \in [joined : BOOLEAN, ended : BOOLEAN, rejected : BOOLEAN]
    BY DEF NewsType
  <2>1. EndCall => keyed' \in [joined : BOOLEAN, ended : BOOLEAN, rejected : BOOLEAN]
    BY <2>0 DEF EndCall
  <2>2. ASSUME NEW w \in Workers, CallEnded(w)
        PROVE  keyed' \in [joined : BOOLEAN, ended : BOOLEAN, rejected : BOOLEAN]
    <3>1. (keyed.joined /\ work[w].o.d = "refuse") \in BOOLEAN
      OBVIOUS
    <3>2. \/ keyed' = keyed
          \/ keyed' = [keyed EXCEPT !.ended = keyed.joined, !.rejected = (keyed.joined /\ work[w].o.d = "refuse")]
      BY <2>2 DEF CallEnded
    <3> QED BY <2>0, <3>1, <3>2
  <2>3. Crash => keyed' \in [joined : BOOLEAN, ended : BOOLEAN, rejected : BOOLEAN]
    <3>1. Crash => keyed' = [joined |-> FALSE, ended |-> FALSE, rejected |-> FALSE]
      BY DEF Crash
    <3>2. [joined |-> FALSE, ended |-> FALSE, rejected |-> FALSE]
            \in [joined : BOOLEAN, ended : BOOLEAN, rejected : BOOLEAN]
      OBVIOUS
    <3> QED BY <3>1, <3>2
  <2>4. PostNote => EndCall
    BY DEF PostNote
  <2>5. \A w \in Workers : Take(w) => EndCall \/ UNCHANGED keyed
    BY DEF Take
  <2>6. \A h \in Hooks : ReadBack(h) => EndCall \/ UNCHANGED keyed
    BY DEF ReadBack
  <2>7. \A t \in Taps : TapRemove(t) => EndCall
    BY DEF TapRemove
  <2> QED BY <2>0, <2>1, <2>2, <2>3, <2>4, <2>5, <2>6, <2>7, Frames DEF KeyedActs
<1> QED BY <1>1, <1>2, <1>3 DEF NewsType

\* ... what is on disk ...
LEMMA DiskTypeStep ==
  ASSUME Types, [Next]_vars
  PROVE  DiskType'
<1> USE DEF Types
<1>1. asked' \in BOOLEAN /\ result' \in BOOLEAN /\ told' \in BOOLEAN
  <2>1. asked' \in {asked, TRUE} /\ result' \in {result, TRUE} /\ told' \in {told, TRUE}
    <3>1. LogActs \/ UNCHANGED <<asked, result, row, told>>
      BY Frames
    <3>2. PostFile \/ (\E h \in Hooks : WriteCard(h)) =>
            asked' \in {asked, TRUE} /\ result' \in {result, TRUE} /\ told' = told
      BY DEF PostFile, WriteCard, diskVars
    <3>3. (\E h \in Hooks : Persist(h) \/ HoldRow(h)) \/ Restore => UNCHANGED <<asked, result, told>>
      BY DEF Persist, HoldRow, Restore, logVars
    <3>4. (\E w \in Workers : Announce(w)) \/ (\E t \in Taps : TapClear(t)) =>
            UNCHANGED <<asked, result>> /\ told' = TRUE
      BY DEF Announce, TapClear, logVars
    <3> QED BY <3>1, <3>2, <3>3, <3>4 DEF LogActs
  <2> QED BY <2>1, Zenon DEF DiskType
<1>2. row' \in Holds \cup {"none"}
  BY Frames DEF LogActs, DiskType, PostFile, WriteCard, Persist, HoldRow, HoldOf, Announce, TapClear, Restore,
                diskVars, Holds
<1>3. claim' \in Decisions \cup {"none"} /\ ledger' \in Outcomes \cup {NoOutcome}
  <2>1. ASSUME NEW o \in Outcomes, Write(o)
        PROVE  claim' \in Decisions \cup {"none"} /\ ledger' \in Outcomes \cup {NoOutcome}
    BY <2>1 DEF Write, DiskType
  <2>2. ASSUME NEW w \in Workers, Record(w)
        PROVE  claim' \in Decisions \cup {"none"} /\ ledger' \in Outcomes \cup {NoOutcome}
    <3>1. work[w].o \in Outcomes
      <4>1. work[w] \in {Idle} \cup WorkRec /\ work[w].at = "record"
        BY <2>2 DEF Record, WorkType
      <4> QED BY <4>1, WorkShape DEF Idle
    <3> QED BY <2>1, <2>2, <3>1 DEF Record, DiskType
  <2>3. ASSUME NEW t \in Taps, TapRecord(t)
        PROVE  claim' \in Decisions \cup {"none"} /\ ledger' \in Outcomes \cup {NoOutcome}
    <3>1. tap[t].d \in Decisions /\ card.question \in BOOLEAN
      BY CardsAssumption DEF TapType, TapRec, RunType
    <3>2. Phone(tap[t].d, card.question) \in Outcomes
      BY <3>1, OutcomeShape
    <3> QED BY <2>1, <2>3, <3>2 DEF TapRecord, DiskType
  <2>4. ASSUME NEW t \in Taps, TapClaim(t) \/ TapRelease(t)
        PROVE  claim' \in Decisions \cup {"none"} /\ ledger' \in Outcomes \cup {NoOutcome}
    <3>1. tap[t].d \in Decisions
      BY DEF TapType, TapRec
    <3> QED BY <2>4, <3>1 DEF TapClaim, TapRelease, DiskType
  <2> QED BY <2>2, <2>3, <2>4, Frames DEF CoverActs, DiskType
<1> QED BY <1>1, <1>2, <1>3 DEF DiskType

\* ... the run and its bounds ...
LEMMA RunTypeStep ==
  ASSUME Types, [Next]_vars
  PROVE  RunType'
<1> USE DEF Types
<1>1. up' \in {"up", "down", "restoring"}
  BY Frames DEF UpActs, RunType, Crash, RecoverClaim, Restore
<1>2. card' = card
  BY Frames DEF BoundActs, Crash, PostFile, Record, WriteCard, Persist, TapClaim, TapRelease, TapRecord, runVars
<1>3. crashes' \in 0..MaxCrashes
  <2>1. Crash \/ crashes' = crashes
    BY Frames DEF BoundActs, PostFile, Record, WriteCard, Persist, TapClaim, TapRelease, TapRecord, runVars
  <2>2. Crash => crashes < MaxCrashes /\ crashes' = crashes + 1
    BY DEF Crash
  <2> QED BY <2>1, <2>2, BoundsAssumption DEF RunType
<1>4. Fault \/ faults' = faults
  BY Frames DEF BoundActs, Crash, PostFile, Record, WriteCard, Persist, TapClaim, TapRelease, TapRecord, runVars
<1>5. faults' \in 0..MaxFaults
  BY <1>4, BoundsAssumption DEF Fault, RunType
<1> QED BY <1>1, <1>2, <1>3, <1>5 DEF RunType

\* ... and the gate.
LEMMA GateTypeStep ==
  ASSUME Types, [Next]_vars
  PROVE  GateType'
<1> QED BY Frames DEF Types, GateType, GateActs, CloseCard, Take, Announce, TapLedger, Tell, TapEntry,
                      TapUnclaim, TapSettled, TapClear, Crash

-----------------------------------------------------------------------------
(* What a step makes of a hook, a channel, the card, a tap and a task.     *)

\* A hook's step is its own; it never goes back to where it has not registered, and its
\* reply is a decision only if its channel held one.
HookMoves(h) ==
  /\ HookType'
  /\ \A g \in Hooks : g # h => hook'[g] = hook[g]
  /\ hook'[h].at # "idle"
  /\ hook'[h].at = "register" => hook[h].at = "idle"
  /\ hook'[h].reply \in Decisions =>
       /\ hook'[h].at = "returned" /\ hook'[h].reply = chan[h]
       /\ hook[h].at \in {"wait", "back", "back_row"}
       /\ chan[h] \notin {"open", "none"}
  /\ hook'[h].at \in Listening => (hook[h].at = "register" /\ hook'[h].at = "write") \/ hook[h].at \in Listening

\* Every step of a hook is such a move.
LEMMA HookEffect ==
  ASSUME Types, Sends, NEW h \in Hooks,
         \/ ClaudeReads(h) \/ HookStep(h) \/ SomeoneReturns(h)
         \/ \E held \in BOOLEAN : Arrive(h, held)
  PROVE  HookMoves(h)
<1> USE DEF Types
<1>0. hook[h] \in HookRec /\ (hook[h].reply \in Decisions => hook[h].at = "returned")
  BY DEF HookType, Sends, HookChan
<1>1. ASSUME NEW a \in HookStates, At(h, a), a \notin {"idle", "register", "returned"},
             hook[h].at \notin {"returned", "idle", "over"},
             a \in Listening => (hook[h].at = "register" /\ a = "write") \/ hook[h].at \in Listening
      PROVE  HookMoves(h)
  BY <1>0, <1>1, HookAt DEF HookMoves
<1>2. ASSUME NEW v \in {"none", "pass"} \cup Decisions, hook' = [hook EXCEPT ![h] = Returned(v)],
             v \in Decisions => /\ hook[h].at \in {"wait", "back", "back_row"} /\ v = chan[h]
                                /\ chan[h] \notin {"open", "none"}
      PROVE  HookMoves(h)
  <2>1. HookType' /\ hook'[h] = Returned(v) /\ \A g \in Hooks : g # h => hook'[g] = hook[g]
    BY <1>2, ReturnedShape, HookSet
  <2> QED BY <1>2, <2>1, ReturnedShape DEF HookMoves, Listening
<1>20. Return(h, "pass") => HookMoves(h)
  BY <1>2 DEF Return, Decisions
<1> USE DEF HookStates, Listening
<1>3. CASE ClaudeReads(h)
  <2> DEFINE x == [Fresh EXCEPT !.at = "over"]
  <2>1. x \in HookRec /\ x.at = "over" /\ x.reply = "none"
    BY OverShape
  <2>2. hook' = [hook EXCEPT ![h] = x]
    BY <1>3 DEF ClaudeReads
  <2> HIDE DEF x
  <2>3. HookType' /\ hook'[h] = x /\ \A g \in Hooks : g # h => hook'[g] = hook[g]
    BY <2>1, <2>2, HookSet
  <2> QED BY <2>1, <2>3 DEF HookMoves, Decisions
<1>4. ASSUME NEW held \in BOOLEAN, Arrive(h, held) PROVE HookMoves(h)
  BY <1>0, <1>4, ArriveMakes DEF HookMoves
<1>5. CASE Register(h)
  <2> DEFINE x == [hook[h] EXCEPT !.at = "write", !.reg = ~Present]
  <2>1. x \in HookRec /\ x.at = "write" /\ x.reply = hook[h].reply
    BY <1>0 DEF HookRec
  <2>2. hook' = [hook EXCEPT ![h] = x] /\ hook[h].at = "register"
    BY <1>5 DEF Register, HookType
  <2> HIDE DEF x
  <2>3. HookType' /\ hook'[h] = x /\ \A g \in Hooks : g # h => hook'[g] = hook[g]
    BY <2>1, <2>2, HookSet
  <2> QED BY <1>0, <2>1, <2>2, <2>3 DEF HookMoves
<1>6. CASE WriteCard(h)
  BY <1>1, <1>20, <1>6 DEF WriteCard
<1>7. CASE Unregister(h)
  BY <1>2, <1>7 DEF Unregister, Decisions
<1>8. CASE ReadBack(h)
  BY <1>0, <1>8, ReadBackMakes DEF HookMoves
<1>9. CASE TurnOver(h)
  BY <1>1, <1>9 DEF TurnOver
<1>10. CASE SeenEnded(h)
  <2> DEFINE x == [hook[h] EXCEPT !.seen = "open"]
  <2>1. x \in HookRec /\ x.at = hook[h].at /\ x.reply = hook[h].reply
    BY <1>0 DEF HookRec
  <2>2. hook' = [hook EXCEPT ![h] = x] /\ hook[h].at = "ended"
    BY <1>10 DEF SeenEnded, HookType
  <2> HIDE DEF x
  <2>3. HookType' /\ hook'[h] = x /\ \A g \in Hooks : g # h => hook'[g] = hook[g]
    BY <2>1, <2>2, HookSet
  <2> QED BY <1>0, <2>1, <2>2, <2>3 DEF HookMoves
<1>11. CASE StillOpen(h)
  BY <1>1, <1>20, <1>11 DEF StillOpen
<1>12. CASE Persist(h)
  BY <1>1, <1>20, <1>12 DEF Persist
<1>13. CASE Answered(h)
  <2> DEFINE v == IF chan[h] = "closed" THEN "pass" ELSE chan[h]
  <2>1. chan[h] \in ChanStates /\ chan[h] # "dead"
    BY <1>13 DEF Answered, ChanType, Sends, HookChan
  <2>2. v \in {"none", "pass"} \cup Decisions /\ (v \in Decisions => v = chan[h])
    BY <1>13, <2>1 DEF Answered, ChanStates, Decisions
  <2>3. hook' = [hook EXCEPT ![h] = Returned(v)]
    BY <1>13 DEF Answered, Return
  <2> HIDE DEF v
  <2> QED BY <1>2, <1>13, <2>2, <2>3 DEF Answered
<1>14. CASE Gone(h)
  BY <1>1, <1>14 DEF Gone
<1>15. ASSUME NEW current \in BOOLEAN, HookEnded(h, current) PROVE HookMoves(h)
  BY <1>1, <1>20, <1>15 DEF HookEnded
<1>16. CASE SomeoneReturns(h)
  BY <1>1, <1>16 DEF SomeoneReturns
<1>17. CASE SetHold(h)
  <2>1. CASE Present
    <3> DEFINE a == IF hook[h].at = "back" THEN "back_row" ELSE "gone_row"
    <3>1. At(h, a) /\ a \in {"back_row", "gone_row"} /\ hook[h].at \in {"back", "gone_hold"}
          /\ (a = "back_row" => hook[h].at = "back")
      BY <1>17, <2>1 DEF SetHold
    <3> HIDE DEF a
    <3> QED BY <1>1, <3>1
  <2>2. CASE ~Present
    BY <1>17, <1>20, <2>2 DEF SetHold
  <2> QED BY <2>1, <2>2
<1>18. CASE HoldRow(h)
  BY <1>18, <1>20 DEF HoldRow
<1> QED BY <1>3, <1>4, <1>5, <1>6, <1>7, <1>8, <1>9, <1>10, <1>11, <1>12, <1>13, <1>14, <1>15, <1>16,
           <1>17, <1>18 DEF HookStep

\* A crash ends every hook that had arrived.
LEMMA HookCrash ==
  ASSUME Types, Crash
  PROVE  /\ HookType' /\ ChanType'
         /\ \A h \in Hooks : /\ chan'[h] = "dead"
                             /\ hook[h].at \in {"idle", "over"} => hook'[h] = hook[h]
                             /\ hook[h].at \notin {"idle", "over"} =>
                                  hook'[h].at = "over" /\ hook'[h].reply = "none" /\ hook'[h].seen = "open"
                             /\ hook'[h].at \in {"idle", "over"}
<1> DEFINE x == [Fresh EXCEPT !.at = "over"]
<1>1. x \in HookRec /\ x.at = "over" /\ x.reply = "none" /\ x.seen = "open"
  BY OverShape
<1>2. hook' = [h \in Hooks |-> IF hook[h].at \in {"idle", "over"} THEN hook[h] ELSE x]
  BY DEF Crash
<1>3. chan' = [h \in Hooks |-> "dead"]
  BY DEF Crash
<1> HIDE DEF x
<1>4. HookType'
  BY <1>1, <1>2 DEF Types, HookType
<1>5. ChanType'
  BY <1>3 DEF ChanType, ChanStates
<1> QED BY <1>1, <1>2, <1>3, <1>4, <1>5

\* A channel's sender is used or dropped once; its receiver is dropped when its hook ends.
ChanMoves(h) ==
  \/ chan'[h] = chan[h]
  \/ chan[h] = "open" /\ chan'[h] \in {"closed", "pass"}
  \/ chan'[h] = "dead" /\ hook'[h].at \notin Listening
  \/ chan'[h] \in {"open", "none"} /\ hook[h].at = "register" /\ hook'[h].at = "write"

\* The card and the channels: a hook's sender comes into the card when it registers.
CardMoves ==
  /\ EntryType' /\ ChanType'
  /\ \A h \in Hooks : ChanMoves(h)
  /\ \A h \in Hooks : Present' /\ entry'.resp = h => (Present /\ entry.resp = h) \/ hook'[h].at = "write"

\* Every step moves the card and the channels so, a crash and a tap that sends apart.
LEMMA CardEffect ==
  ASSUME Types, Sends, [Next]_vars, ~Crash, \A t \in Taps : ~TapSend(t)
  PROVE  CardMoves
<1> USE DEF Types
<1>0. /\ EntryType /\ ChanType /\ card \in Cards /\ (post # "no" \/ result => call \in Ran)
      /\ (Present => entry \in Entries) /\ card.question \in BOOLEAN
  BY EntryShape, CardsAssumption DEF Sends, PostInv, RunType
<1>1. ASSUME UNCHANGED <<entry, chan>> PROVE CardMoves
  BY <1>0, <1>1 DEF CardMoves, ChanMoves, EntryType, ChanType, Present
<1>2. ASSUME Note, call \in Ran PROVE CardMoves
  <2>1. CASE Present /\ card.question /\ entry.confirm # "none"
    BY <1>0, <1>2, <2>1, NoteMakes DEF CardMoves, ChanMoves
  <2>2. CASE Present /\ ~(card.question /\ entry.confirm # "none")
    <3>1. EntryType' /\ ChanType' /\ entry'.resp = "none"
      BY <1>0, <1>2, <2>2, NoteMakes
    <3>2. \A h \in Hooks : ChanMoves(h)
      BY <1>0, <1>2, <2>2, NoteMakes DEF ChanMoves
    <3> QED BY <3>1, <3>2, Names DEF CardMoves
  <2>3. CASE ~Present
    BY <1>0, <1>2, <2>3, NoteMakes DEF CardMoves, ChanMoves
  <2> QED BY <2>1, <2>2, <2>3
<1>3. ASSUME Remove PROVE CardMoves
  BY <1>0, <1>3, RemoveMakes DEF CardMoves, ChanMoves
<1>4. ASSUME NEW w \in Workers, Moved(w) PROVE CardMoves
  <2>1. CASE UNCHANGED <<chan, entry, work>>
    BY <1>1, <2>1
  <2>2. CASE ~UNCHANGED <<chan, entry, work>>
    <3>1. /\ EntryType' /\ ChanType'
          /\ Present /\ entry' = [entry EXCEPT !.resp = "none"]
          /\ \A h \in Hooks : chan'[h] = IF entry.resp = h /\ chan[h] = "open" THEN "pass" ELSE chan[h]
      BY <1>0, <1>4, <2>2, MovedMakes
    <3>2. entry'.resp = "none"
      BY <1>0, <3>1 DEF Entries
    <3> QED BY <3>1, <3>2, Names DEF CardMoves, ChanMoves
  <2> QED BY <2>1, <2>2
<1>5. ASSUME Present, entry' \in Entries, entry'.resp = "none", chan' = Close(chan, entry.resp)
      PROVE  CardMoves
  BY <1>0, <1>5, EntrySet, Closes, Names DEF CardMoves, ChanMoves, ChanType
<1>6. ASSUME EntryType', Present' => Present /\ entry'.resp \in {entry.resp, "none"}, UNCHANGED chan PROVE CardMoves
  BY <1>0, <1>6, Names DEF CardMoves, ChanMoves, ChanType
<1>7. ASSUME NEW h \in Hooks, NEW v \in {"none", "pass"} \cup Decisions, Return(h, v), UNCHANGED entry PROVE CardMoves
  <2>1. EntryType' /\ (Present' <=> Present) /\ entry' = entry
    BY <1>0, <1>7 DEF EntryType, Present
  <2> QED BY <1>0, <1>7, <2>1, HookReturns DEF CardMoves, ChanMoves, Listening
<1>8. ASSUME PostBegin \/ PostNote PROVE CardMoves
  BY <1>0, <1>2, <1>8 DEF PostBegin, PostNote
<1>9. ASSUME NEW w \in Workers, CallEnded(w) PROVE CardMoves
  <2>1. CASE Present /\ ~card.question
    <3> DEFINE r == work[w].o.d = "refuse" /\ ~entry.ran
    <3>1. /\ entry' = [entry EXCEPT !.rejected = r, !.ran = TRUE, !.resp = "none"]
          /\ chan' = Close(chan, entry.resp) /\ r \in BOOLEAN
      BY <1>9, <2>1 DEF CallEnded
    <3> HIDE DEF r
    <3>2. entry' \in Entries /\ entry'.resp = "none"
      BY <1>0, <2>1, <3>1 DEF Entries
    <3> QED BY <1>5, <2>1, <3>1, <3>2
  <2>2. CASE ~(Present /\ ~card.question)
    BY <1>1, <1>9, <2>2 DEF CallEnded
  <2> QED BY <2>1, <2>2
<1>10. ASSUME NEW c \in Closers, StopHook(c) PROVE CardMoves
  BY <1>4, <1>10 DEF StopHook, Workers
<1>11. ASSUME NEW c \in Closers, CloseCard(c) PROVE CardMoves
  <2>1. Present => entry' = [entry EXCEPT !.resp = "none"] /\ chan' = Close(chan, entry.resp)
    BY <1>11 DEF CloseCard
  <2>2. ~Present => UNCHANGED <<entry, chan>>
    BY <1>11 DEF CloseCard
  <2>3. CASE Present
    <3>1. entry' \in Entries /\ entry'.resp = "none"
      BY <1>0, <2>1, <2>3 DEF Entries
    <3> QED BY <1>5, <2>1, <2>3, <3>1
  <2>4. CASE ~Present
    BY <1>1, <2>2, <2>4
  <2> QED BY <2>3, <2>4
<1>12. ASSUME NEW c \in Closers, NEW back \in BOOLEAN, SweepScreen(c, back) PROVE CardMoves
  <2>1. PICK n \in 0..LOCAL_RESOLVE_MISSES : entry' = [entry EXCEPT !.misses = n]
    <3> DEFINE n == IF ~back THEN 0 ELSE IF entry.misses = LOCAL_RESOLVE_MISSES THEN entry.misses
                                     ELSE entry.misses + 1
    <3>1. entry.misses \in 0..LOCAL_RESOLVE_MISSES
      BY <1>0, <1>12 DEF SweepScreen, Entries
    <3>2. n \in 0..LOCAL_RESOLVE_MISSES
      BY <3>1, BoundsAssumption
    <3> QED BY <1>12, <3>2 DEF SweepScreen
  <2>2. entry' \in Entries /\ entry'.resp = entry.resp /\ Present
    BY <1>0, <1>12, <2>1 DEF SweepScreen, Entries
  <2> QED BY <1>6, <1>12, <2>2, EntrySet DEF SweepScreen
<1>13. ASSUME NEW w \in Workers, Take(w) PROVE CardMoves
  BY <1>1, <1>3, <1>13 DEF Take
<1>14. ASSUME NEW h \in Hooks, Register(h) PROVE CardMoves
  <2>1. HookMoves(h) /\ hook'[h].at = "write" /\ hook[h].at = "register"
    <3>1. HookMoves(h)
      BY <1>14, HookEffect DEF HookStep
    <3>2. hook' = [hook EXCEPT ![h] = [hook[h] EXCEPT !.at = "write", !.reg = ~Present]] /\ hook[h] \in HookRec
      BY <1>14 DEF Register, HookType
    <3>3. hook'[h].at = "write"
      BY <3>2 DEF HookType, HookRec
    <3> QED BY <1>14, <3>1, <3>3 DEF Register
  <2>2. ChanType' /\ chan'[h] \in {"open", "none"} /\ \A g \in Hooks : g # h => chan'[g] = chan[g]
    BY <1>14 DEF Register, ChanType, ChanStates
  <2>3. EntryType' /\ \A g \in Hooks : Present' /\ entry'.resp = g => (Present /\ entry.resp = g) \/ g = h
    <3>1. CASE Present
      BY <1>0, <1>14, <3>1 DEF Register, EntryType, Present
    <3>2. CASE ~Present
      <4>1. hook[h].held \in BOOLEAN
        BY DEF HookType, HookRec
      <4>2. entry' = [hold |-> IF hook[h].held THEN "held" ELSE "at_mac",
                      resp |-> IF hook[h].held THEN h ELSE "none",
                      claimed |-> FALSE, ran |-> FALSE, rejected |-> FALSE, confirm |-> "none", misses |-> 0]
        BY <1>14, <3>2 DEF Register
      <4>3. entry' \in Entries /\ entry'.resp \in {h, "none"}
        BY <4>1, <4>2, BoundsAssumption DEF Entries, Holds
      <4> QED BY <4>3, EntrySet, Names
    <3> QED BY <3>1, <3>2
  <2> QED BY <2>1, <2>2, <2>3 DEF CardMoves, ChanMoves
<1>15. ASSUME NEW h \in Hooks, WriteCard(h) PROVE CardMoves
  BY <1>1, <1>7, <1>15 DEF WriteCard
<1>16. ASSUME NEW h \in Hooks, Unregister(h) PROVE CardMoves
  <2>1. EntryType' /\ ~Present'
    BY <1>16 DEF Unregister, EntryType, Present
  <2>2. hook' = [hook EXCEPT ![h] = Returned("pass")]
        /\ chan' = [(IF Present THEN Close(chan, entry.resp) ELSE chan) EXCEPT ![h] = "dead"]
    BY <1>16 DEF Unregister
  <2>3. hook'[h].at = "returned"
    <3>1. Returned("pass") \in HookRec /\ Returned("pass").at = "returned"
      BY ReturnedShape
    <3> QED BY <2>2, <3>1, HookSet
  <2>4. ASSUME NEW ch \in [Hooks -> ChanStates], chan' = [ch EXCEPT ![h] = "dead"],
               \A g \in Hooks : ch[g] \in {chan[g], "closed"} /\ (chan[g] # "open" => ch[g] = chan[g])
        PROVE  CardMoves
    BY <2>1, <2>3, <2>4 DEF CardMoves, ChanMoves, ChanType, ChanStates, Listening
  <2>5. CASE Present
    BY <1>0, <2>2, <2>4, <2>5, Closes
  <2>6. CASE ~Present
    BY <1>0, <2>2, <2>4, <2>6 DEF ChanType
  <2> QED BY <2>5, <2>6
<1>17. ASSUME NEW h \in Hooks, ReadBack(h) PROVE CardMoves
  BY <1>0, <1>1, <1>2, <1>17 DEF ReadBack
<1>18. ASSUME NEW h \in Hooks, TurnOver(h) PROVE CardMoves
  BY <1>1, <1>4, <1>18 DEF TurnOver, Workers
<1>19. ASSUME NEW h \in Hooks,
              StillOpen(h) \/ Persist(h) \/ HoldRow(h) \/ \E current \in BOOLEAN : HookEnded(h, current)
       PROVE  CardMoves
  BY <1>1, <1>7, <1>19 DEF StillOpen, Persist, HoldRow, HookEnded
<1>20. ASSUME NEW h \in Hooks, Answered(h) PROVE CardMoves
  <2>1. HookMoves(h)
    BY <1>20, HookEffect DEF HookStep
  <2>2. chan' = [chan EXCEPT ![h] = "dead"] /\ UNCHANGED entry
    BY <1>20 DEF Answered, Return
  <2>3. \E v : hook' = [hook EXCEPT ![h] = Returned(v)]
    BY <1>20 DEF Answered, Return
  <2>4. hook'[h].at = "returned"
    BY <2>3 DEF HookType, Returned, Fresh
  <2> QED BY <1>0, <2>2, <2>4 DEF CardMoves, ChanMoves, ChanType, ChanStates, Listening, EntryType, Present
<1>21. ASSUME NEW h \in Hooks, Gone(h) PROVE CardMoves
  <2>1. chan' = [chan EXCEPT ![h] = "dead"] /\ UNCHANGED entry /\ At(h, "gone")
    BY <1>21 DEF Gone
  <2>2. hook'[h].at = "gone"
    BY <2>1, HookAt DEF HookStates
  <2> QED BY <1>0, <2>1, <2>2 DEF CardMoves, ChanMoves, ChanType, ChanStates, Listening, EntryType, Present
<1>22. ASSUME NEW h \in Hooks, SomeoneReturns(h) PROVE CardMoves
  <2>1. Present /\ entry' = [entry EXCEPT !.resp = "none"] /\ UNCHANGED chan
    BY <1>22 DEF SomeoneReturns
  <2>2. entry' \in Entries /\ entry'.resp = "none"
    BY <1>0, <2>1 DEF Entries
  <2> QED BY <1>6, <2>1, <2>2, EntrySet
<1>23. ASSUME NEW h \in Hooks, SetHold(h) PROVE CardMoves
  <2>1. CASE Present
    <3>1. entry' = [entry EXCEPT !.hold = HoldOf(h)] /\ UNCHANGED chan /\ HoldOf(h) \in Holds
      BY <1>23, <2>1 DEF SetHold, HoldOf, Holds
    <3>2. entry' \in Entries /\ entry'.resp = entry.resp
      BY <1>0, <2>1, <3>1 DEF Entries
    <3> QED BY <1>6, <2>1, <3>1, <3>2, EntrySet
  <2>2. CASE ~Present
    BY <1>7, <1>23, <2>2 DEF SetHold
  <2> QED BY <2>1, <2>2
<1>24. ASSUME NEW t \in Taps, TapEntry(t) \/ TapUnclaim(t) PROVE CardMoves
  <2>1. CASE UNCHANGED entry
    BY <1>1, <1>24, <2>1 DEF TapEntry, TapUnclaim
  <2>2. CASE entry' # entry
    <3>1. PICK b \in BOOLEAN : Present /\ entry' = [entry EXCEPT !.claimed = b] /\ UNCHANGED chan
      BY <1>24, <2>2 DEF TapEntry, TapUnclaim, Carries
    <3>2. entry' \in Entries /\ entry'.resp = entry.resp
      BY <1>0, <3>1 DEF Entries
    <3> QED BY <1>6, <3>1, <3>2, EntrySet
  <2> QED BY <2>1, <2>2
<1>25. ASSUME NEW t \in Taps, TapHand(t) PROVE CardMoves
  <2>1. CASE ~Present
    BY <1>1, <1>25, <2>1 DEF TapHand
  <2>2. CASE Present
    <3>1. entry' = [entry EXCEPT !.resp = "none", !.confirm = IF card.question THEN t ELSE @] /\ UNCHANGED chan
      BY <1>25, <2>2 DEF TapHand
    <3>2. entry' \in Entries /\ entry'.resp = "none"
      BY <1>0, <2>2, <3>1 DEF Entries
    <3> QED BY <1>6, <2>2, <3>1, <3>2, EntrySet
  <2> QED BY <2>1, <2>2
<1>26. ASSUME NEW t \in Taps, TapSettled(t) \/ TapRemove(t) PROVE CardMoves
  BY <1>3, <1>26 DEF TapSettled, TapRemove
<1>27. ASSUME Restore PROVE CardMoves
  <2>1. CASE entry' = NoEntry
    BY <1>0, <1>6, <1>27, <2>1 DEF Restore, EntryType, Present
  <2>2. CASE entry' # NoEntry
    <3>1. row \in Holds \cup {"none"} /\ row # "none"
          /\ entry' = [hold |-> IF row = "held" THEN "ended" ELSE row, resp |-> "none", claimed |-> FALSE,
                       ran |-> FALSE, rejected |-> FALSE, confirm |-> "none", misses |-> 0]
      BY <1>27, <2>2 DEF Restore, DiskType
    <3>2. entry' \in Entries /\ entry'.resp = "none"
      BY <3>1, BoundsAssumption DEF Entries, Holds
    <3>3. UNCHANGED chan
      BY <1>27 DEF Restore
    <3> QED BY <1>0, <3>2, <3>3, EntrySet, Names DEF CardMoves, ChanMoves, ChanType
  <2> QED BY <2>1, <2>2
<1> QED BY <1>1, <1>8, <1>9, <1>10, <1>11, <1>12, <1>13, <1>14, <1>15, <1>16, <1>17, <1>18, <1>19, <1>20, <1>21,
           <1>22, <1>23, <1>24, <1>25, <1>26, <1>27, Frames DEF EntryActs, ChanActs

\* A step that is not a tap's keeps what a tap did and said; Note and Unregister may tell it
\* what Claude ran with.
TapKept(t) ==
  /\ tap'[t].at = tap[t].at /\ tap'[t].d = tap[t].d /\ tap'[t].resp = tap[t].resp
  /\ tap'[t].sent = tap[t].sent /\ tap'[t].told = tap[t].told
  /\ tap'[t].conf # tap[t].conf =>
       tap'[t].conf = "lost" \/ (tap'[t].conf = call /\ tap[t].at \in {"send", "confirm"})

\* A tap's own step.
TapTurn(t) == TapStep(t) \/ \E d \in Decisions : TapBegin(t, d)

\* Every step keeps the taps so, a crash and a tap's own step apart.
LEMMA TapEffect ==
  ASSUME Types, Sends, [Next]_vars, ~Crash, \A t \in Taps : ~TapTurn(t)
  PROVE  TapType' /\ \A t \in Taps : TapKept(t)
<1> USE DEF Types
<1>0. /\ EntryType /\ ChanType /\ TapType /\ card \in Cards /\ (post # "no" \/ result => call \in Ran)
      /\ \A t \in Taps : tap[t] \in TapRec
  BY DEF Sends, PostInv, RunType, TapType
<1>1. ASSUME UNCHANGED tap PROVE TapType' /\ \A t \in Taps : TapKept(t)
  BY <1>0, <1>1 DEF TapKept, TapType
<1>2. ASSUME Note, call \in Ran PROVE TapType' /\ \A t \in Taps : TapKept(t)
  <2>1. TapType'
    BY <1>0, <1>2, NoteMakes
  <2>2. ASSUME NEW t \in Taps PROVE TapKept(t)
    <3>1. \/ tap'[t] = tap[t]
          \/ tap'[t] = [tap[t] EXCEPT !.conf = call] /\ tap[t].at \in {"send", "confirm"}
      BY <1>0, <1>2, NoteMakes
    <3> QED BY <1>0, <3>1 DEF TapKept, TapRec
  <2> QED BY <2>1, <2>2
<1>3. ASSUME NEW h \in Hooks, Unregister(h) PROVE TapType' /\ \A t \in Taps : TapKept(t)
  <2>1. tap' = [t \in Taps |-> IF Present /\ entry.confirm = t /\ tap[t].conf = "none"
                               THEN [tap[t] EXCEPT !.conf = "lost"] ELSE tap[t]]
    BY <1>3 DEF Unregister
  <2>2. ASSUME NEW t \in Taps PROVE TapKept(t) /\ tap'[t] \in TapRec
    <3>1. tap'[t] \in {tap[t], [tap[t] EXCEPT !.conf = "lost"]}
      BY <2>1
    <3> QED BY <1>0, <3>1 DEF TapKept, TapRec
  <2>3. TapType'
    BY <2>1, <2>2 DEF TapType
  <2> QED BY <2>2, <2>3
<1>4. ASSUME PostBegin \/ PostNote PROVE Note /\ call \in Ran
  BY <1>0, <1>4 DEF PostBegin, PostNote
<1>5. ASSUME NEW h \in Hooks, ReadBack(h) PROVE (Note /\ call \in Ran) \/ UNCHANGED tap
  BY <1>0, <1>5 DEF ReadBack
<1>6. \A t \in Taps : /\ ~TapLedger(t) /\ ~TapEntry(t) /\ ~TapClaim(t) /\ ~TapHand(t) /\ ~TapSend(t)
                      /\ ~TapConfirm(t) /\ ~TapRelease(t) /\ ~TapUnclaim(t) /\ ~TapSettled(t)
                      /\ ~TapRecord(t) /\ ~TapRemove(t) /\ ~TapClear(t)
                      /\ ~\E d \in Decisions : TapBegin(t, d)
  BY DEF TapTurn, TapStep
<1> QED BY <1>1, <1>2, <1>3, <1>4, <1>5, <1>6, Frames DEF TapActs

\* A tap's step is its own.
LEMMA TapTurnEffect ==
  ASSUME Types, NEW t \in Taps, TapTurn(t)
  PROVE  TapType' /\ \A u \in Taps : u # t => tap'[u] = tap[u]
<1> USE DEF Types
<1> DEFINE Goal == TapType' /\ \A u \in Taps : u # t => tap'[u] = tap[u]
<1>0. tap[t] \in TapRec /\ TapType
  BY DEF TapType
<1>1. ASSUME NEW a \in TapStates, TapTo(t, a) PROVE Goal
  BY <1>0, <1>1, TapAt
<1>2. ASSUME NEW r \in {"none", "applied", "duplicate", "refused", "unknown", "lost"}, Tell(t, r) PROVE Goal
  BY <1>0, <1>2, TapTold
<1>3. ASSUME NEW x \in TapRec, tap' = [tap EXCEPT ![t] = x] PROVE Goal
  BY <1>0, <1>3, TapSet
<1>4. ASSUME NEW d \in Decisions, TapBegin(t, d) PROVE Goal
  <2>1. tap' = [tap EXCEPT ![t] = [tap[t] EXCEPT !.at = "gate", !.d = d]]
    BY <1>0, <1>4 DEF TapBegin, TapRec
  <2>2. [tap[t] EXCEPT !.at = "gate", !.d = d] \in TapRec
    BY <1>0 DEF TapRec, TapStates
  <2> QED BY <1>3, <2>1, <2>2
<1>5. CASE TapLedger(t)
  BY <1>1, <1>2, <1>5 DEF TapLedger, TapStates
<1>6. CASE TapEntry(t)
  BY <1>1, <1>2, <1>6 DEF TapEntry, TapStates
<1>7. CASE TapClaim(t)
  BY <1>1, <1>7 DEF TapClaim, TapStates
<1>8. CASE TapHand(t)
  <2> DEFINE a == IF Present /\ entry.resp # "none" THEN "send" ELSE "release"
             r == IF Present THEN entry.resp ELSE "none"
  <2>1. tap' = [tap EXCEPT ![t] = [tap[t] EXCEPT !.at = a, !.resp = r]]
    BY <1>0, <1>8 DEF TapHand, TapRec
  <2>2. r \in Hooks \cup {"none"} /\ a \in TapStates
    BY EntryShape DEF Entries, TapStates
  <2> HIDE DEF a, r
  <2>3. [tap[t] EXCEPT !.at = a, !.resp = r] \in TapRec
    BY <1>0, <2>2 DEF TapRec
  <2> QED BY <1>3, <2>1, <2>3
<1>9. CASE TapSend(t)
  <2>1. CASE chan[tap[t].resp] = "open"
    <3> DEFINE a == IF card.question THEN "confirm" ELSE "record"
    <3>1. tap' = [tap EXCEPT ![t] = [tap[t] EXCEPT !.at = a, !.sent = TRUE]]
      BY <1>0, <1>9, <2>1 DEF TapSend, TapRec
    <3>2. a \in TapStates
      BY DEF TapStates
    <3> HIDE DEF a
    <3>3. [tap[t] EXCEPT !.at = a, !.sent = TRUE] \in TapRec
      BY <1>0, <3>2 DEF TapRec
    <3> QED BY <1>3, <3>1, <3>3
  <2>2. CASE chan[tap[t].resp] # "open"
    BY <1>1, <1>9, <2>2 DEF TapSend, TapStates
  <2> QED BY <2>1, <2>2
<1>10. CASE TapConfirm(t)
  <2> DEFINE a == IF tap[t].conf = tap[t].d THEN "record" ELSE "release"
  <2>1. a \in TapStates /\ "settle" \in TapStates
    BY DEF TapStates
  <2>2. TapTo(t, a) \/ TapTo(t, "settle")
    BY <1>10 DEF TapConfirm
  <2> HIDE DEF a
  <2> QED BY <1>1, <2>1, <2>2
<1>11. CASE TapRelease(t) \/ TapUnclaim(t) \/ TapRemove(t)
  BY <1>1, <1>2, <1>11 DEF TapRelease, TapUnclaim, TapRemove, TapStates
<1>12. CASE TapSettled(t)
  BY <1>2, <1>12 DEF TapSettled
<1>13. CASE TapRecord(t)
  <2> DEFINE r == IF ledger = NoOutcome THEN "applied" ELSE "duplicate"
  <2>1. tap' = [tap EXCEPT ![t] = [tap[t] EXCEPT !.at = "remove", !.told = r]]
    BY <1>0, <1>13 DEF TapRecord, TapRec
  <2>2. r \in {"applied", "duplicate"}
    OBVIOUS
  <2> HIDE DEF r
  <2>3. [tap[t] EXCEPT !.at = "remove", !.told = r] \in TapRec
    BY <1>0, <2>2 DEF TapRec, TapStates
  <2> QED BY <1>3, <2>1, <2>3
<1>14. CASE TapClear(t)
  BY <1>0, <1>2, <1>14 DEF TapClear, TapRec
<1> QED BY <1>4, <1>5, <1>6, <1>7, <1>8, <1>9, <1>10, <1>11, <1>12, <1>13, <1>14 DEF TapTurn, TapStep

\* A crash ends every tap that had begun, and what it sent stays on record.
LEMMA TapCrash ==
  ASSUME Types, Crash
  PROVE  /\ TapType'
         /\ \A t \in Taps : /\ tap[t].at \in {"idle", "done"} => tap'[t] = tap[t]
                            /\ tap[t].at \notin {"idle", "done"} => tap'[t].at = "done" /\ tap'[t].told = "lost"
                            /\ tap'[t].d = tap[t].d /\ tap'[t].resp = tap[t].resp
                            /\ tap'[t].sent = tap[t].sent /\ tap'[t].conf = tap[t].conf
<1>1. tap' = [t \in Taps |-> IF tap[t].at \in {"idle", "done"} THEN tap[t]
                             ELSE [tap[t] EXCEPT !.at = "done", !.told = "lost"]]
  BY DEF Crash
<1>2. ASSUME NEW t \in Taps
      PROVE  /\ tap'[t] \in TapRec
             /\ tap[t].at \in {"idle", "done"} => tap'[t] = tap[t]
             /\ tap[t].at \notin {"idle", "done"} => tap'[t].at = "done" /\ tap'[t].told = "lost"
             /\ tap'[t].d = tap[t].d /\ tap'[t].resp = tap[t].resp
             /\ tap'[t].sent = tap[t].sent /\ tap'[t].conf = tap[t].conf
  <2>1. tap[t] \in TapRec
    BY DEF Types, TapType
  <2>2. tap'[t] = IF tap[t].at \in {"idle", "done"} THEN tap[t]
                  ELSE [tap[t] EXCEPT !.at = "done", !.told = "lost"]
    BY <1>1
  <2>3. CASE tap[t].at \in {"idle", "done"}
    BY <2>1, <2>2, <2>3
  <2>4. CASE tap[t].at \notin {"idle", "done"}
    <3>1. tap'[t] = [tap[t] EXCEPT !.at = "done", !.told = "lost"]
      BY <2>2, <2>4
    <3> QED BY <2>1, <2>4, <3>1 DEF TapRec, TapStates
  <2> QED BY <2>3, <2>4
<1> QED BY <1>1, <1>2 DEF TapType

-----------------------------------------------------------------------------
(* The tasks: one tap behind the gate, each task with its own kind of      *)
(* outcome, and nothing under way in a daemon that is down.                *)

\* Where a tap is behind the gate.
GateAt == {"entry", "claim", "unclaim", "hand", "send", "confirm", "release", "settle", "record",
           "remove", "clear"}

GateInv == \A t \in Taps : tap[t].at \in GateAt => gate = t
WorkInv ==
  /\ \A t \in Taps : work[t] # Idle =>
       work[t].at \in {"record", "announce"} /\ work[t].o.by = "phone" /\ tap[t].at = "settle"
  /\ work[Recovery] # Idle =>
       /\ work[Recovery].at \in {"record", "announce"} /\ work[Recovery].o.by = "phone"
       /\ up = "restoring"
  /\ \A w \in Hooks \cup Closers : work[w] # Idle => work[w].o.by = "mac"
  /\ \A h \in Hooks : hook[h].at \in {"idle", "register"} => work[h] = Idle

\* After a crash no hook is held again: a hook that is still to come is not joined to its call.
JoinInv ==
  ~keyed.joined => /\ \A h \in Hooks : hook[h].at \in {"idle", "over"}
                   /\ Present => entry.resp = "none"
                   /\ \A t \in Taps : tap[t].at \in {"idle", "gate", "entry", "settle", "done"}
DownInv ==
  up # "up" => /\ ~keyed.joined /\ ~Present
               /\ \A t \in Taps : tap[t].at \in {"idle", "done"}
               /\ \A w \in Workers \ {Recovery} : work[w] = Idle
               /\ up = "down" => work[Recovery] = Idle
Tasks == GateInv /\ WorkInv /\ JoinInv /\ DownInv

\* What a step makes of a task's outcome.
WorkMoves ==
  /\ WorkType'
  /\ \A w \in Workers :
       \/ work'[w] \in {work[w], Idle}
       \/ /\ w \in Hooks \cup Closers /\ work'[w].o.by = "mac"
          /\ \/ work[w] # Idle
             \/ w \in Closers /\ up = "up"
             \/ w \in Hooks /\ hook[w].at \in {"turn", "ended", "gone"}
                            /\ hook'[w].at \notin {"idle", "register"}
       \/ /\ w \in Taps /\ work'[w].at \in {"record", "announce"} /\ work'[w].o.by = "phone"
          /\ \/ work[w] # Idle /\ UNCHANGED tap
             \/ TapTurn(w) /\ tap'[w].at = "settle"
       \/ /\ w = Recovery /\ work'[w].at \in {"record", "announce"} /\ work'[w].o.by = "phone"
          /\ \/ work[w] # Idle /\ UNCHANGED up
             \/ up' = "restoring"

\* What a step makes of the tasks.
LEMMA WorkEffect ==
  ASSUME Types, Sends, WorkInv, [Next]_vars
  PROVE  WorkMoves
<1> USE DEF Types
<1>0. /\ WorkType /\ \A w \in Workers : work[w] \in {Idle} \cup WorkRec
      /\ Hooks \subseteq Workers /\ Closers \subseteq Workers /\ Taps \subseteq Workers /\ Recovery \in Workers
      /\ Idle.at = "idle"
  BY DEF WorkType, Workers, Idle
<1>1. ASSUME UNCHANGED work PROVE WorkMoves
  BY <1>0, <1>1 DEF WorkMoves, WorkType
<1>2. ASSUME NEW w \in Workers, work' = [work EXCEPT ![w] = Idle] PROVE WorkMoves
  <2>1. WorkType' /\ work'[w] = Idle /\ \A v \in Workers : v # w => work'[v] = work[v]
    BY <1>0, <1>2, WorkSet
  <2> QED BY <2>1 DEF WorkMoves
<1>3. ASSUME NEW w \in Hooks \cup Closers, NEW x \in WorkRec, x.o.by = "mac", work' = [work EXCEPT ![w] = x],
             \/ work[w] # Idle
             \/ w \in Closers /\ up = "up"
             \/ w \in Hooks /\ hook[w].at \in {"turn", "ended", "gone"} /\ hook'[w].at \notin {"idle", "register"}
      PROVE  WorkMoves
  <2>1. w \in Workers
    BY <1>0
  <2>2. WorkType' /\ work'[w] = x /\ \A v \in Workers : v # w => work'[v] = work[v]
    BY <1>0, <1>3, <2>1, WorkSet
  <2> QED BY <1>3, <2>1, <2>2 DEF WorkMoves
<1>4. ASSUME NEW w \in Hooks \cup Closers, NEW d \in Decisions, NEW sure \in BOOLEAN,
             NEW a \in {"gate", "ended", "take", "record", "announce"},
             work' = [work EXCEPT ![w] = [at |-> a, o |-> Local(d, sure)]],
             \/ w \in Closers /\ up = "up"
             \/ w \in Hooks /\ hook[w].at \in {"turn", "ended", "gone"} /\ hook'[w].at \notin {"idle", "register"}
      PROVE  WorkMoves
  <2> DEFINE x == [at |-> a, o |-> Local(d, sure)]
  <2>1. x \in WorkRec /\ x.o.by = "mac"
    BY OutcomeShape DEF WorkRec
  <2> HIDE DEF x
  <2>2. work' = [work EXCEPT ![w] = x]
    BY <1>4 DEF x
  <2> QED BY <1>3, <1>4, <2>1, <2>2
<1>5. ASSUME NEW w \in Workers, work[w] # Idle, NEW a \in {"gate", "ended", "take", "record", "announce"},
             \/ work' = [work EXCEPT ![w].at = a]
             \/ work' = [work EXCEPT ![w] = [at |-> a, o |-> work[w].o]],
             w \in Hooks \cup Closers \/ (a \in {"record", "announce"} /\ UNCHANGED <<tap, up>>)
      PROVE  WorkMoves
  <2>1. work[w] \in WorkRec
    BY <1>0, <1>5
  <2> DEFINE x == [at |-> a, o |-> work[w].o]
  <2>2. x \in WorkRec /\ x.o = work[w].o /\ x.at = a
    BY <2>1 DEF WorkRec
  <2>3. [work[w] EXCEPT !.at = a] = x
    BY <2>1 DEF WorkRec
  <2>4. work' = [work EXCEPT ![w] = x]
    BY <1>0, <1>5, <2>3 DEF WorkType
  <2> HIDE DEF x
  <2>5. WorkType' /\ work'[w] = x /\ \A v \in Workers : v # w => work'[v] = work[v]
    BY <1>0, <2>2, <2>4, WorkSet
  <2>6. CASE w \in Hooks \cup Closers
    BY <1>3, <1>5, <2>2, <2>4, <2>6 DEF WorkInv
  <2>7. CASE w \notin Hooks \cup Closers
    <3>1. w \in Taps \/ w = Recovery
      BY <2>7 DEF Workers
    <3>2. x.o.by = "phone"
      BY <1>5, <2>2, <3>1 DEF WorkInv
    <3> QED BY <1>5, <2>2, <2>5, <2>7, <3>1, <3>2 DEF WorkMoves
  <2> QED BY <2>6, <2>7
<1>6. ASSUME NEW c \in Closers, TailRead(c) PROVE WorkMoves
  <2> DEFINE d == IF call = "rejected" THEN "refuse" ELSE "take"
  <2>1. d \in Decisions /\ work' = [work EXCEPT ![c] = [at |-> "ended", o |-> Local(d, TRUE)]] /\ up = "up"
    BY <1>6 DEF TailRead, Decisions
  <2> HIDE DEF d
  <2> QED BY <1>4, <2>1
<1>7. ASSUME NEW w \in Workers, CallEnded(w) PROVE WorkMoves
  <2>1. work[w] # Idle /\ work[w].at = "ended"
    BY <1>0, <1>7 DEF CallEnded
  <2>2. w \in Hooks \cup Closers
    BY <2>1 DEF WorkInv, Workers
  <2>3. \/ work' = [work EXCEPT ![w] = [at |-> "take", o |-> work[w].o]]
        \/ work' = [work EXCEPT ![w] = Idle]
    BY <1>7 DEF CallEnded, Closing
  <2> QED BY <1>2, <1>5, <2>1, <2>2, <2>3
<1>8. ASSUME NEW w \in Hooks \cup Closers, Moved(w),
             \/ w \in Closers /\ up = "up"
             \/ w \in Hooks /\ hook[w].at \in {"turn", "ended", "gone"} /\ hook'[w].at \notin {"idle", "register"}
      PROVE WorkMoves
  <2>1. \/ UNCHANGED work
        \/ work' = [work EXCEPT ![w] = [at |-> "take", o |-> Local("refuse", FALSE)]]
    BY <1>8 DEF Moved, Closing
  <2> QED BY <1>1, <1>4, <1>8, <2>1 DEF Decisions
<1>9. ASSUME NEW c \in Closers, StopHook(c) PROVE WorkMoves
  BY <1>8, <1>9 DEF StopHook
<1>10. ASSUME NEW c \in Closers, RunExits(c) PROVE WorkMoves
  <2>1. up = "up" /\ \/ work' = [work EXCEPT ![c] = [at |-> "gate", o |-> Local("refuse", FALSE)]]
                     \/ work' = [work EXCEPT ![c] = Idle]
    BY <1>10 DEF RunExits
  <2> QED BY <1>0, <1>2, <1>4, <2>1 DEF Decisions
<1>11. ASSUME NEW c \in Closers, CloseCard(c) PROVE WorkMoves
  <2>1. \/ work' = [work EXCEPT ![c] = [at |-> "take", o |-> work[c].o]]
        \/ work' = [work EXCEPT ![c] = Idle]
    BY <1>11 DEF CloseCard, Closing
  <2>2. work[c] # Idle /\ c \in Workers
    BY <1>0, <1>11 DEF CloseCard
  <2> QED BY <1>0, <1>2, <1>5, <2>1, <2>2
<1>12. ASSUME NEW c \in Closers,
              Expire(c) \/ SweepRan(c) \/ \E back \in BOOLEAN : SweepScreen(c, back)
       PROVE  WorkMoves
  <2>1. up = "up" /\ \/ UNCHANGED work
                     \/ \E d \in Decisions, sure \in BOOLEAN :
                          work' = [work EXCEPT ![c] = [at |-> "take", o |-> Local(d, sure)]]
    BY <1>12 DEF Expire, SweepRan, SweepScreen, Closing, Decisions
  <2> QED BY <1>1, <1>4, <2>1
<1>13. ASSUME NEW w \in Workers, Take(w) PROVE WorkMoves
  <2>1. work[w] # Idle /\ work[w].at = "take"
    BY <1>0, <1>13 DEF Take
  <2>2. w \in Hooks \cup Closers
    BY <2>1 DEF WorkInv, Workers
  <2>3. \/ work' = [work EXCEPT ![w].at = "record"]
        \/ work' = [work EXCEPT ![w] = Idle]
    BY <1>13 DEF Take
  <2> QED BY <1>2, <1>5, <2>1, <2>2, <2>3
<1>14. ASSUME NEW w \in Workers, Record(w) PROVE WorkMoves
  <2>1. work[w] # Idle
    BY <1>0, <1>14 DEF Record
  <2>2. \/ work' = [work EXCEPT ![w].at = "announce"]
        \/ work' = [work EXCEPT ![w] = Idle]
    BY <1>14 DEF Record
  <2>3. UNCHANGED <<tap, up>>
    BY <1>14 DEF Record, runVars
  <2> QED BY <1>2, <1>5, <2>1, <2>2, <2>3
<1>15. ASSUME NEW w \in Workers, Announce(w) PROVE WorkMoves
  BY <1>2, <1>15 DEF Announce
<1>16. ASSUME NEW h \in Hooks, TurnOver(h) PROVE WorkMoves
  <2>1. hook'[h].at = "ended" /\ hook[h].at = "turn"
    BY <1>16, HookAt DEF TurnOver, HookStates
  <2> QED BY <1>1, <1>8, <1>16, <2>1 DEF TurnOver
<1>17. ASSUME NEW h \in Hooks, SeenEnded(h) PROVE WorkMoves
  <2>1. HookMoves(h)
    BY <1>17, HookEffect DEF HookStep
  <2>2. hook[h].at = "ended" /\ hook'[h].at \notin {"idle", "register"}
    BY <1>17, <2>1 DEF SeenEnded, HookMoves
  <2> DEFINE d == IF hook[h].seen = "rejected" THEN "refuse" ELSE "take"
  <2>3. d \in Decisions /\ work' = [work EXCEPT ![h] = [at |-> "ended", o |-> Local(d, TRUE)]]
    BY <1>17 DEF SeenEnded, Decisions
  <2> HIDE DEF d
  <2> QED BY <1>4, <2>2, <2>3
<1>18. ASSUME NEW h \in Hooks, NEW current \in BOOLEAN, HookEnded(h, current) PROVE WorkMoves
  <2>1. HookMoves(h)
    BY <1>18, HookEffect DEF HookStep
  <2>2. hook[h].at = "gone" /\ hook'[h].at \notin {"idle", "register"}
    BY <1>18, <2>1 DEF HookEnded, HookMoves
  <2>3. \/ UNCHANGED work
        \/ work' = [work EXCEPT ![h] = [at |-> "take", o |-> Local("refuse", FALSE)]]
    BY <1>18 DEF HookEnded, Closing
  <2> QED BY <1>1, <1>4, <2>2, <2>3 DEF Decisions
<1>19. ASSUME NEW t \in Taps, NEW d \in Decisions, Settling(t, d), TapTurn(t), TapTo(t, "settle") PROVE WorkMoves
  <2> DEFINE x == [at |-> "record", o |-> Phone(d, FALSE)]
  <2>1. x \in WorkRec /\ x.o.by = "phone" /\ x.at = "record"
    BY <1>19, OutcomeShape DEF WorkRec
  <2>2. work' = [work EXCEPT ![t] = x]
    BY <1>19 DEF Settling
  <2> HIDE DEF x
  <2>3. WorkType' /\ work'[t] = x /\ \A v \in Workers : v # t => work'[v] = work[v]
    BY <1>0, <2>1, <2>2, WorkSet
  <2>4. tap'[t].at = "settle"
    BY <1>19, TapAt DEF TapStates
  <2> QED BY <1>19, <2>1, <2>3, <2>4 DEF WorkMoves
<1>20. ASSUME NEW t \in Taps, TapLedger(t) PROVE WorkMoves
  <2>1. UNCHANGED work \/ (claim # "none" /\ TapTo(t, "settle") /\ Settling(t, claim))
    BY <1>20 DEF TapLedger
  <2> QED BY <1>1, <1>19, <1>20, <2>1 DEF DiskType, TapTurn, TapStep
<1>21. ASSUME NEW t \in Taps, TapConfirm(t) PROVE WorkMoves
  <2>1. UNCHANGED work \/ (TapTo(t, "settle") /\ Settling(t, tap[t].d))
    BY <1>21 DEF TapConfirm
  <2>2. tap[t].d \in Decisions
    BY DEF TapType, TapRec
  <2> QED BY <1>1, <1>19, <1>21, <2>1, <2>2 DEF TapTurn, TapStep
<1>22. ASSUME Crash PROVE WorkMoves
  <2>1. work' = [w \in Workers |-> Idle]
    BY <1>22 DEF Crash
  <2> QED BY <2>1 DEF WorkMoves, WorkType
<1>23. ASSUME RecoverClaim PROVE WorkMoves
  <2>1. CASE UNCHANGED work
    BY <1>1, <2>1
  <2>2. CASE work' = [work EXCEPT ![Recovery] = [at |-> "record", o |-> Phone(claim, FALSE)]] /\ claim # "none"
    <3> DEFINE x == [at |-> "record", o |-> Phone(claim, FALSE)]
    <3>1. x \in WorkRec /\ x.o.by = "phone" /\ x.at = "record"
      BY <2>2, OutcomeShape DEF WorkRec, DiskType
    <3>2. work' = [work EXCEPT ![Recovery] = x] /\ up' = "restoring"
      BY <1>23, <2>2 DEF RecoverClaim
    <3> HIDE DEF x
    <3>3. WorkType' /\ work'[Recovery] = x /\ \A v \in Workers : v # Recovery => work'[v] = work[v]
      BY <1>0, <3>1, <3>2, WorkSet
    <3> QED BY <3>1, <3>2, <3>3 DEF WorkMoves
  <2> QED BY <1>23, <2>1, <2>2 DEF RecoverClaim
<1> QED BY <1>1, <1>6, <1>7, <1>9, <1>10, <1>11, <1>12, <1>13, <1>14, <1>15, <1>16, <1>17, <1>18, <1>20, <1>21,
           <1>22, <1>23, Frames DEF WorkActs

\* A step that is not a crash moves one hook at most, and only registering takes a hook from
\* where it has not registered.
LEMMA HookTurn ==
  ASSUME Types, Sends, [Next]_vars, ~Crash
  PROVE  \/ UNCHANGED hook
         \/ \E h \in Hooks : HookMoves(h) /\ (hook[h].at = "register" => Register(h))
<1>1. ASSUME NEW h \in Hooks,
             \/ ClaudeReads(h) \/ HookStep(h) \/ SomeoneReturns(h)
             \/ \E held \in BOOLEAN : Arrive(h, held)
      PROVE  HookMoves(h) /\ (hook[h].at = "register" => Register(h))
  <2>1. HookMoves(h)
    BY <1>1, HookEffect
  <2>2. hook[h].at = "register" => Register(h)
    BY <1>1 DEF HookStep, ClaudeReads, SomeoneReturns, Arrive, WriteCard, Unregister, ReadBack, TurnOver,
                SeenEnded, StillOpen, Persist, Answered, Gone, SetHold, HoldRow, HookEnded
  <2> QED BY <2>1, <2>2
<1>2. UNCHANGED hook \/ \E h \in Hooks :
             \/ ClaudeReads(h) \/ HookStep(h) \/ SomeoneReturns(h)
             \/ \E held \in BOOLEAN : Arrive(h, held)
  BY Frames DEF HookActs, HookStep
<1> QED BY <1>1, <1>2

\* What a tap's step makes of it: it goes on as it is, or it ends and the phone is told.
Goes(t, a) ==
  /\ tap'[t].at = a /\ tap'[t].d = tap[t].d /\ tap'[t].resp = tap[t].resp
  /\ tap'[t].conf = tap[t].conf /\ tap'[t].sent = tap[t].sent /\ tap'[t].told = tap[t].told
Ends(t, r) ==
  /\ tap'[t].at = "done" /\ tap'[t].told = r /\ tap'[t].conf = "none" /\ tap'[t].sent = tap[t].sent
  /\ tap[t].sent => tap'[t].d = tap[t].d /\ tap'[t].resp = tap[t].resp

\* Where a tap's own step leaves it.
LEMMA TapResult ==
  ASSUME Types, NEW t \in Taps
  PROVE  /\ (\E d \in Decisions : TapBegin(t, d)) =>
              /\ tap[t].at = "idle" /\ tap'[t].at = "gate" /\ tap'[t].resp = tap[t].resp
              /\ tap'[t].conf = tap[t].conf /\ tap'[t].sent = tap[t].sent /\ tap'[t].told = tap[t].told
         /\ TapLedger(t) =>
              /\ tap[t].at = "gate" /\ gate = "none"
              /\ \/ ledger # NoOutcome /\ Ends(t, "duplicate") /\ gate' = "none"
                 \/ Ends(t, "refused") /\ gate' = "none"
                 \/ /\ ledger = NoOutcome /\ gate' = t
                    /\ Goes(t, IF claim = "none" THEN "entry" ELSE "settle")
         /\ TapEntry(t) =>
              /\ tap[t].at = "entry"
              /\ IF Carries THEN Goes(t, "claim") /\ gate' = gate ELSE Ends(t, "refused") /\ gate' = "none"
         /\ TapClaim(t) =>
              /\ tap[t].at = "claim"
              /\ (claim' = tap[t].d /\ Goes(t, "hand")) \/ (claim' = claim /\ Goes(t, "unclaim"))
         /\ TapHand(t) =>
              /\ tap[t].at = "hand"
              /\ tap'[t].at = IF Present /\ entry.resp # "none" THEN "send" ELSE "release"
              /\ tap'[t].resp = IF Present THEN entry.resp ELSE "none"
              /\ tap'[t].d = tap[t].d /\ tap'[t].conf = tap[t].conf
              /\ tap'[t].sent = tap[t].sent /\ tap'[t].told = tap[t].told
         /\ TapSend(t) =>
              /\ tap[t].at = "send"
              /\ IF chan[tap[t].resp] = "open"
                 THEN /\ tap'[t].at \in {"confirm", "record"} /\ tap'[t].sent
                      /\ tap'[t].at = (IF card.question THEN "confirm" ELSE "record")
                      /\ tap'[t].d = tap[t].d /\ tap'[t].resp = tap[t].resp
                      /\ tap'[t].conf = tap[t].conf /\ tap'[t].told = tap[t].told
                 ELSE Goes(t, "release")
         /\ TapConfirm(t) =>
              /\ tap[t].at = "confirm"
              /\ \/ tap[t].conf = tap[t].d /\ tap[t].conf \in Ran /\ Goes(t, "record")
                 \/ tap[t].conf # tap[t].d /\ tap[t].conf \in Ran /\ Goes(t, "release")
                 \/ tap[t].conf \notin Ran /\ Goes(t, "settle")
         /\ TapRelease(t) => tap[t].at = "release" /\ Goes(t, "unclaim")
         /\ TapUnclaim(t) => tap[t].at = "unclaim" /\ Ends(t, "refused") /\ gate' = "none"
         /\ TapSettled(t) => /\ tap[t].at = "settle" /\ gate' = "none"
                             /\ (ledger # NoOutcome /\ Ends(t, "duplicate")) \/ Ends(t, "unknown")
         /\ TapRecord(t) =>
              /\ tap[t].at = "record" /\ tap'[t].at = "remove" /\ tap'[t].told \in {"applied", "duplicate"}
              /\ tap'[t].d = tap[t].d /\ tap'[t].resp = tap[t].resp
              /\ tap'[t].conf = tap[t].conf /\ tap'[t].sent = tap[t].sent
         /\ TapRemove(t) => tap[t].at = "remove" /\ Goes(t, "clear")
         /\ TapClear(t) => tap[t].at = "clear" /\ Ends(t, tap[t].told) /\ gate' = "none"
<1> USE DEF Types
<1>0. tap[t] \in TapRec /\ TapType /\ tap \in [Taps -> TapRec]
  BY DEF TapType
<1>1. ASSUME NEW a \in TapStates, TapTo(t, a) PROVE Goes(t, a)
  BY <1>0, <1>1, TapAt DEF Goes
<1>2. ASSUME NEW r \in {"none", "applied", "duplicate", "refused", "unknown", "lost"}, Tell(t, r)
      PROVE  Ends(t, r) /\ gate' = "none"
  BY <1>0, <1>2, TapTold DEF Ends
<1>3. ASSUME NEW d \in Decisions, TapBegin(t, d)
      PROVE  /\ tap[t].at = "idle" /\ tap'[t].at = "gate" /\ tap'[t].resp = tap[t].resp
             /\ tap'[t].conf = tap[t].conf /\ tap'[t].sent = tap[t].sent /\ tap'[t].told = tap[t].told
  BY <1>0, <1>3 DEF TapBegin, TapRec
<1>4. TapLedger(t) =>
              /\ tap[t].at = "gate" /\ gate = "none"
              /\ \/ ledger # NoOutcome /\ Ends(t, "duplicate") /\ gate' = "none"
                 \/ Ends(t, "refused") /\ gate' = "none"
                 \/ /\ ledger = NoOutcome /\ gate' = t
                    /\ Goes(t, IF claim = "none" THEN "entry" ELSE "settle")
  BY <1>1, <1>2 DEF TapLedger, TapStates
<1>5. TapEntry(t) =>
              /\ tap[t].at = "entry"
              /\ IF Carries THEN Goes(t, "claim") /\ gate' = gate ELSE Ends(t, "refused") /\ gate' = "none"
  BY <1>1, <1>2 DEF TapEntry, TapStates
<1>6. TapClaim(t) =>
              /\ tap[t].at = "claim"
              /\ (claim' = tap[t].d /\ Goes(t, "hand")) \/ (claim' = claim /\ Goes(t, "unclaim"))
  BY <1>1 DEF TapClaim, TapStates
<1>7. ASSUME TapHand(t)
      PROVE   /\ tap[t].at = "hand"
              /\ tap'[t].at = IF Present /\ entry.resp # "none" THEN "send" ELSE "release"
              /\ tap'[t].resp = IF Present THEN entry.resp ELSE "none"
              /\ tap'[t].d = tap[t].d /\ tap'[t].conf = tap[t].conf
              /\ tap'[t].sent = tap[t].sent /\ tap'[t].told = tap[t].told
  <2> DEFINE a == IF Present /\ entry.resp # "none" THEN "send" ELSE "release"
             r == IF Present THEN entry.resp ELSE "none"
  <2>1. tap[t].at = "hand" /\ tap' = [tap EXCEPT ![t] = [tap[t] EXCEPT !.at = a, !.resp = r]]
    BY <1>0, <1>7 DEF TapHand, TapRec
  <2> HIDE DEF a, r
  <2>2. tap'[t] = [tap[t] EXCEPT !.at = a, !.resp = r]
    BY <1>0, <2>1
  <2>3. /\ tap'[t].at = a /\ tap'[t].resp = r /\ tap'[t].d = tap[t].d /\ tap'[t].conf = tap[t].conf
        /\ tap'[t].sent = tap[t].sent /\ tap'[t].told = tap[t].told
    BY <1>0, <2>2 DEF TapRec
  <2> QED BY <2>1, <2>3 DEF a, r
<1>8. ASSUME TapSend(t)
      PROVE   /\ tap[t].at = "send"
              /\ IF chan[tap[t].resp] = "open"
                 THEN /\ tap'[t].at \in {"confirm", "record"} /\ tap'[t].sent
                      /\ tap'[t].at = (IF card.question THEN "confirm" ELSE "record")
                      /\ tap'[t].d = tap[t].d /\ tap'[t].resp = tap[t].resp
                      /\ tap'[t].conf = tap[t].conf /\ tap'[t].told = tap[t].told
                 ELSE Goes(t, "release")
  <2>1. CASE chan[tap[t].resp] = "open"
    <3> DEFINE a == IF card.question THEN "confirm" ELSE "record"
    <3>1. tap[t].at = "send" /\ tap' = [tap EXCEPT ![t] = [tap[t] EXCEPT !.at = a, !.sent = TRUE]]
          /\ a \in {"confirm", "record"}
      BY <1>0, <1>8, <2>1 DEF TapSend, TapRec
    <3> HIDE DEF a
    <3>2. tap'[t] = [tap[t] EXCEPT !.at = a, !.sent = TRUE]
      BY <1>0, <3>1
    <3>3. /\ tap'[t].at = a /\ tap'[t].resp = tap[t].resp /\ tap'[t].d = tap[t].d /\ tap'[t].conf = tap[t].conf
          /\ tap'[t].sent /\ tap'[t].told = tap[t].told
      BY <1>0, <3>2 DEF TapRec
    <3> QED BY <2>1, <3>1, <3>3 DEF a
  <2>2. CASE chan[tap[t].resp] # "open"
    BY <1>1, <1>8, <2>2 DEF TapSend, TapStates
  <2> QED BY <2>1, <2>2
<1>9. ASSUME TapConfirm(t)
      PROVE   /\ tap[t].at = "confirm"
              /\ \/ tap[t].conf = tap[t].d /\ tap[t].conf \in Ran /\ Goes(t, "record")
                 \/ tap[t].conf # tap[t].d /\ tap[t].conf \in Ran /\ Goes(t, "release")
                 \/ tap[t].conf \notin Ran /\ Goes(t, "settle")
  <2>1. "record" \in TapStates /\ "release" \in TapStates /\ "settle" \in TapStates
    BY DEF TapStates
  <2>2. /\ tap[t].at = "confirm"
        /\ \/ tap[t].conf = tap[t].d /\ tap[t].conf \in Ran /\ TapTo(t, "record")
           \/ tap[t].conf # tap[t].d /\ tap[t].conf \in Ran /\ TapTo(t, "release")
           \/ tap[t].conf \notin Ran /\ TapTo(t, "settle")
    BY <1>9 DEF TapConfirm, Ran
  <2> QED BY <1>1, <2>1, <2>2
<1>10. /\ TapRelease(t) => tap[t].at = "release" /\ Goes(t, "unclaim")
       /\ TapUnclaim(t) => tap[t].at = "unclaim" /\ Ends(t, "refused") /\ gate' = "none"
       /\ TapRemove(t) => tap[t].at = "remove" /\ Goes(t, "clear")
  BY <1>1, <1>2 DEF TapRelease, TapUnclaim, TapRemove, TapStates
<1>11. TapSettled(t) => /\ tap[t].at = "settle" /\ gate' = "none"
                        /\ (ledger # NoOutcome /\ Ends(t, "duplicate")) \/ Ends(t, "unknown")
  BY <1>2 DEF TapSettled
<1>12. ASSUME TapRecord(t)
       PROVE  /\ tap[t].at = "record" /\ tap'[t].at = "remove" /\ tap'[t].told \in {"applied", "duplicate"}
              /\ tap'[t].d = tap[t].d /\ tap'[t].resp = tap[t].resp
              /\ tap'[t].conf = tap[t].conf /\ tap'[t].sent = tap[t].sent
  <2>1. PICK r \in {"applied", "duplicate"} : tap' = [tap EXCEPT ![t] = [tap[t] EXCEPT !.at = "remove", !.told = r]]
    BY <1>0, <1>12 DEF TapRecord, TapRec
  <2>2. tap'[t] = [tap[t] EXCEPT !.at = "remove", !.told = r]
    BY <1>0, <2>1
  <2> QED BY <1>0, <1>12, <2>2 DEF TapRecord, TapRec
<1>13. TapClear(t) => tap[t].at = "clear" /\ Ends(t, tap[t].told) /\ gate' = "none"
  BY <1>0, <1>2 DEF TapClear, TapRec
<1> QED BY <1>3, <1>4, <1>5, <1>6, <1>7, <1>8, <1>9, <1>10, <1>11, <1>12, <1>13

\* What sending does to the channels.
LEMMA SendEffect ==
  ASSUME Types, Sends, NEW t \in Taps, TapSend(t)
  PROVE  /\ UNCHANGED <<entry, hook, claim, ledger, call, took, keyed, gate, work, up, post, result>>
         /\ EntryType' /\ ChanType' /\ HookType'
         /\ tap[t].resp \in Hooks
         /\ \A h \in Hooks : h # tap[t].resp => chan'[h] = chan[h]
         /\ IF chan[tap[t].resp] = "open" THEN chan'[tap[t].resp] = tap[t].d ELSE chan' = chan
<1>1. UNCHANGED <<entry, hook, claim, ledger, call, took, keyed, gate, work, up, post, result>>
  BY DEF TapSend, claudeVars, newsVars, logVars, diskVars, runVars
<1>2. tap[t].resp \in Hooks /\ tap[t].d \in ChanStates /\ ChanType
  BY DEF TapSend, Sends, SentInv, Types, TapType, TapRec, ChanStates
<1>3. chan' = IF chan[tap[t].resp] = "open" THEN Put(chan, tap[t].resp, tap[t].d) ELSE chan
  BY DEF TapSend
<1>4. EntryType' /\ HookType'
  BY <1>1 DEF Types, EntryType, HookType
<1>5. CASE chan[tap[t].resp] = "open"
  BY <1>1, <1>2, <1>3, <1>4, <1>5, Puts DEF ChanType
<1>6. CASE chan[tap[t].resp] # "open"
  BY <1>1, <1>2, <1>3, <1>4, <1>6 DEF ChanType
<1> QED BY <1>5, <1>6

\* Types are kept.
LEMMA TypesStep ==
  ASSUME Types, Sends, WorkInv, [Next]_vars
  PROVE  Types'
<1>1. CASE Crash
  <2>1. HookType' /\ ChanType'
    BY <1>1, HookCrash
  <2>2. TapType'
    BY <1>1, TapCrash
  <2>3. EntryType'
    BY <1>1 DEF Crash, EntryType
  <2> QED BY <2>1, <2>2, <2>3, WorkEffect, ClaudeTypeStep, NewsTypeStep, DiskTypeStep, RunTypeStep, GateTypeStep
          DEF WorkMoves, Types
<1>2. CASE ~Crash
  <2>1. HookType'
    BY <1>2, HookTurn DEF HookMoves, Types, HookType
  <2>2. EntryType' /\ ChanType'
    BY <1>2, CardEffect, SendEffect DEF CardMoves
  <2>3. TapType'
    BY <1>2, TapEffect, TapTurnEffect
  <2> QED BY <2>1, <2>2, <2>3, WorkEffect, ClaudeTypeStep, NewsTypeStep, DiskTypeStep, RunTypeStep, GateTypeStep
          DEF WorkMoves, Types
<1> QED BY <1>1, <1>2

\* How the call went is never revised.
LEMMA CallStep ==
  ASSUME Types, [Next]_vars
  PROVE  call = "asking" \/ UNCHANGED <<call, took>>
<1>1. \A e \in Ran \cup {"rejected"} : MacAnswers(e) => call = "asking"
  BY DEF MacAnswers
<1>2. \A h \in Hooks : ClaudeEndsHook(h) => UNCHANGED <<call, took>>
  BY DEF ClaudeEndsHook
<1>3. \A h \in Hooks : ClaudeReads(h) => call = "asking" \/ UNCHANGED <<call, took>>
  BY DEF ClaudeReads
<1>4. \A c \in Closers : RunExits(c) => call = "asking" \/ UNCHANGED <<call, took>>
  BY DEF RunExits
<1>5. Crash => UNCHANGED <<call, took>>
  BY DEF Crash
<1> QED BY <1>1, <1>2, <1>3, <1>4, <1>5, Frames DEF ClaudeActs

\* A tap is as it was but for its conf, or it is its turn, or the daemon crashed.
LEMMA TapsTurn ==
  ASSUME Types, Sends, [Next]_vars
  PROVE  \/ Crash
         \/ ~Crash /\ \A t \in Taps : ~TapTurn(t) /\ TapKept(t)
         \/ ~Crash /\ \E t \in Taps : TapTurn(t) /\ \A u \in Taps : u # t => tap'[u] = tap[u]
BY TapEffect, TapTurnEffect

\* A result stays one.
LEMMA PostStep ==
  ASSUME Types, Sends, [Next]_vars
  PROVE  PostInv'
<1>1. (post' # "no" \/ result') => (post # "no" \/ result \/ call \in Ran)
  <2>1. ASSUME NewsActs PROVE post' # "no" => post # "no" \/ call \in Ran
    <3>1. PostBegin => call \in Ran
      BY DEF PostBegin
    <3>2. PostFile => post # "no" \/ call \in Ran
      BY DEF PostFile
    <3>3. PostNote => post # "no"
      BY DEF PostNote
    <3>4. PostLost => call \in Ran
      BY DEF PostLost
    <3>5. Crash => (post' # "no" => post # "no")
      BY DEF Crash
    <3>6. \A c \in Closers : TailRead(c) \/ StopHook(c) \/ RunExits(c) => post' = post
      BY DEF TailRead, StopHook, RunExits
    <3> QED BY <2>1, <3>1, <3>2, <3>3, <3>4, <3>5, <3>6 DEF NewsActs
  <2>2. ASSUME LogActs PROVE result' => result \/ post # "no" \/ call \in Ran
    <3>1. PostFile => post # "no" \/ call \in Ran
      BY DEF PostFile
    <3>2. Restore \/ (\E w \in Workers : Announce(w)) \/ (\E t \in Taps : TapClear(t)) => result' = result
      BY DEF Restore, Announce, TapClear, logVars
    <3>3. (\E h \in Hooks : WriteCard(h) \/ Persist(h) \/ HoldRow(h)) => result' = result
      BY DEF WriteCard, Persist, HoldRow, logVars
    <3> QED BY <2>2, <3>1, <3>2, <3>3 DEF LogActs
  <2> QED BY <2>1, <2>2, Frames
<1>2. call \in Ran => call' \in Ran
  BY CallStep DEF Ran
<1> QED BY <1>1, <1>2 DEF Sends, PostInv

\* A tap's place goes on telling whether its decision was sent.
LEMMA SentStep ==
  ASSUME Types, Sends, [Next]_vars
  PROVE  SentInv'
<1> SUFFICES ASSUME NEW t \in Taps
    PROVE  /\ tap'[t].sent => tap'[t].resp \in Hooks /\ tap'[t].at \in
                {"confirm", "record", "release", "unclaim", "settle", "remove", "clear", "done"}
           /\ tap'[t].at \in {"confirm", "record", "remove", "clear"} => tap'[t].sent
           /\ tap'[t].at = "send" => tap'[t].resp \in Hooks
           /\ tap'[t].told # "none" => tap'[t].at \in {"remove", "clear", "done"}
           /\ tap'[t].told = "refused" => tap'[t].at = "done"
           /\ tap'[t].conf \in Ran => tap'[t].conf = call'
  BY DEF SentInv
<1>1. /\ tap[t].sent => tap[t].resp \in Hooks /\ tap[t].at \in
                {"confirm", "record", "release", "unclaim", "settle", "remove", "clear", "done"}
      /\ tap[t].at \in {"confirm", "record", "remove", "clear"} => tap[t].sent
      /\ tap[t].at = "send" => tap[t].resp \in Hooks
      /\ tap[t].told # "none" => tap[t].at \in {"remove", "clear", "done"}
      /\ tap[t].told = "refused" => tap[t].at = "done"
      /\ tap[t].conf \in Ran => tap[t].conf = call
  BY DEF Sends, SentInv
<1>2. call \in Ran => call' = call
  BY CallStep DEF Ran
<1>3. CASE Crash
  BY <1>1, <1>2, <1>3, TapCrash DEF Types
<1>4. CASE TapKept(t)
  BY <1>1, <1>2, <1>4 DEF TapKept, Ran
<1>5. CASE tap'[t] = tap[t]
  BY <1>1, <1>2, <1>5
<1>6. CASE TapTurn(t)
  <2>1. Present => entry.resp \in Hooks \cup {"none"}
    BY EntryShape DEF Types, Entries
  <2>2. CASE TapHand(t)
    BY <1>1, <1>2, <2>1, <2>2, TapResult
  <2>3. CASE TapSend(t)
    BY <1>1, <1>2, <2>3, TapResult DEF Goes
  <2>4. CASE TapClear(t) \/ TapSettled(t) \/ TapUnclaim(t)
    BY <1>1, <1>2, <2>4, TapResult DEF Ends, Ran
  <2>5. CASE TapEntry(t) \/ TapLedger(t)
    BY <1>1, <1>2, <2>5, TapResult DEF Ends, Goes, Ran
  <2>6. CASE TapConfirm(t) \/ TapRelease(t) \/ TapClaim(t) \/ TapRemove(t)
    BY <1>1, <1>2, <2>6, TapResult DEF Goes
  <2>7. CASE TapRecord(t)
    BY <1>1, <1>2, <2>7, TapResult
  <2>8. CASE \E d \in Decisions : TapBegin(t, d)
    BY <1>1, <1>2, <2>8, TapResult
  <2> QED BY <1>6, <2>2, <2>3, <2>4, <2>5, <2>6, <2>7, <2>8 DEF TapTurn, TapStep
<1> QED BY <1>3, <1>4, <1>5, <1>6, TapsTurn

\* A decision sent before the step is still on record; a step that is not a sending sends none.
LEMMA SentKept ==
  ASSUME Types, Sends, [Next]_vars
  PROVE  /\ \A t \in Taps : tap[t].sent => tap'[t].sent /\ tap'[t].d = tap[t].d /\ tap'[t].resp = tap[t].resp
         /\ \A t \in Taps : tap'[t].sent => tap[t].sent \/ (TapSend(t) /\ chan[tap[t].resp] = "open")
         /\ \A t \in Taps : tap'[t].at = "send" =>
              \/ tap[t].at = "send" /\ tap'[t].resp = tap[t].resp
              \/ TapHand(t) /\ Present /\ entry.resp = tap'[t].resp
<1> SUFFICES ASSUME NEW t \in Taps
    PROVE  /\ tap[t].sent => tap'[t].sent /\ tap'[t].d = tap[t].d /\ tap'[t].resp = tap[t].resp
           /\ tap'[t].sent => tap[t].sent \/ (TapSend(t) /\ chan[tap[t].resp] = "open")
           /\ tap'[t].at = "send" => \/ tap[t].at = "send" /\ tap'[t].resp = tap[t].resp
                                     \/ TapHand(t) /\ Present /\ entry.resp = tap'[t].resp
  OBVIOUS
<1>1. tap[t].sent => tap[t].at \in {"confirm", "record", "release", "unclaim", "settle", "remove", "clear", "done"}
  BY DEF Sends, SentInv
<1>3. CASE Crash
  BY <1>1, <1>3, TapCrash DEF Types
<1>4. CASE TapKept(t)
  BY <1>1, <1>4 DEF TapKept
<1>5. CASE tap'[t] = tap[t]
  BY <1>1, <1>5
<1>6. CASE TapTurn(t)
  <2>2. CASE TapHand(t)
    BY <1>1, <2>2, TapResult
  <2>3. CASE TapSend(t)
    BY <1>1, <2>3, TapResult DEF Goes
  <2>4. CASE TapClear(t) \/ TapSettled(t) \/ TapUnclaim(t)
    BY <1>1, <2>4, TapResult DEF Ends
  <2>5. CASE TapEntry(t) \/ TapLedger(t)
    BY <1>1, <2>5, TapResult DEF Ends, Goes
  <2>6. CASE TapConfirm(t) \/ TapRelease(t) \/ TapClaim(t) \/ TapRemove(t)
    BY <1>1, <2>6, TapResult DEF Goes
  <2>7. CASE TapRecord(t)
    BY <1>1, <2>7, TapResult
  <2>8. CASE \E d \in Decisions : TapBegin(t, d)
    BY <1>1, <2>8, TapResult
  <2> QED BY <1>6, <2>2, <2>3, <2>4, <2>5, <2>6, <2>7, <2>8 DEF TapTurn, TapStep
<1> QED BY <1>3, <1>4, <1>5, <1>6, TapsTurn

\* A hook that has registered never goes back.
LEMMA HookAhead ==
  ASSUME Types, Sends, [Next]_vars
  PROVE  \A h \in Hooks : hook[h].at \notin {"idle", "register"} => hook'[h].at \notin {"idle", "register"}
<1>1. CASE Crash
  BY <1>1, HookCrash
<1>2. CASE ~Crash
  BY <1>2, HookTurn DEF HookMoves
<1> QED BY <1>1, <1>2

\* What was sent stays in its channel, and in no other tap's name ...
LEMMA TapChanStep ==
  ASSUME Types, Sends, [Next]_vars
  PROVE  TapChan'
<1>1. ASSUME NEW t \in Taps, tap'[t].sent
      PROVE  chan'[tap'[t].resp] \in {tap'[t].d, "dead"} /\ hook'[tap'[t].resp].at \notin {"idle", "register"}
  <2>1. CASE tap[t].sent
    <3>1. PICK h \in Hooks : h = tap[t].resp
      BY <2>1 DEF Sends, SentInv
    <3>2. chan[h] \in {tap[t].d, "dead"} /\ hook[h].at \notin {"idle", "register"}
          /\ tap'[t].resp = h /\ tap'[t].d = tap[t].d
      BY <2>1, <3>1, SentKept DEF Sends, TapChan
    <3>3. chan[h] # "open"
      BY <3>2 DEF Types, TapType, TapRec, Decisions
    <3>4. chan'[h] \in {chan[h], "dead"}
      <4>1. CASE Crash
        BY <4>1, HookCrash
      <4>2. CASE ~Crash /\ \A u \in Taps : ~TapSend(u)
        BY <3>2, <3>3, <4>2, CardEffect DEF CardMoves, ChanMoves
      <4>3. ASSUME NEW u \in Taps, TapSend(u) PROVE chan'[h] = chan[h]
        BY <3>3, <4>3, SendEffect
      <4> QED BY <4>1, <4>2, <4>3
    <3> QED BY <3>2, <3>4, HookAhead
  <2>2. CASE TapSend(t) /\ chan[tap[t].resp] = "open"
    <3>1. tap[t].at = "send" /\ tap'[t].resp = tap[t].resp /\ tap'[t].d = tap[t].d
      BY <2>2, TapResult
    <3>2. tap[t].resp \in Hooks /\ chan'[tap[t].resp] = tap[t].d /\ hook' = hook
      BY <2>2, SendEffect
    <3> QED BY <3>1, <3>2 DEF Sends, TapChan
  <2> QED BY <1>1, <2>1, <2>2, SentKept
<1>2. ASSUME NEW t \in Taps, tap'[t].at = "send" PROVE hook'[tap'[t].resp].at \notin {"idle", "register"}
  <2>1. CASE tap[t].at = "send" /\ tap'[t].resp = tap[t].resp
    BY <2>1, HookAhead DEF Sends, TapChan, SentInv
  <2>2. CASE TapHand(t) /\ Present /\ entry.resp = tap'[t].resp
    <3>1. tap'[t].resp \in Hooks
      BY <1>2, SentStep DEF SentInv
    <3> QED BY <2>2, <3>1, HookAhead DEF Sends, HookChan
  <2> QED BY <1>2, <2>1, <2>2, SentKept
<1>3. ASSUME NEW t \in Taps, NEW u \in Taps, tap'[t].sent, tap'[u].sent, tap'[t].resp = tap'[u].resp, t # u
      PROVE  FALSE
  <2>1. ASSUME NEW v \in Taps, NEW w \in Taps, v # w, TapSend(v), chan[tap[v].resp] = "open", tap[w].sent,
               tap'[v].resp = tap'[w].resp
        PROVE  FALSE
    <3>1. tap'[v].resp = tap[v].resp
      BY <2>1, TapResult
    <3>2. tap'[w].resp = tap[w].resp
      BY <2>1, SentKept
    <3>3. chan[tap[w].resp] \in {tap[w].d, "dead"} /\ tap[w].d \in Decisions
      BY <2>1 DEF Sends, TapChan, Types, TapType, TapRec
    <3> QED BY <2>1, <3>1, <3>2, <3>3 DEF Decisions
  <2>2. ASSUME TapSend(t), chan[tap[t].resp] = "open", TapSend(u), chan[tap[u].resp] = "open"
        PROVE  FALSE
    <3>1. tap'[u].sent = tap[u].sent
      BY <1>3, <2>2, TapTurnEffect DEF TapTurn, TapStep
    <3>2. tap[u].at = "send"
      BY <2>2, TapResult
    <3> QED BY <1>3, <3>1, <3>2 DEF Sends, SentInv
  <2>3. CASE tap[t].sent /\ tap[u].sent
    BY <1>3, <2>3, SentKept DEF Sends, TapChan
  <2> QED BY <1>3, <2>1, <2>2, <2>3, SentKept
<1> QED BY <1>1, <1>2, <1>3 DEF TapChan

\* ... and what is in a channel or a reply was sent.
LEMMA HookChanStep ==
  ASSUME Types, Sends, [Next]_vars
  PROVE  HookChan'
<1> SUFFICES ASSUME NEW h \in Hooks
    PROVE  /\ chan'[h] \in Decisions => \E t \in Taps : tap'[t].sent /\ tap'[t].resp = h
           /\ hook'[h].reply \in Decisions =>
                /\ hook'[h].at = "returned"
                /\ \E t \in Taps : tap'[t].sent /\ tap'[t].resp = h /\ tap'[t].d = hook'[h].reply
           /\ hook'[h].at \in Listening => chan'[h] # "dead"
           /\ Present' /\ entry'.resp = h => hook'[h].at \notin {"idle", "register"}
  BY DEF HookChan
<1>0. /\ chan[h] \in Decisions => \E t \in Taps : tap[t].sent /\ tap[t].resp = h
      /\ hook[h].reply \in Decisions =>
           /\ hook[h].at = "returned"
           /\ \E t \in Taps : tap[t].sent /\ tap[t].resp = h /\ tap[t].d = hook[h].reply
      /\ hook[h].at \in Listening => chan[h] # "dead"
      /\ Present /\ entry.resp = h => hook[h].at \notin {"idle", "register"}
  BY DEF Sends, HookChan
<1>1. CASE Crash
  <2>1. chan'[h] = "dead" /\ hook'[h].at \in {"idle", "over"}
    BY <1>1, HookCrash
  <2>2. hook'[h].reply \notin Decisions
    BY <1>0, <1>1, HookCrash DEF Decisions
  <2>3. ~Present'
    BY <1>1 DEF Crash, Present
  <2> QED BY <2>1, <2>2, <2>3 DEF Decisions, Listening
<1>2. CASE ~Crash
  <2>1. chan'[h] \in Decisions => \E t \in Taps : tap'[t].sent /\ tap'[t].resp = h
    <3>1. CASE chan'[h] = chan[h]
      BY <1>0, <3>1, SentKept
    <3>2. CASE chan'[h] # chan[h] /\ \A t \in Taps : ~TapSend(t)
      BY <1>2, <3>2, CardEffect DEF CardMoves, ChanMoves, Decisions
    <3>3. ASSUME NEW t \in Taps, TapSend(t), chan'[h] # chan[h] PROVE tap'[t].sent /\ tap'[t].resp = h
      BY <3>3, SendEffect, TapResult
    <3> QED BY <3>1, <3>2, <3>3
  <2>2. hook'[h].reply \in Decisions =>
           /\ hook'[h].at = "returned"
           /\ \E t \in Taps : tap'[t].sent /\ tap'[t].resp = h /\ tap'[t].d = hook'[h].reply
    <3>1. CASE hook'[h] = hook[h]
      BY <1>0, <3>1, SentKept
    <3>2. ASSUME HookMoves(h), hook'[h].reply \in Decisions
          PROVE  /\ hook'[h].at = "returned"
                 /\ \E t \in Taps : tap'[t].sent /\ tap'[t].resp = h /\ tap'[t].d = hook'[h].reply
      <4>1. hook'[h].at = "returned" /\ hook'[h].reply = chan[h]
        BY <3>2 DEF HookMoves
      <4>2. PICK t \in Taps : tap[t].sent /\ tap[t].resp = h
        BY <1>0, <3>2, <4>1
      <4>3. chan[h] \in {tap[t].d, "dead"}
        BY <4>2 DEF Sends, TapChan
      <4>4. tap[t].d = chan[h]
        BY <3>2, <4>1, <4>3 DEF Decisions
      <4> QED BY <4>1, <4>2, <4>4, SentKept
    <3> QED BY <1>2, <3>1, <3>2, HookTurn DEF HookMoves
  <2>3. hook'[h].at \in Listening => chan'[h] # "dead"
    <3>1. CASE Register(h)
      <4>1. chan'[h] \in {"open", "none"}
        BY <3>1 DEF Register, Types, ChanType
      <4> QED BY <4>1
    <3>2. CASE ~Register(h)
      <4>1. hook'[h].at \in Listening => hook[h].at \in Listening
        BY <1>2, <3>2, HookTurn DEF HookMoves
      <4>2. ASSUME \A t \in Taps : ~TapSend(t), hook'[h].at \in Listening PROVE chan'[h] # "dead"
        BY <1>0, <1>2, <4>1, <4>2, CardEffect DEF CardMoves, ChanMoves
      <4>3. ASSUME NEW t \in Taps, TapSend(t), hook'[h].at \in Listening PROVE chan'[h] # "dead"
        <5>1. tap[t].d # "dead"
          BY DEF Types, TapType, TapRec, Decisions
        <5> QED BY <1>0, <4>1, <4>3, <5>1, SendEffect
      <4> QED BY <4>2, <4>3
    <3> QED BY <3>1, <3>2
  <2>4. Present' /\ entry'.resp = h => hook'[h].at \notin {"idle", "register"}
    <3>1. ASSUME \A t \in Taps : ~TapSend(t), Present', entry'.resp = h
          PROVE  hook'[h].at \notin {"idle", "register"}
      BY <1>0, <1>2, <3>1, CardEffect, HookAhead DEF CardMoves
    <3>2. ASSUME NEW t \in Taps, TapSend(t), Present', entry'.resp = h
          PROVE  hook'[h].at \notin {"idle", "register"}
      BY <1>0, <3>2, SendEffect DEF Present
    <3> QED BY <3>1, <3>2
  <2> QED BY <2>1, <2>2, <2>3, <2>4
<1> QED BY <1>1, <1>2

\* ... together.
LEMMA SendsStep ==
  ASSUME Types, Sends, [Next]_vars
  PROVE  Sends'
BY PostStep, SentStep, TapChanStep, HookChanStep DEF Sends

\* Only a crash takes the call's join away.
LEMMA JoinedStep ==
  ASSUME Types, [Next]_vars, ~Crash
  PROVE  keyed'.joined = keyed.joined
<1>0. keyed \in [joined : BOOLEAN, ended : BOOLEAN, rejected : BOOLEAN]
  BY DEF Types, NewsType
<1>1. EndCall => keyed'.joined = keyed.joined
  BY <1>0 DEF EndCall
<1>2. \A w \in Workers : CallEnded(w) => keyed'.joined = keyed.joined
  BY <1>0 DEF CallEnded
<1>3. PostNote => EndCall
  BY DEF PostNote
<1>4. \A w \in Workers : Take(w) => EndCall \/ UNCHANGED keyed
  BY DEF Take
<1>5. \A h \in Hooks : ReadBack(h) => EndCall \/ UNCHANGED keyed
  BY DEF ReadBack
<1>6. \A t \in Taps : TapRemove(t) => EndCall
  BY DEF TapRemove
<1> QED BY <1>1, <1>2, <1>3, <1>4, <1>5, <1>6, Frames DEF KeyedActs

\* ... which it does.
LEMMA CrashUnjoins ==
  ASSUME Crash
  PROVE  ~keyed'.joined
<1>1. keyed' = [joined |-> FALSE, ended |-> FALSE, rejected |-> FALSE]
  BY DEF Crash
<1> QED BY <1>1

\* A card comes into the map when a hook registers, or when the daemon comes back.
LEMMA EntryAppears ==
  ASSUME Types, Sends, [Next]_vars, ~Present, Present'
  PROVE  Restore \/ \E h \in Hooks : Register(h)
<1>1. PostBegin \/ PostNote => UNCHANGED entry
  BY DEF PostBegin, PostNote, Note
<1>2. Crash => ~Present'
  BY DEF Crash, Present
<1>3. \A w \in Workers : CallEnded(w) \/ Take(w) => UNCHANGED entry
  BY DEF CallEnded, Take
<1>4. \A c \in Closers : StopHook(c) \/ CloseCard(c) \/ (\E back \in BOOLEAN : SweepScreen(c, back)) => UNCHANGED entry
  BY DEF StopHook, Moved, CloseCard, SweepScreen
<1>5. \A h \in Hooks : Unregister(h) => ~Present'
  BY DEF Unregister, Present
<1>6. \A h \in Hooks : ReadBack(h) \/ TurnOver(h) \/ SomeoneReturns(h) \/ SetHold(h) => UNCHANGED entry
  BY DEF ReadBack, Note, TurnOver, Moved, SomeoneReturns, SetHold
<1>7. \A t \in Taps : TapEntry(t) \/ TapHand(t) \/ TapUnclaim(t) => UNCHANGED entry
  BY DEF TapEntry, TapHand, TapUnclaim, Carries
<1>8. \A t \in Taps : TapSettled(t) \/ TapRemove(t) => ~Present'
  BY DEF TapSettled, TapRemove, Remove, Present
<1>9. UNCHANGED entry => ~Present'
  BY DEF Present
<1> QED BY <1>1, <1>2, <1>3, <1>4, <1>5, <1>6, <1>7, <1>8, <1>9, Frames DEF EntryActs

\* A hook that is idle or over moves only when it arrives.
LEMMA HookStarts ==
  ASSUME Types, [Next]_vars, ~Crash, \A h \in Hooks : hook[h].at \in {"idle", "over"}, hook' # hook
  PROVE  \E h \in Hooks, held \in BOOLEAN : Arrive(h, held)
<1>1. \A h \in Hooks : ~ClaudeReads(h) /\ ~Register(h) /\ ~WriteCard(h) /\ ~Unregister(h) /\ ~ReadBack(h)
  BY DEF ClaudeReads, Register, WriteCard, Unregister, ReadBack
<1>2. \A h \in Hooks : ~TurnOver(h) /\ ~SeenEnded(h) /\ ~StillOpen(h) /\ ~Persist(h) /\ ~Answered(h) /\ ~Gone(h)
  BY DEF TurnOver, SeenEnded, StillOpen, Persist, Answered, Gone
<1>3. \A h \in Hooks : ~SomeoneReturns(h) /\ ~SetHold(h) /\ ~HoldRow(h) /\ \A current \in BOOLEAN : ~HookEnded(h, current)
  BY DEF SomeoneReturns, SetHold, HoldRow, HookEnded
<1> QED BY <1>1, <1>2, <1>3, Frames DEF HookActs

\* One tap at a time is behind the gate.
LEMMA GateStep ==
  ASSUME Types, Sends, Tasks, [Next]_vars
  PROVE  GateInv'
<1> SUFFICES ASSUME NEW t \in Taps, tap'[t].at \in GateAt PROVE gate' = t
  BY DEF GateInv
<1>0. /\ tap[t].at \in GateAt => gate = t
      /\ t # "none"
  BY Names DEF Tasks, GateInv
<1>1. ~Crash
  BY TapCrash DEF GateAt
<1>2. CASE TapTurn(t)
  <2>1. CASE TapLedger(t) \/ TapEntry(t) \/ TapUnclaim(t) \/ TapSettled(t) \/ TapClear(t)
    BY <1>0, <2>1, TapResult DEF Goes, Ends, GateAt
  <2>2. CASE TapClaim(t) \/ TapHand(t) \/ TapSend(t) \/ TapConfirm(t) \/ TapRelease(t) \/ TapRecord(t) \/ TapRemove(t)
    <3>1. gate' = gate
      BY <2>2 DEF TapClaim, TapHand, TapSend, TapConfirm, TapRelease, TapRecord, TapRemove
    <3>2. tap[t].at \in GateAt
      BY <2>2, TapResult DEF GateAt
    <3> QED BY <1>0, <3>1, <3>2
  <2>3. CASE \E d \in Decisions : TapBegin(t, d)
    BY <2>3, TapResult DEF GateAt
  <2> QED BY <1>2, <2>1, <2>2, <2>3 DEF TapTurn, TapStep
<1>3. ASSUME NEW u \in Taps, TapTurn(u), u # t, tap'[t] = tap[t] PROVE gate' = t
  <2>1. gate = t /\ tap[u].at \notin GateAt
    BY <1>0, <1>3 DEF Tasks, GateInv
  <2>2. ~TapLedger(u)
    BY <1>0, <2>1 DEF TapLedger
  <2>3. ~TapEntry(u) /\ ~TapUnclaim(u) /\ ~TapSettled(u) /\ ~TapClear(u)
    BY <2>1 DEF TapEntry, TapUnclaim, TapSettled, TapClear, GateAt
  <2>4. ~TapClaim(u) /\ ~TapHand(u) /\ ~TapSend(u) /\ ~TapConfirm(u) /\ ~TapRelease(u) /\ ~TapRecord(u) /\ ~TapRemove(u)
    BY <2>1 DEF TapClaim, TapHand, TapSend, TapConfirm, TapRelease, TapRecord, TapRemove, GateAt
  <2>5. \E d \in Decisions : TapBegin(u, d)
    BY <1>3, <2>2, <2>3, <2>4 DEF TapTurn, TapStep
  <2>6. gate' = gate
    BY <2>5 DEF TapBegin
  <2> QED BY <2>1, <2>6
<1>4. ASSUME \A u \in Taps : ~TapTurn(u) /\ TapKept(u) PROVE gate' = t
  <2>1. gate = t
    BY <1>0, <1>4 DEF TapKept
  <2>2. ASSUME NEW c \in Closers, CloseCard(c) PROVE gate' = t
    BY <1>0, <2>1, <2>2, Names DEF CloseCard
  <2>3. ASSUME NEW w \in Workers, Take(w) PROVE gate' = t
    <3>1. work[w].at = "take"
      BY <2>3 DEF Take
    <3>2. w # t
      BY <3>1 DEF Tasks, WorkInv, Idle
    <3> QED BY <2>1, <2>3, <3>2 DEF Take
  <2>4. ASSUME NEW w \in Workers, Announce(w) PROVE gate' = t
    BY <2>1, <2>4, Names DEF Announce
  <2>5. \A u \in Taps : ~TapLedger(u) /\ ~TapEntry(u) /\ ~TapUnclaim(u) /\ ~TapSettled(u) /\ ~TapClear(u)
    BY <1>4 DEF TapTurn, TapStep
  <2> QED BY <1>1, <2>1, <2>2, <2>3, <2>4, <2>5, Frames DEF GateActs
<1> QED BY <1>1, <1>2, <1>3, <1>4, TapsTurn

\* The tasks write only their own kind of outcome.
LEMMA WorkStep ==
  ASSUME Types, Sends, Tasks, [Next]_vars
  PROVE  WorkInv'
<1>0. /\ WorkMoves /\ WorkInv
      /\ Hooks \subseteq Workers /\ Closers \subseteq Workers /\ Taps \subseteq Workers /\ Recovery \in Workers
  BY WorkEffect DEF Tasks, Workers
<1>1. CASE Crash
  <2>1. \A w \in Workers : work'[w] = Idle
    BY <1>1 DEF Crash
  <2> QED BY <1>0, <2>1 DEF WorkInv
<1>2. CASE ~Crash
  <2>1. ASSUME NEW t \in Taps, work'[t] # Idle
        PROVE  work'[t].at \in {"record", "announce"} /\ work'[t].o.by = "phone" /\ tap'[t].at = "settle"
    <3>1. CASE work'[t] = work[t]
      <4>1. work[t] # Idle /\ tap[t].at = "settle"
        BY <1>0, <2>1, <3>1 DEF WorkInv
      <4>2. ~TapTurn(t)
        BY <4>1 DEF TapTurn, TapStep, TapBegin, TapLedger, TapEntry, TapClaim, TapHand, TapSend, TapConfirm,
                    TapRelease, TapUnclaim, TapSettled, TapRecord, TapRemove, TapClear
      <4>3. tap'[t].at = "settle"
        BY <1>2, <4>1, <4>2, TapsTurn DEF TapKept
      <4> QED BY <1>0, <2>1, <3>1, <4>3 DEF WorkInv
    <3>2. CASE work'[t] # work[t]
      <4>1. t \in Workers /\ t \notin Hooks /\ t \notin Closers /\ t # Recovery
        BY <1>0, Names
      <4>2. /\ work'[t].at \in {"record", "announce"} /\ work'[t].o.by = "phone"
            /\ \/ work[t] # Idle /\ UNCHANGED tap
               \/ tap'[t].at = "settle"
        BY <1>0, <2>1, <3>2, <4>1 DEF WorkMoves
      <4> QED BY <1>0, <4>2 DEF WorkInv
    <3> QED BY <3>1, <3>2
  <2>2. ASSUME work'[Recovery] # Idle
        PROVE  /\ work'[Recovery].at \in {"record", "announce"} /\ work'[Recovery].o.by = "phone"
               /\ up' = "restoring"
    <3>1. CASE work'[Recovery] = work[Recovery]
      <4>1. work[Recovery] # Idle /\ up = "restoring"
        BY <1>0, <2>2, <3>1 DEF WorkInv
      <4>2. up' = up
        BY <1>2, <4>1, Frames DEF UpActs, RecoverClaim, Restore
      <4> QED BY <1>0, <2>2, <3>1, <4>1, <4>2 DEF WorkInv
    <3>2. CASE work'[Recovery] # work[Recovery]
      <4>1. Recovery \notin Hooks /\ Recovery \notin Closers /\ Recovery \notin Taps
        BY Names
      <4> QED BY <1>0, <2>2, <3>2, <4>1 DEF WorkMoves, WorkInv
    <3> QED BY <3>1, <3>2
  <2>3. ASSUME NEW w \in Hooks \cup Closers, work'[w] # Idle PROVE work'[w].o.by = "mac"
    <3>1. w \in Workers /\ w \notin Taps /\ w # Recovery
      BY <1>0, Names
    <3> QED BY <1>0, <2>3, <3>1 DEF WorkMoves, WorkInv
  <2>4. ASSUME NEW h \in Hooks, hook'[h].at \in {"idle", "register"} PROVE work'[h] = Idle
    <3>1. hook[h].at \in {"idle", "register"}
      BY <2>4, HookAhead
    <3>2. h \in Workers /\ h \notin Taps /\ h # Recovery /\ h \notin Closers /\ work[h] = Idle
      BY <1>0, <3>1, Names DEF WorkInv
    <3> QED BY <1>0, <2>4, <3>2 DEF WorkMoves
  <2> QED BY <2>1, <2>2, <2>3, <2>4 DEF WorkInv
<1> QED BY <1>1, <1>2

\* After a crash no hook is held again.
LEMMA JoinStep ==
  ASSUME Types, Sends, Tasks, [Next]_vars
  PROVE  JoinInv'
<1>1. CASE Crash
  <2>1. ~Present'
    BY <1>1 DEF Crash, Present
  <2> QED BY <1>1, <2>1, HookCrash, TapCrash DEF JoinInv
<1>2. CASE ~Crash
  <2> SUFFICES ASSUME ~keyed.joined
      PROVE  /\ \A h \in Hooks : hook'[h].at \in {"idle", "over"}
             /\ Present' => entry'.resp = "none"
             /\ \A t \in Taps : tap'[t].at \in {"idle", "gate", "entry", "settle", "done"}
    BY <1>2, JoinedStep DEF JoinInv
  <2>0. /\ \A h \in Hooks : hook[h].at \in {"idle", "over"}
        /\ Present => entry.resp = "none"
        /\ \A t \in Taps : tap[t].at \in {"idle", "gate", "entry", "settle", "done"}
    BY DEF Tasks, JoinInv
  <2>1. hook' = hook
    BY <1>2, <2>0, HookStarts DEF Arrive
  <2>2. \A t \in Taps : ~TapSend(t)
    BY <2>0 DEF TapSend
  <2>3. Present' => entry'.resp = "none"
    <3>1. CardMoves
      BY <1>2, <2>2, CardEffect
    <3>2. Present' => entry'.resp \in Hooks \cup {"none"}
      BY <3>1 DEF CardMoves, EntryType, Present, Entries
    <3> QED BY <2>0, <2>1, <3>1, <3>2, Names DEF CardMoves
  <2>4. ASSUME NEW t \in Taps PROVE tap'[t].at \in {"idle", "gate", "entry", "settle", "done"}
    <3>1. CASE TapTurn(t)
      <4>1. ~TapClaim(t) /\ ~TapHand(t) /\ ~TapSend(t) /\ ~TapConfirm(t) /\ ~TapRelease(t) /\ ~TapUnclaim(t)
            /\ ~TapRecord(t) /\ ~TapRemove(t) /\ ~TapClear(t)
        BY <2>0 DEF TapClaim, TapHand, TapSend, TapConfirm, TapRelease, TapUnclaim, TapRecord, TapRemove, TapClear
      <4>2. ~Carries
        BY <2>0 DEF Carries
      <4>3. TapEntry(t) \/ TapSettled(t) => tap'[t].at = "done"
        BY <4>2, TapResult DEF Ends
      <4>4. TapLedger(t) => tap'[t].at \in {"done", "entry", "settle"}
        BY TapResult DEF Ends, Goes
      <4>5. (\E d \in Decisions : TapBegin(t, d)) => tap'[t].at = "gate"
        BY TapResult
      <4> QED BY <3>1, <4>1, <4>3, <4>4, <4>5 DEF TapTurn, TapStep
    <3>2. CASE ~TapTurn(t)
      BY <1>2, <2>0, <3>2, TapsTurn DEF TapKept
    <3> QED BY <3>1, <3>2
  <2> QED BY <2>0, <2>1, <2>3, <2>4
<1> QED BY <1>1, <1>2

\* A daemon that is down does nothing but recover.
LEMMA DownStep ==
  ASSUME Types, Sends, Tasks, [Next]_vars
  PROVE  DownInv'
<1> SUFFICES ASSUME up' # "up"
    PROVE  /\ ~keyed'.joined /\ ~Present'
           /\ \A t \in Taps : tap'[t].at \in {"idle", "done"}
           /\ \A w \in Workers \ {Recovery} : work'[w] = Idle
           /\ up' = "down" => work'[Recovery] = Idle
  BY DEF DownInv
<1>1. CASE Crash
  <2>1. ~keyed'.joined /\ ~Present' /\ \A w \in Workers : work'[w] = Idle
    BY <1>1 DEF Crash, Present
  <2>2. \A t \in Taps : tap'[t].at \in {"idle", "done"}
    BY <1>1, TapCrash
  <2> QED BY <2>1, <2>2 DEF Workers
<1>2. CASE ~Crash
  <2>0. ~Restore
    BY DEF Restore
  <2>1. up # "up"
    BY <1>2, <2>0, Frames DEF UpActs, RecoverClaim
  <2>2. /\ ~keyed.joined /\ ~Present
        /\ \A t \in Taps : tap[t].at \in {"idle", "done"}
        /\ \A w \in Workers \ {Recovery} : work[w] = Idle
        /\ up = "down" => work[Recovery] = Idle
        /\ \A h \in Hooks : hook[h].at \in {"idle", "over"}
    BY <2>1 DEF Tasks, DownInv, JoinInv
  <2>3. ~keyed'.joined
    BY <1>2, <2>2, JoinedStep
  <2>4. ~Present'
    <3>1. \A h \in Hooks : ~Register(h)
      BY <2>2 DEF Register
    <3> QED BY <2>0, <2>2, <3>1, EntryAppears
  <2>5. \A t \in Taps : ~TapTurn(t)
    <3> SUFFICES ASSUME NEW t \in Taps PROVE ~TapTurn(t)
      OBVIOUS
    <3>1. tap[t].at \in {"idle", "done"}
      BY <2>2
    <3> QED BY <2>1, <3>1 DEF TapTurn, TapStep, TapBegin, TapLedger, TapEntry, TapClaim, TapHand, TapSend, TapConfirm,
                    TapRelease, TapUnclaim, TapSettled, TapRecord, TapRemove, TapClear
  <2>6. \A t \in Taps : tap'[t].at \in {"idle", "done"}
    BY <1>2, <2>2, <2>5, TapsTurn DEF TapKept
  <2>7. WorkMoves /\ Hooks \subseteq Workers /\ Closers \subseteq Workers /\ Taps \subseteq Workers /\ Recovery \in Workers
    BY WorkEffect DEF Tasks, Workers
  <2>8. ASSUME NEW w \in Workers \ {Recovery} PROVE work'[w] = Idle
    BY <2>1, <2>2, <2>5, <2>7, <2>8, Names DEF WorkMoves
  <2>9. up' = "down" => work'[Recovery] = Idle
    <3>1. up' = "down" => up = "down"
      BY <1>2, <2>0, Frames DEF UpActs, RecoverClaim
    <3> QED BY <2>2, <2>7, <3>1, Names DEF WorkMoves
  <2> QED BY <2>3, <2>4, <2>6, <2>8, <2>9
<1> QED BY <1>1, <1>2

\* ... together.
LEMMA TasksStep ==
  ASSUME Types, Sends, Tasks, [Next]_vars
  PROVE  Tasks'
BY GateStep, WorkStep, JoinStep, DownStep DEF Tasks

-----------------------------------------------------------------------------
(* What was sent is on disk, or Claude can no longer take it.              *)

\* The decision Claude took was sent, and is how the call went.
TookInv ==
  took # "none" => /\ tap[took].sent
                   /\ call = IF tap[took].d = "take" THEN "take" ELSE "rejected"

\* From the check of the ledger to the last word a tap's decision is the only one that counts.
Window == {"entry", "claim", "hand", "send", "confirm", "record", "release", "unclaim"}
Covered == claim # "none" \/ ledger # NoOutcome
Disowned(t) == call # "asking" /\ took # t
Released(t) == tap[t].at \in {"release", "unclaim"} \/ tap[t].told = "refused"
CoverInv ==
  /\ \A t \in Taps : tap[t].sent => Covered \/ Disowned(t)
  /\ \A t \in Taps : tap[t].sent /\ Released(t) => Disowned(t)
  /\ \A t \in Taps : tap[t].at \in {"hand", "send", "confirm", "record"} => Covered
  /\ keyed.joined => \A t \in Taps : tap[t].sent => Covered \/ Released(t)
SoleInv ==
  keyed.joined => \A t, u \in Taps : tap[t].at \in Window /\ u # t /\ tap[u].sent => tap[u].told = "refused"
Disk == TookInv /\ CoverInv /\ SoleInv /\ HandedOnce

\* Claude takes what the hook it reads was sent.
LEMMA TookStep ==
  ASSUME Types, Sends, TookInv, [Next]_vars
  PROVE  TookInv'
<1>1. ASSUME took' = took, took # "none" PROVE TookInv'
  <2>1. took \in Taps /\ call # "asking"
    BY <1>1 DEF TookInv, Types, ClaudeType
  <2>2. call' = call
    BY <2>1, CallStep
  <2>3. tap'[took].sent /\ tap'[took].d = tap[took].d
    BY <1>1, <2>1, SentKept DEF TookInv
  <2> QED BY <1>1, <2>2, <2>3 DEF TookInv
<1>2. ASSUME took' # took PROVE TookInv'
  <2>1. PICK h \in Hooks : ClaudeReads(h)
    <3>1. \A e \in Ran \cup {"rejected"} : MacAnswers(e) => took' = took
      BY DEF MacAnswers
    <3>2. \A h \in Hooks : ClaudeEndsHook(h) => took' = took
      BY DEF ClaudeEndsHook
    <3>3. \A c \in Closers : RunExits(c) => took' = took
      BY DEF RunExits
    <3>4. Crash => took' = took
      BY DEF Crash
    <3> QED BY <1>2, <3>1, <3>2, <3>3, <3>4, Frames DEF ClaudeActs
  <2> DEFINE d == hook[h].reply
  <2>2. /\ call = "asking" /\ d \in Decisions /\ tap' = tap
        /\ call' = IF d = "take" THEN "take" ELSE "rejected"
        /\ took' = CHOOSE t \in Taps : tap[t].sent /\ tap[t].resp = h
    BY <1>2, <2>1 DEF ClaudeReads
  <2>3. PICK u \in Taps : tap[u].sent /\ tap[u].resp = h /\ tap[u].d = d
    BY <2>2 DEF Sends, HookChan
  <2>4. took' \in Taps /\ tap[took'].sent /\ tap[took'].resp = h
    BY <2>2, <2>3
  <2>5. took' = u
    BY <2>3, <2>4 DEF Sends, TapChan
  <2> QED BY <2>2, <2>3, <2>5 DEF TookInv
<1> QED BY <1>1, <1>2 DEF TookInv

\* Claude's mind is made up: it takes no other decision.
LEMMA DisownedStays ==
  ASSUME Types, [Next]_vars, NEW t \in Taps, Disowned(t)
  PROVE  call' # "asking" /\ took' # t
BY CallStep DEF Disowned

\* Only a release uncovers.
LEMMA CoverStays ==
  ASSUME Types, [Next]_vars, Covered, \A t \in Taps : ~TapRelease(t)
  PROVE  Covered'
<1>0. NoOutcome \notin Outcomes
  BY OutcomeShape DEF Outcomes, NoOutcome
<1>1. ASSUME NEW o \in Outcomes, Write(o) PROVE Covered'
  BY <1>0, <1>1 DEF Write, Covered
<1>2. ASSUME NEW w \in Workers, Record(w) PROVE Covered'
  <2>1. work[w].o \in Outcomes
    <3>1. work[w] \in {Idle} \cup WorkRec /\ work[w].at = "record"
      BY <1>2 DEF Record, Types, WorkType
    <3> QED BY <3>1, WorkShape DEF Idle
  <2>2. Write(work[w].o) \/ UNCHANGED <<ledger, claim>>
    BY <1>2 DEF Record
  <2> QED BY <1>1, <2>1, <2>2 DEF Covered
<1>3. ASSUME NEW t \in Taps, TapRecord(t) PROVE Covered'
  <2>1. Phone(tap[t].d, card.question) \in Outcomes
    <3>1. tap[t].d \in Decisions /\ card.question \in BOOLEAN
      BY CardsAssumption DEF Types, TapType, TapRec, RunType
    <3> QED BY <3>1, OutcomeShape
  <2>2. Write(Phone(tap[t].d, card.question)) \/ UNCHANGED <<ledger, claim>>
    BY <1>3 DEF TapRecord
  <2> QED BY <1>1, <2>1, <2>2 DEF Covered
<1>4. ASSUME NEW t \in Taps, TapClaim(t) PROVE Covered'
  <2>1. tap[t].d # "none"
    BY DEF Types, TapType, TapRec, Decisions
  <2>2. ledger' = ledger /\ (claim' = tap[t].d \/ claim' = claim)
    BY <1>4 DEF TapClaim
  <2> QED BY <2>1, <2>2 DEF Covered
<1> QED BY <1>2, <1>3, <1>4, Frames DEF CoverActs, Covered

\* A phone that was told that its answer was not used is told nothing else.
LEMMA RefusedStays ==
  ASSUME Types, Sends, [Next]_vars, NEW t \in Taps, tap[t].told = "refused"
  PROVE  tap'[t].told = "refused" /\ ~TapTurn(t)
<1>1. tap[t].at = "done"
  BY DEF Sends, SentInv
<1>2. ~TapTurn(t)
  BY <1>1 DEF TapTurn, TapStep, TapBegin, TapLedger, TapEntry, TapClaim, TapHand, TapSend, TapConfirm,
              TapRelease, TapUnclaim, TapSettled, TapRecord, TapRemove, TapClear
<1>3. CASE Crash
  BY <1>1, <1>2, <1>3, TapCrash
<1>4. CASE ~Crash
  BY <1>2, <1>4, TapsTurn DEF TapKept
<1> QED BY <1>2, <1>3, <1>4

\* Where a tap stands before a step that leaves it in the window, or released.
LEMMA TapBefore ==
  ASSUME Types, Sends, [Next]_vars, NEW t \in Taps
  PROVE  /\ tap'[t].at \in Window => ~Crash /\ (tap[t].at \in Window \/ TapLedger(t))
         /\ tap'[t].at \in {"hand", "send", "confirm", "record"} =>
              tap[t].at \in {"hand", "send", "confirm", "record"} \/ (TapClaim(t) /\ claim' = tap[t].d)
         /\ tap'[t].sent /\ (tap'[t].at \in {"release", "unclaim"} \/ tap'[t].told = "refused") =>
              Released(t) \/ (TapConfirm(t) /\ tap[t].conf # tap[t].d /\ tap[t].conf \in Ran)
         /\ ~Crash /\ Released(t) => tap'[t].at \in {"release", "unclaim"} \/ tap'[t].told = "refused"
<1>1. /\ tap[t].at \in {"gate", "entry", "claim", "hand", "send"} => ~tap[t].sent
      /\ tap[t].told = "refused" => tap[t].at = "done"
  BY DEF Sends, SentInv
<1>3. CASE Crash
  BY <1>3, TapCrash DEF Released, Window
<1>4. CASE ~Crash /\ TapKept(t)
  BY <1>4 DEF TapKept, Released
<1>5. CASE ~Crash /\ tap'[t] = tap[t]
  BY <1>5 DEF Released
<1>6. CASE ~Crash /\ TapTurn(t)
  <2>2. CASE TapHand(t) \/ TapSend(t)
    BY <1>1, <1>6, <2>2, TapResult DEF Goes, Window, Released
  <2>3. CASE TapClear(t) \/ TapSettled(t) \/ TapUnclaim(t)
    BY <1>1, <1>6, <2>3, TapResult DEF Ends, Window, Released
  <2>4. CASE TapEntry(t) \/ TapLedger(t)
    <3>1. CASE TapEntry(t)
      BY <1>1, <1>6, <3>1, TapResult DEF Ends, Goes, Window, Released
    <3>2. CASE TapLedger(t)
      BY <1>1, <1>6, <3>2, TapResult DEF Ends, Goes, Window, Released
    <3> QED BY <2>4, <3>1, <3>2
  <2>5. CASE TapRelease(t) \/ TapClaim(t) \/ TapRemove(t)
    BY <1>1, <1>6, <2>5, TapResult DEF Goes, Window, Released
  <2>6. CASE TapConfirm(t)
    BY <1>1, <1>6, <2>6, TapResult DEF Goes, Window, Released
  <2>7. CASE TapRecord(t)
    BY <1>1, <1>6, <2>7, TapResult DEF Window, Released
  <2>8. CASE \E d \in Decisions : TapBegin(t, d)
    BY <1>1, <1>6, <2>8, TapResult DEF Window, Released
  <2> QED BY <1>6, <2>2, <2>3, <2>4, <2>5, <2>6, <2>7, <2>8 DEF TapTurn, TapStep
<1> QED BY <1>3, <1>4, <1>5, <1>6, TapsTurn

\* A tap in the window is alone there, and the daemon that runs it has not crashed since its card
\* was held.
LEMMA Alone ==
  ASSUME Types, Tasks, NEW t \in Taps
  PROVE  /\ tap[t].at \in Window => gate = t /\ \A u \in Taps : u # t => tap[u].at \notin GateAt
         /\ tap[t].at \in {"hand", "send", "confirm", "record", "release", "unclaim"} => keyed.joined
BY Names DEF Tasks, GateInv, JoinInv, Window, GateAt

\* What was sent stays on disk.
LEMMA CoverStep ==
  ASSUME Types, Sends, Tasks, Disk, [Next]_vars
  PROVE  CoverInv'
<1> USE DEF Disk
<1>1. ASSUME NEW t \in Taps, tap[t].sent, NEW u \in Taps, TapRelease(u) PROVE Released(t)
  <2>1. tap[u].at = "release"
    BY <1>1 DEF TapRelease
  <2>2. keyed.joined
    BY <2>1, Alone
  <2> QED BY <1>1, <2>1, <2>2 DEF SoleInv, Window, Released
<1>2. ASSUME NEW t \in Taps, TapSend(t) PROVE Covered /\ Covered'
  <2>1. Covered
    BY <1>2 DEF TapSend, CoverInv
  <2> QED BY <1>2, <2>1, SendEffect DEF Covered
<1>3. ASSUME NEW t \in Taps, tap'[t].sent PROVE Covered' \/ (call' # "asking" /\ took' # t)
  <2>1. CASE tap[t].sent /\ \E u \in Taps : TapRelease(u)
    BY <1>1, <2>1, DisownedStays DEF CoverInv
  <2>2. CASE tap[t].sent /\ \A u \in Taps : ~TapRelease(u)
    BY <2>2, DisownedStays, CoverStays DEF CoverInv
  <2> QED BY <1>2, <1>3, <2>1, <2>2, SentKept
<1>4. ASSUME NEW t \in Taps, tap'[t].sent, tap'[t].at \in {"release", "unclaim"} \/ tap'[t].told = "refused"
      PROVE  call' # "asking" /\ took' # t
  <2>1. CASE Released(t)
    <3>1. tap[t].sent
      <4>1. ~TapSend(t)
        BY <2>1 DEF Released, TapSend, Sends, SentInv
      <4> QED BY <1>4, <4>1, SentKept
    <3> QED BY <2>1, <3>1, DisownedStays DEF CoverInv
  <2>2. CASE TapConfirm(t) /\ tap[t].conf # tap[t].d /\ tap[t].conf \in Ran
    <3>1. tap[t].conf = call /\ tap[t].d \in Decisions
      BY <2>2 DEF Sends, SentInv, Types, TapType, TapRec
    <3>2. took # t
      BY <2>2, <3>1, Names DEF TookInv, Ran, Decisions
    <3>3. Disowned(t)
      BY <2>2, <3>1, <3>2 DEF Disowned, Ran
    <3> QED BY <3>3, DisownedStays
  <2> QED BY <1>4, <2>1, <2>2, TapBefore
<1>5. ASSUME NEW t \in Taps, tap'[t].at \in {"hand", "send", "confirm", "record"} PROVE Covered'
  <2>1. CASE tap[t].at \in {"hand", "send", "confirm", "record"}
    <3>1. \A u \in Taps : ~TapRelease(u)
      BY <2>1, Alone DEF TapRelease, Window, GateAt
    <3> QED BY <2>1, <3>1, CoverStays DEF CoverInv
  <2>2. CASE TapClaim(t) /\ claim' = tap[t].d
    BY <2>2 DEF Types, TapType, TapRec, Decisions, Covered
  <2> QED BY <1>5, <2>1, <2>2, TapBefore
<1>6. ASSUME keyed'.joined, NEW t \in Taps, tap'[t].sent
      PROVE  Covered' \/ tap'[t].at \in {"release", "unclaim"} \/ tap'[t].told = "refused"
  <2>0. ~Crash /\ keyed.joined
    BY <1>6, JoinedStep, CrashUnjoins
  <2>1. CASE tap[t].sent /\ \E u \in Taps : TapRelease(u)
    BY <1>1, <2>0, <2>1, TapBefore
  <2>2. CASE tap[t].sent /\ \A u \in Taps : ~TapRelease(u)
    BY <2>0, <2>2, TapBefore, CoverStays DEF CoverInv
  <2> QED BY <1>2, <1>6, <2>1, <2>2, SentKept
<1> QED BY <1>3, <1>4, <1>5, <1>6 DEF CoverInv, Disowned, Released, Covered

\* A tap that passes the ledger's check finds every earlier decision reported back.
LEMMA SoleStep ==
  ASSUME Types, Sends, Tasks, Disk, [Next]_vars
  PROVE  SoleInv'
<1> USE DEF Disk
<1> SUFFICES ASSUME keyed'.joined, NEW t \in Taps, NEW u \in Taps, tap'[t].at \in Window, u # t, tap'[u].sent
    PROVE  tap'[u].told = "refused"
  BY DEF SoleInv
<1>0. keyed.joined
  BY JoinedStep, CrashUnjoins
<1>1. CASE tap[t].at \in Window
  <2>1. ~TapSend(u)
    BY <1>1, Alone DEF TapSend, GateAt
  <2>2. tap[u].sent
    BY <2>1, SentKept
  <2> QED BY <1>0, <1>1, <2>2, RefusedStays DEF SoleInv
<1>2. CASE TapLedger(t) /\ tap[t].at \notin Window
  <2>1. gate = "none" /\ tap[t].at = "gate" /\ ~Covered
    <3>1. gate = "none" /\ tap[t].at = "gate"
      BY <1>2 DEF TapLedger
    <3>2. ledger = NoOutcome /\ claim = "none"
      BY <1>2, TapResult DEF Ends, Goes, Window
    <3> QED BY <3>1, <3>2 DEF Covered
  <2>2. ~TapSend(u)
    BY <2>1, Names DEF TapSend, Tasks, GateInv, GateAt
  <2>3. tap[u].sent
    BY <2>2, SentKept
  <2>4. tap[u].told = "refused"
    BY <1>0, <2>1, <2>3, Names DEF CoverInv, Released, Tasks, GateInv, GateAt
  <2> QED BY <2>4, RefusedStays
<1> QED BY <1>1, <1>2, TapBefore

\* A second decision is handed over only once the first was reported back.
LEMMA HandedStep ==
  ASSUME Types, Sends, Tasks, Disk, [Next]_vars
  PROVE  HandedOnce'
<1> USE DEF Disk
<1> SUFFICES ASSUME NEW t \in Taps, NEW u \in Taps, tap'[t].sent, tap'[t].told # "refused",
                    tap'[u].sent, tap'[u].told # "refused", t # u
    PROVE  FALSE
  BY DEF HandedOnce
<1>1. tap[t].told # "refused" /\ tap[u].told # "refused"
  BY RefusedStays
<1>2. ASSUME NEW v \in Taps, NEW w \in Taps, v # w, TapSend(v), tap[w].sent, tap[w].told # "refused" PROVE FALSE
  <2>1. tap[v].at = "send"
    BY <1>2 DEF TapSend
  <2>2. keyed.joined
    BY <2>1, Alone
  <2> QED BY <1>2, <2>1, <2>2 DEF SoleInv, Window
<1>3. ~(TapSend(t) /\ TapSend(u))
  BY Alone DEF TapSend, Window, GateAt
<1>4. ~(tap[t].sent /\ tap[u].sent)
  BY <1>1 DEF HandedOnce
<1> QED BY <1>1, <1>2, <1>3, <1>4, SentKept

\* ... together.
LEMMA DiskStep ==
  ASSUME Types, Sends, Tasks, Disk, [Next]_vars
  PROVE  Disk'
BY TookStep, CoverStep, SoleStep, HandedStep DEF Disk

-----------------------------------------------------------------------------
(* The first request and its replays.                                      *)

\* Where a hook is once its card is filed, and before it is done.
PastWrite == {"read", "turn", "ended", "persist", "wait", "back", "back_row", "gone", "gone_hold",
              "gone_row"}

\* Before the request is filed one hook at most has arrived, and until it registers there is nothing.
FirstInv ==
  ~asked =>
    /\ \A g, h \in Hooks : hook[g].at # "idle" /\ hook[h].at # "idle" => g = h
    /\ \A t \in Taps : tap[t].at = "idle"
    /\ \A h \in Hooks : hook[h].at \notin PastWrite
    /\ (\A h \in Hooks : hook[h].at \in {"idle", "register"}) =>
         /\ ~Present /\ ledger = NoOutcome
         /\ \A w \in Workers : work[w].at \in {"idle", "ended"}
    /\ row = "none" /\ claim = "none"

\* One hook at most gets past filing the card; one that takes its registration back had registered.
OnePast == \A g, h \in Hooks : hook[g].at \in PastWrite /\ hook[h].at \in PastWrite => g = h
RegInv == \A h \in Hooks : hook[h].at = "unregister" => hook[h].reg
First == FirstInv /\ OnePast /\ RegInv

\* How a hook comes to be where it is.
HookComes(h) ==
  /\ hook[h].at = "idle" => \E held \in BOOLEAN : Arrive(h, held)
  /\ hook[h].at = "register" => Register(h)
  /\ hook[h].at = "write" => WriteCard(h)
  /\ hook[h].at = "unregister" => Unregister(h)
  /\ hook'[h].at \in PastWrite =>
       hook[h].at \in PastWrite \/ (WriteCard(h) /\ ~asked /\ asked' /\ hook'[h].at = "read" /\ UNCHANGED <<entry, chan>>)
  /\ hook'[h].at \in {"turn", "ended", "persist", "wait"} =>
       ReadBack(h) \/ (hook[h].at \in {"turn", "ended", "persist", "wait"} /\ hook'[h].missed = hook[h].missed)
  /\ hook[h].at \in {"back", "back_row", "gone", "gone_hold", "gone_row"} =>
       hook'[h].at \in {"back", "back_row", "gone", "gone_hold", "gone_row", "returned"}
  /\ hook'[h].at = "write" => Register(h)
  /\ hook'[h].at = "unregister" => hook'[h].reg /\ WriteCard(h)

\* Every step of a hook brings it on so.
LEMMA HookCame ==
  ASSUME Types, Sends, NEW h \in Hooks,
         \/ ClaudeReads(h) \/ HookStep(h) \/ SomeoneReturns(h)
         \/ \E held \in BOOLEAN : Arrive(h, held)
  PROVE  HookComes(h)
<1> USE DEF Types
<1>0. hook[h] \in HookRec /\ HookType /\ ChanType
  BY DEF HookType
<1>1. ASSUME NEW a \in HookStates, At(h, a)
      PROVE  hook'[h].at = a /\ hook'[h].reg = hook[h].reg /\ hook'[h].missed = hook[h].missed
  BY <1>0, <1>1, HookAt
<1>2. Return(h, "pass") => hook'[h].at = "returned"
  BY <1>0, HookReturns
<1> USE DEF HookStates, PastWrite
<1>3. CASE ClaudeReads(h)
  <2> DEFINE x == [Fresh EXCEPT !.at = "over"]
  <2>1. x \in HookRec /\ x.at = "over"
    BY OverShape
  <2>2. hook' = [hook EXCEPT ![h] = x] /\ hook[h].at = "returned"
    BY <1>3 DEF ClaudeReads
  <2> HIDE DEF x
  <2>3. hook'[h] = x
    BY <1>0, <2>1, <2>2, HookSet
  <2> QED BY <2>1, <2>2, <2>3 DEF HookComes
<1>4. ASSUME NEW held \in BOOLEAN, Arrive(h, held) PROVE HookComes(h)
  BY <1>0, <1>4, ArriveMakes DEF HookComes
<1>5. CASE Register(h)
  <2> DEFINE x == [hook[h] EXCEPT !.at = "write", !.reg = ~Present]
  <2>1. x \in HookRec /\ x.at = "write"
    BY <1>0 DEF HookRec
  <2>2. hook' = [hook EXCEPT ![h] = x] /\ hook[h].at = "register"
    BY <1>5 DEF Register, HookType
  <2> HIDE DEF x
  <2>3. hook'[h] = x
    BY <1>0, <2>1, <2>2, HookSet
  <2> QED BY <1>5, <2>1, <2>2, <2>3 DEF HookComes
<1>6. CASE WriteCard(h)
  <2>1. CASE ~asked /\ asked' = TRUE /\ At(h, "read") /\ UNCHANGED <<faults, chan>>
    BY <1>1, <1>6, <2>1 DEF WriteCard, HookComes
  <2>2. CASE hook[h].reg /\ At(h, "unregister")
    BY <1>1, <1>6, <2>2 DEF WriteCard, HookComes
  <2>3. CASE Return(h, "pass")
    BY <1>2, <1>6, <2>3 DEF WriteCard, HookComes
  <2> QED BY <1>6, <2>1, <2>2, <2>3 DEF WriteCard
<1>7. CASE Unregister(h)
  <2>1. hook' = [hook EXCEPT ![h] = Returned("pass")] /\ hook[h].at = "unregister"
    BY <1>7 DEF Unregister
  <2>2. hook'[h].at = "returned"
    <3>1. Returned("pass") \in HookRec /\ Returned("pass").at = "returned"
      BY ReturnedShape
    <3> QED BY <1>0, <2>1, <3>1, HookSet
  <2> QED BY <1>7, <2>1, <2>2 DEF HookComes
<1>8. CASE ReadBack(h)
  BY <1>0, <1>8, ReadBackMakes DEF HookComes
<1>9. CASE TurnOver(h)
  BY <1>1, <1>9 DEF TurnOver, HookComes
<1>10. CASE SeenEnded(h)
  <2> DEFINE x == [hook[h] EXCEPT !.seen = "open"]
  <2>1. x \in HookRec /\ x.at = hook[h].at /\ x.missed = hook[h].missed
    BY <1>0 DEF HookRec
  <2>2. hook' = [hook EXCEPT ![h] = x] /\ hook[h].at = "ended"
    BY <1>10 DEF SeenEnded, HookType
  <2> HIDE DEF x
  <2>3. hook'[h] = x
    BY <1>0, <2>1, <2>2, HookSet
  <2> QED BY <2>1, <2>2, <2>3 DEF HookComes
<1>11. CASE StillOpen(h)
  BY <1>1, <1>2, <1>11 DEF StillOpen, HookComes
<1>12. CASE Persist(h)
  BY <1>1, <1>2, <1>12 DEF Persist, HookComes
<1>13. CASE Answered(h)
  <2>1. PICK v : hook' = [hook EXCEPT ![h] = Returned(v)]
    BY <1>13 DEF Answered, Return
  <2>2. hook'[h].at = "returned"
    BY <1>0, <2>1 DEF HookType, Returned, Fresh
  <2> QED BY <1>13, <2>2 DEF Answered, HookComes
<1>14. CASE Gone(h)
  BY <1>1, <1>14 DEF Gone, HookComes
<1>15. ASSUME NEW current \in BOOLEAN, HookEnded(h, current) PROVE HookComes(h)
  BY <1>1, <1>2, <1>15 DEF HookEnded, HookComes
<1>16. CASE SomeoneReturns(h)
  BY <1>1, <1>16 DEF SomeoneReturns, HookComes
<1>17. CASE SetHold(h)
  <2>1. CASE Present
    <3> DEFINE a == IF hook[h].at = "back" THEN "back_row" ELSE "gone_row"
    <3>1. At(h, a) /\ a \in {"back_row", "gone_row"} /\ hook[h].at \in {"back", "gone_hold"}
      BY <1>17, <2>1 DEF SetHold
    <3> HIDE DEF a
    <3> QED BY <1>1, <3>1 DEF HookComes
  <2>2. CASE ~Present
    BY <1>2, <1>17, <2>2 DEF SetHold, HookComes
  <2> QED BY <2>1, <2>2
<1>18. CASE HoldRow(h)
  BY <1>2, <1>18 DEF HoldRow, HookComes
<1> QED BY <1>3, <1>4, <1>5, <1>6, <1>7, <1>8, <1>9, <1>10, <1>11, <1>12, <1>13, <1>14, <1>15, <1>16,
           <1>17, <1>18 DEF HookStep

\* A step that is not a crash moves one hook at most, in one of these ways.
LEMMA HookTurns ==
  ASSUME Types, Sends, [Next]_vars, ~Crash
  PROVE  \/ UNCHANGED hook
         \/ \E h \in Hooks : HookMoves(h) /\ HookComes(h)
<1>1. UNCHANGED hook \/ \E h \in Hooks :
             \/ ClaudeReads(h) \/ HookStep(h) \/ SomeoneReturns(h)
             \/ \E held \in BOOLEAN : Arrive(h, held)
  BY Frames DEF HookActs, HookStep
<1> QED BY <1>1, HookEffect, HookCame

\* Nothing is unasked.
LEMMA AskedStays ==
  ASSUME Types, [Next]_vars
  PROVE  asked => asked'
<1>1. PostFile \/ Restore => asked' = asked
  BY DEF PostFile, Restore, logVars
<1>2. (\E w \in Workers : Announce(w)) \/ (\E t \in Taps : TapClear(t)) => asked' = asked
  BY DEF Announce, TapClear, logVars
<1>3. \A h \in Hooks : WriteCard(h) => asked' \/ asked' = asked
  BY DEF WriteCard
<1>4. \A h \in Hooks : Persist(h) \/ HoldRow(h) => asked' = asked
  BY DEF Persist, HoldRow, logVars
<1> QED BY <1>1, <1>2, <1>3, <1>4, Frames DEF LogActs

\* Before the first hook has registered there is no outcome to write.
LEMMA WorkStaysIdle ==
  ASSUME Types, Sends, Tasks, [Next]_vars, ~Present, claim = "none", \A t \in Taps : tap[t].at = "idle",
         \A h \in Hooks : hook[h].at \in {"idle", "register"},
         \A w \in Workers : work[w].at \in {"idle", "ended"}
  PROVE  \A w \in Workers : work'[w].at \in {"idle", "ended"}
<1> DEFINE Goal == \A w \in Workers : work'[w].at \in {"idle", "ended"}
<1>0. /\ WorkType /\ Idle.at = "idle" /\ Closers \subseteq Workers
  BY DEF Types, Idle, Workers
<1>1. ASSUME UNCHANGED work PROVE Goal
  BY <1>1
<1>2. ASSUME NEW w \in Workers, work' = [work EXCEPT ![w] = Idle] PROVE Goal
  BY <1>0, <1>2 DEF WorkType
<1>3. ASSUME NEW c \in Closers, TailRead(c) PROVE Goal
  <2>1. PICK o : work' = [work EXCEPT ![c] = [at |-> "ended", o |-> o]]
    BY <1>3 DEF TailRead
  <2> QED BY <1>0, <2>1 DEF WorkType
<1>4. ASSUME NEW w \in Workers, CallEnded(w) PROVE Goal
  BY <1>2, <1>4 DEF CallEnded
<1>5. ASSUME NEW w \in Workers PROVE ~Take(w) /\ ~Record(w) /\ ~Announce(w)
  BY DEF Take, Record, Announce
<1>6. ASSUME NEW c \in Closers, StopHook(c) PROVE Goal
  BY <1>1, <1>6 DEF StopHook, Moved
<1>7. ASSUME NEW c \in Closers, RunExits(c) PROVE Goal
  BY <1>0, <1>2, <1>7 DEF RunExits
<1>8. ASSUME NEW c \in Closers PROVE ~CloseCard(c) /\ ~Expire(c) /\ ~SweepRan(c) /\ \A back \in BOOLEAN : ~SweepScreen(c, back)
  BY <1>0 DEF CloseCard, Expire, SweepRan, SweepScreen
<1>9. ASSUME NEW h \in Hooks PROVE ~TurnOver(h) /\ ~SeenEnded(h) /\ \A current \in BOOLEAN : ~HookEnded(h, current)
  BY DEF TurnOver, SeenEnded, HookEnded
<1>10. ASSUME NEW t \in Taps PROVE ~TapLedger(t) /\ ~TapConfirm(t)
  BY DEF TapLedger, TapConfirm
<1>11. Crash => Goal
  <2>1. Crash => work' = [w \in Workers |-> Idle]
    BY DEF Crash
  <2> QED BY <1>0, <2>1
<1>12. RecoverClaim => Goal
  BY <1>1 DEF RecoverClaim
<1> QED BY <1>1, <1>3, <1>4, <1>5, <1>6, <1>7, <1>8, <1>9, <1>10, <1>11, <1>12, Frames DEF WorkActs

\* Nothing comes before the first request ...
LEMMA FirstStep ==
  ASSUME Types, Sends, Tasks, First, [Next]_vars
  PROVE  FirstInv'
<1> SUFFICES ASSUME ~asked'
    PROVE  /\ \A g, h \in Hooks : hook'[g].at # "idle" /\ hook'[h].at # "idle" => g = h
           /\ \A t \in Taps : tap'[t].at = "idle"
           /\ \A h \in Hooks : hook'[h].at \notin PastWrite
           /\ (\A h \in Hooks : hook'[h].at \in {"idle", "register"}) =>
                /\ ~Present' /\ ledger' = NoOutcome
                /\ \A w \in Workers : work'[w].at \in {"idle", "ended"}
           /\ row' = "none" /\ claim' = "none"
  BY DEF FirstInv
<1>0. /\ ~asked
      /\ \A g, h \in Hooks : hook[g].at # "idle" /\ hook[h].at # "idle" => g = h
      /\ \A t \in Taps : tap[t].at = "idle"
      /\ \A h \in Hooks : hook[h].at \notin PastWrite
      /\ (\A h \in Hooks : hook[h].at \in {"idle", "register"}) =>
           /\ ~Present /\ ledger = NoOutcome
           /\ \A w \in Workers : work[w].at \in {"idle", "ended"}
      /\ row = "none" /\ claim = "none"
  BY AskedStays DEF First, FirstInv
<1>1. ASSUME NEW g \in Hooks, NEW h \in Hooks, hook'[g].at # "idle", hook'[h].at # "idle" PROVE g = h
  <2>1. CASE Crash
    BY <1>0, <1>1, <2>1, HookCrash
  <2>2. CASE ~Crash
    <3>1. CASE UNCHANGED hook
      BY <1>0, <1>1, <3>1
    <3>2. ASSUME NEW k \in Hooks, HookMoves(k), HookComes(k) PROVE g = h
      <4>1. CASE hook[k].at = "idle"
        <5>1. \A x \in Hooks : hook[x].at = "idle"
          BY <1>0, <3>2, <4>1 DEF HookComes, Arrive
        <5> QED BY <1>1, <3>2, <5>1 DEF HookMoves
      <4>2. CASE hook[k].at # "idle"
        BY <1>0, <1>1, <3>2, <4>2 DEF HookMoves
      <4> QED BY <4>1, <4>2
    <3> QED BY <2>2, <3>1, <3>2, HookTurns
  <2> QED BY <2>1, <2>2
<1>2. \A t \in Taps : tap'[t].at = "idle" /\ ~TapTurn(t)
  <2> SUFFICES ASSUME NEW t \in Taps PROVE tap'[t].at = "idle" /\ ~TapTurn(t)
    OBVIOUS
  <2>1. ~TapTurn(t)
    BY <1>0 DEF TapTurn, TapStep, TapBegin, TapLedger, TapEntry, TapClaim, TapHand, TapSend, TapConfirm,
                TapRelease, TapUnclaim, TapSettled, TapRecord, TapRemove, TapClear
  <2> QED BY <1>0, <2>1, TapsTurn, TapCrash DEF TapKept
<1>3. \A h \in Hooks : hook'[h].at \notin PastWrite
  <2>1. CASE Crash
    BY <2>1, HookCrash DEF PastWrite
  <2>2. CASE ~Crash
    BY <1>0, <2>2, HookTurns DEF HookMoves, HookComes
  <2> QED BY <2>1, <2>2
<1>4. row' = "none" /\ claim' = "none"
  <2>1. row' = "none"
    <3>1. PostFile \/ Restore => row' = "none"
      BY <1>0 DEF PostFile, Restore, diskVars
    <3>2. \A w \in Workers : Announce(w) => row' = "none"
      BY DEF Announce
    <3>3. \A h \in Hooks : WriteCard(h) => row' = row
      BY DEF WriteCard, diskVars
    <3>4. \A h \in Hooks : ~Persist(h) /\ ~HoldRow(h)
      BY <1>0 DEF Persist, HoldRow, PastWrite
    <3>5. \A t \in Taps : TapClear(t) => row' = "none"
      BY DEF TapClear
    <3> QED BY <1>0, <3>1, <3>2, <3>3, <3>4, <3>5, Frames DEF LogActs
  <2>2. claim' = "none"
    <3>1. \A w \in Workers : Record(w) => claim' = "none"
      BY <1>0 DEF Record, Write
    <3> QED BY <1>0, <1>2, <3>1, Frames DEF CoverActs, TapTurn, TapStep
  <2> QED BY <2>1, <2>2
<1>5. ASSUME \A h \in Hooks : hook'[h].at \in {"idle", "register"}
      PROVE  /\ ~Present' /\ ledger' = NoOutcome
             /\ \A w \in Workers : work'[w].at \in {"idle", "ended"}
  <2>1. \A h \in Hooks : hook[h].at \in {"idle", "register"}
    BY <1>5, HookAhead
  <2>2. /\ ~Present /\ ledger = NoOutcome
        /\ \A w \in Workers : work[w].at \in {"idle", "ended"}
    BY <1>0, <2>1
  <2>3. ~Present'
    <3>1. Restore => entry' = NoEntry
      BY <1>0 DEF Restore
    <3>2. \A h \in Hooks : Register(h) => hook'[h].at = "write"
      <4> SUFFICES ASSUME NEW h \in Hooks, Register(h) PROVE hook'[h].at = "write"
        OBVIOUS
      <4>1. hook' = [hook EXCEPT ![h] = [hook[h] EXCEPT !.at = "write", !.reg = ~Present]] /\ hook[h] \in HookRec
        BY DEF Register, Types, HookType
      <4> QED BY <4>1 DEF Types, HookType, HookRec
    <3> QED BY <1>5, <2>2, <3>1, <3>2, EntryAppears DEF Present
  <2>4. ledger' = NoOutcome
    <3>1. \A w \in Workers : ~Record(w)
      BY <2>2 DEF Record
    <3>2. \A t \in Taps : ~TapClaim(t) /\ ~TapRelease(t) /\ ~TapRecord(t)
      BY <1>2 DEF TapTurn, TapStep
    <3> QED BY <2>2, <3>1, <3>2, Frames DEF CoverActs
  <2> QED BY <1>0, <2>1, <2>2, <2>3, <2>4, WorkStaysIdle
<1> QED BY <1>1, <1>2, <1>3, <1>4, <1>5

\* ... and no replay gets past it.
LEMMA PastStep ==
  ASSUME Types, Sends, First, [Next]_vars
  PROVE  OnePast' /\ RegInv'
<1>1. CASE Crash
  BY <1>1, HookCrash DEF OnePast, RegInv, PastWrite
<1>2. CASE ~Crash
  <2>1. OnePast'
    <3>1. CASE UNCHANGED hook
      BY <3>1 DEF First, OnePast
    <3>2. ASSUME NEW h \in Hooks, HookMoves(h), HookComes(h) PROVE OnePast'
      <4>1. CASE hook[h].at \in PastWrite
        BY <3>2, <4>1 DEF First, OnePast, HookMoves
      <4>2. CASE ~asked
        BY <3>2, <4>2 DEF First, FirstInv, OnePast, HookMoves
      <4>3. CASE hook'[h].at \notin PastWrite
        BY <3>2, <4>3 DEF First, OnePast, HookMoves
      <4> QED BY <3>2, <4>1, <4>2, <4>3 DEF HookComes
    <3> QED BY <1>2, <3>1, <3>2, HookTurns
  <2>2. RegInv'
    BY <1>2, HookTurns DEF First, RegInv, HookMoves, HookComes
  <2> QED BY <2>1, <2>2
<1> QED BY <1>1, <1>2

-----------------------------------------------------------------------------
(* No phantom: a card of a request with an outcome is about to go.         *)

\* A replay is being refused; the card in the map may be its.
Replaying == \E h \in Hooks : \/ hook[h].at = "unregister"
                              \/ asked /\ hook[h].at = "write" /\ hook[h].reg
PhantomInv ==
  Present /\ ~Replaying =>
    /\ \A w \in Hooks \cup Closers : work[w].at # "record"
    /\ \/ ledger = NoOutcome
       \/ ledger.by = "phone" /\ \E t \in Taps : tap[t].at \in {"settle", "remove"}

\* A task that closes a card without a phone writes its outcome once the card is gone.
LEMMA RecordStarts ==
  ASSUME Types, [Next]_vars, NEW w \in Hooks \cup Closers, work'[w].at = "record", work[w].at # "record"
  PROVE  Take(w) /\ Present /\ ~entry.claimed /\ ~Present'
<1>0. /\ WorkType /\ Idle.at = "idle" /\ w \in Workers /\ w \notin Taps /\ w # Recovery
      /\ Hooks \subseteq Workers /\ Closers \subseteq Workers /\ Taps \subseteq Workers /\ Recovery \in Workers
  BY Names DEF Types, Idle, Workers
<1>1. ASSUME NEW v \in Workers, NEW x, work' = [work EXCEPT ![v] = x] PROVE v = w /\ x.at = "record"
  BY <1>0, <1>1 DEF WorkType
<1>2. ASSUME NEW c \in Closers, TailRead(c) PROVE FALSE
  <2>1. PICK o : work' = [work EXCEPT ![c] = [at |-> "ended", o |-> o]]
    BY <1>2 DEF TailRead
  <2>2. [at |-> "ended", o |-> o].at = "ended"
    OBVIOUS
  <2> QED BY <1>0, <1>1, <2>1, <2>2
<1>3. ASSUME NEW v \in Workers, NEW o, Closing(v, o) PROVE FALSE
  <2>1. work' = [work EXCEPT ![v] = [at |-> "take", o |-> o]] /\ [at |-> "take", o |-> o].at = "take"
    BY <1>3 DEF Closing
  <2> QED BY <1>1, <2>1
<1>4. ASSUME NEW v \in Workers, CallEnded(v) PROVE FALSE
  BY <1>0, <1>1, <1>3, <1>4 DEF CallEnded
<1>5. ASSUME NEW v \in Workers, Moved(v) PROVE FALSE
  BY <1>3, <1>5 DEF Moved
<1>6. ASSUME NEW c \in Closers, RunExits(c) PROVE FALSE
  <2>1. PICK x : work' = [work EXCEPT ![c] = x] /\ x.at \in {"gate", "idle"}
    <3>1. [at |-> "gate", o |-> Local("refuse", FALSE)].at = "gate"
      OBVIOUS
    <3> QED BY <1>0, <1>6, <3>1 DEF RunExits
  <2> QED BY <1>0, <1>1, <2>1
<1>7. ASSUME NEW c \in Closers, CloseCard(c) PROVE FALSE
  BY <1>0, <1>1, <1>3, <1>7 DEF CloseCard
<1>8. ASSUME NEW c \in Closers, Expire(c) \/ SweepRan(c) \/ \E back \in BOOLEAN : SweepScreen(c, back) PROVE FALSE
  BY <1>0, <1>3, <1>8 DEF Expire, SweepRan, SweepScreen
<1>9. ASSUME NEW v \in Workers, Record(v) PROVE FALSE
  <2>0. work[v].at = "record" /\ v # w
    BY <1>9 DEF Record
  <2>1. PICK x : work' = [work EXCEPT ![v] = x]
    BY <1>9 DEF Record
  <2> QED BY <1>1, <2>0, <2>1
<1>10. ASSUME NEW v \in Workers, Announce(v) PROVE FALSE
  BY <1>0, <1>1, <1>10 DEF Announce
<1>11. ASSUME NEW h \in Hooks, TurnOver(h) PROVE FALSE
  BY <1>0, <1>5, <1>11 DEF TurnOver
<1>12. ASSUME NEW h \in Hooks, SeenEnded(h) PROVE FALSE
  <2>1. PICK o : work' = [work EXCEPT ![h] = [at |-> "ended", o |-> o]]
    BY <1>12 DEF SeenEnded
  <2>2. [at |-> "ended", o |-> o].at = "ended"
    OBVIOUS
  <2> QED BY <1>0, <1>1, <2>1, <2>2
<1>13. ASSUME NEW h \in Hooks, NEW current \in BOOLEAN, HookEnded(h, current) PROVE FALSE
  BY <1>0, <1>3, <1>13 DEF HookEnded
<1>14. ASSUME NEW t \in Taps, TapLedger(t) \/ TapConfirm(t) PROVE FALSE
  <2>1. UNCHANGED work \/ \E d : Settling(t, d)
    BY <1>14 DEF TapLedger, TapConfirm
  <2>2. UNCHANGED work \/ \E x : work' = [work EXCEPT ![t] = x]
    BY <2>1 DEF Settling
  <2> QED BY <1>0, <1>1, <2>2
<1>15. ASSUME Crash PROVE FALSE
  <2>1. work' = [v \in Workers |-> Idle]
    BY <1>15 DEF Crash
  <2> QED BY <1>0, <2>1
<1>16. ASSUME RecoverClaim PROVE FALSE
  <2>1. UNCHANGED work \/ \E x : work' = [work EXCEPT ![Recovery] = x]
    BY <1>16 DEF RecoverClaim
  <2> QED BY <1>0, <1>1, <2>1
<1>17. ASSUME NEW c \in Closers, StopHook(c) PROVE FALSE
  BY <1>0, <1>5, <1>17 DEF StopHook
<1>18. ASSUME NEW v \in Workers, Take(v) PROVE Take(w) /\ Present /\ ~entry.claimed /\ ~Present'
  <2>1. CASE Present /\ ~entry.claimed
    <3>1. work' = [work EXCEPT ![v].at = "record"] /\ Remove
      BY <1>18, <2>1 DEF Take
    <3>2. v = w
      BY <1>0, <3>1 DEF WorkType
    <3> QED BY <1>18, <2>1, <3>1, <3>2 DEF Remove, Present
  <2>2. CASE ~(Present /\ ~entry.claimed)
    BY <1>0, <1>1, <1>18, <2>2 DEF Take
  <2> QED BY <2>1, <2>2
<1> QED BY <1>2, <1>4, <1>6, <1>7, <1>8, <1>9, <1>10, <1>11, <1>12, <1>13, <1>14, <1>15, <1>16, <1>17, <1>18,
           Frames DEF WorkActs

\* A replay is refused until its registration is taken back.
LEMMA ReplayStays ==
  ASSUME Types, Sends, First, [Next]_vars, Replaying
  PROVE  Replaying' \/ ~Present'
<1>1. CASE Crash
  BY <1>1 DEF Crash, Present
<1>2. CASE ~Crash
  <2>1. PICK h \in Hooks : hook[h].at = "unregister" \/ (asked /\ hook[h].at = "write" /\ hook[h].reg)
    BY DEF Replaying
  <2>2. CASE hook'[h] = hook[h]
    BY <2>1, <2>2, AskedStays DEF Replaying
  <2>3. CASE Unregister(h)
    BY <2>3 DEF Unregister, Present
  <2>4. ASSUME WriteCard(h), asked, hook[h].reg PROVE Replaying'
    <3>1. At(h, "unregister")
      BY <2>4 DEF WriteCard
    <3>2. hook'[h].at = "unregister"
      BY <3>1, HookAt DEF HookStates, Types
    <3> QED BY <3>2 DEF Replaying
  <2>5. hook'[h] = hook[h] \/ (HookMoves(h) /\ HookComes(h))
    BY <1>2, HookTurns DEF HookMoves
  <2> QED BY <2>1, <2>2, <2>3, <2>4, <2>5 DEF HookComes
<1> QED BY <1>1, <1>2

\* A card that comes into the map is a replay's, or the request has no outcome and none under way.
LEMMA EntryComes ==
  ASSUME Types, Sends, Tasks, First, [Next]_vars, ~Present, Present'
  PROVE  \/ Replaying'
         \/ /\ ledger' = NoOutcome
            /\ \A w \in Hooks \cup Closers : work'[w].at # "record"
<1>0. Idle.at = "idle" /\ Hooks \subseteq Workers /\ Closers \subseteq Workers
  BY DEF Idle, Workers
<1>1. CASE Restore
  <2>1. up = "restoring" /\ ledger = NoOutcome /\ UNCHANGED <<ledger, work>>
    BY <1>1 DEF Restore, Present
  <2>2. \A w \in Hooks \cup Closers : work[w] = Idle
    BY <1>0, <2>1, Names DEF Tasks, DownInv
  <2> QED BY <1>0, <2>1, <2>2
<1>2. ASSUME NEW h \in Hooks, Register(h)
      PROVE  \/ Replaying'
             \/ /\ ledger' = NoOutcome
                /\ \A w \in Hooks \cup Closers : work'[w].at # "record"
  <2>1. hook' = [hook EXCEPT ![h] = [hook[h] EXCEPT !.at = "write", !.reg = ~Present]] /\ hook[h] \in HookRec
        /\ hook[h].at = "register" /\ UNCHANGED <<work, ledger, asked>>
    BY <1>2 DEF Register, Types, HookType, logVars, diskVars
  <2>2. hook'[h].at = "write" /\ hook'[h].reg
    BY <2>1 DEF Types, HookType, HookRec
  <2>3. CASE asked
    BY <2>1, <2>2, <2>3 DEF Replaying
  <2>4. CASE ~asked
    <3>1. \A g \in Hooks : hook[g].at \in {"idle", "register"}
      BY <2>1, <2>4 DEF First, FirstInv
    <3> QED BY <1>0, <2>1, <2>4, <3>1 DEF First, FirstInv
  <2> QED BY <2>3, <2>4
<1> QED BY <1>1, <1>2, EntryAppears

\* Who writes an outcome.
LEMMA LedgerComes ==
  ASSUME Types, Sends, Tasks, [Next]_vars, ledger' # ledger
  PROVE  /\ ledger = NoOutcome
         /\ \/ \E w \in Workers : Record(w) /\ work[w].at = "record" /\ ledger' = work[w].o
            \/ \E t \in Taps : TapRecord(t) /\ ledger' = Phone(tap[t].d, card.question)
<1>1. \A w \in Workers : Record(w) => ledger = NoOutcome /\ work[w].at = "record" /\ ledger' = work[w].o
  BY DEF Record, Write
<1>2. \A t \in Taps : TapRecord(t) => ledger = NoOutcome /\ ledger' = Phone(tap[t].d, card.question)
  BY DEF TapRecord, Write
<1>3. \A t \in Taps : ~TapClaim(t) /\ ~TapRelease(t)
  BY DEF TapClaim, TapRelease
<1> QED BY <1>1, <1>2, <1>3, Frames DEF CoverActs

\* No step leaves a card whose request has an outcome to nobody.
LEMMA PhantomStep ==
  ASSUME Types, Sends, Tasks, First, PhantomInv, [Next]_vars
  PROVE  PhantomInv'
<1> SUFFICES ASSUME Present', ~Replaying'
    PROVE  /\ \A w \in Hooks \cup Closers : work'[w].at # "record"
           /\ \/ ledger' = NoOutcome
              \/ ledger'.by = "phone" /\ \E t \in Taps : tap'[t].at \in {"settle", "remove"}
  BY DEF PhantomInv
<1>0. ~Replaying
  BY ReplayStays
<1>1. CASE ~Present
  BY <1>1, EntryComes
<1>2. CASE Present
  <2>0. /\ \A w \in Hooks \cup Closers : work[w].at # "record"
        /\ \/ ledger = NoOutcome
           \/ ledger.by = "phone" /\ \E t \in Taps : tap[t].at \in {"settle", "remove"}
    BY <1>0, <1>2 DEF PhantomInv
  <2>1. \A w \in Hooks \cup Closers : work'[w].at # "record"
    BY <2>0, RecordStarts
  <2>2. CASE ledger' = ledger
    <3>1. ASSUME NEW t \in Taps, tap[t].at \in {"settle", "remove"} PROVE tap'[t].at = tap[t].at
      <4>1. ~Crash
        BY DEF Crash, Present
      <4>2. ~TapSettled(t) /\ ~TapRemove(t)
        BY DEF TapSettled, TapRemove, Remove, Present
      <4>3. ~TapTurn(t)
        BY <3>1, <4>2 DEF TapTurn, TapStep, TapBegin, TapLedger, TapEntry, TapClaim, TapHand, TapSend, TapConfirm,
                TapRelease, TapUnclaim, TapRecord, TapClear
      <4> QED BY <4>1, <4>3, TapsTurn DEF TapKept
    <3> QED BY <2>0, <2>1, <2>2, <3>1
  <2>3. ASSUME NEW w \in Workers, Record(w), work[w].at = "record", ledger' = work[w].o
        PROVE  ledger'.by = "phone" /\ \E t \in Taps : tap'[t].at \in {"settle", "remove"}
    <3>0. work[w] # Idle
      BY <2>3 DEF Idle
    <3>1. w \in Taps \/ w = Recovery
      BY <2>0, <2>3 DEF Workers
    <3>2. w # Recovery
      BY <1>2, <3>0 DEF Tasks, WorkInv, DownInv
    <3>3. work[w].o.by = "phone" /\ tap[w].at = "settle"
      BY <3>0, <3>1, <3>2 DEF Tasks, WorkInv
    <3>4. tap' = tap
      BY <2>3 DEF Record
    <3> QED BY <2>3, <3>1, <3>2, <3>3, <3>4
  <2>4. ASSUME NEW t \in Taps, TapRecord(t), ledger' = Phone(tap[t].d, card.question)
        PROVE  ledger'.by = "phone" /\ \E u \in Taps : tap'[u].at \in {"settle", "remove"}
    BY <2>4, TapResult DEF Phone
  <2> QED BY <2>1, <2>2, <2>3, <2>4, LedgerComes
<1> QED BY <1>1, <1>2

-----------------------------------------------------------------------------
(* The card itself, and the sender it holds.                               *)

\* What a step makes of a card that stays.
EntryMoves ==
  /\ entry' \in Entries
  /\ \/ entry'.claimed = entry.claimed
     \/ \E t \in Taps : TapEntry(t) /\ Carries /\ entry'.claimed
     \/ \E t \in Taps : TapUnclaim(t) /\ ~entry'.claimed
  /\ \/ entry'.ran = entry.ran /\ entry'.rejected = entry.rejected
     \/ entry'.ran /\ entry'.rejected = entry.rejected /\ call \in Ran
     \/ /\ entry'.ran /\ ~card.question
        /\ \E w \in Workers : CallEnded(w) /\ entry'.rejected = (work[w].o.d = "refuse" /\ ~entry.ran)
  /\ entry'.resp \in {entry.resp, "none"}
  /\ entry'.resp = "none" \/ entry'.confirm \in {entry.confirm, "none"}
  /\ \A h \in Hooks : entry.resp = h /\ entry'.resp # h /\ chan'[h] = "open" =>
       (\E t \in Taps : TapHand(t)) \/ (\E g \in Hooks : SomeoneReturns(g))

\* Every step that keeps the card does that to it.
LEMMA EntryKept ==
  ASSUME Types, Sends, Tasks, [Next]_vars, Present, Present'
  PROVE  EntryMoves
<1> USE DEF Types
<1>0. /\ EntryType /\ ChanType /\ TapType /\ card \in Cards /\ (post # "no" \/ result => call \in Ran)
      /\ entry \in Entries /\ card.question \in BOOLEAN
  BY EntryShape, CardsAssumption DEF Sends, PostInv, RunType
<1>1. ASSUME UNCHANGED entry PROVE EntryMoves
  BY <1>0, <1>1 DEF EntryMoves
<1>2. ASSUME Note, call \in Ran PROVE EntryMoves
  <2>1. entry' \in Entries
    BY <1>0, <1>2, NoteMakes, EntryShape DEF EntryType, Present, NoEntry
  <2>2. CASE card.question /\ entry.confirm # "none"
    BY <1>0, <1>2, <2>1, <2>2, NoteMakes DEF EntryMoves
  <2>3. CASE ~(card.question /\ entry.confirm # "none")
    <3>1. /\ entry'.resp = "none" /\ entry'.ran /\ entry'.claimed = entry.claimed /\ entry'.rejected = entry.rejected
          /\ \A h \in Hooks : chan'[h] = IF entry.resp = h /\ chan[h] = "open"
                                    THEN (IF card.question THEN "pass" ELSE "closed") ELSE chan[h]
      BY <1>0, <1>2, <2>3, NoteMakes
    <3> QED BY <1>2, <2>1, <3>1 DEF EntryMoves
  <2> QED BY <2>2, <2>3
<1>3. ASSUME NEW w \in Workers, Moved(w) PROVE EntryMoves
  <2>1. CASE UNCHANGED <<chan, entry, work>>
    BY <1>1, <2>1
  <2>2. CASE ~UNCHANGED <<chan, entry, work>>
    <3>1. /\ entry' = [entry EXCEPT !.resp = "none"]
          /\ \A h \in Hooks : chan'[h] = IF entry.resp = h /\ chan[h] = "open" THEN "pass" ELSE chan[h]
      BY <1>0, <1>3, <2>2, MovedMakes
    <3>2. /\ entry' \in Entries /\ entry'.resp = "none" /\ entry'.claimed = entry.claimed
          /\ entry'.ran = entry.ran /\ entry'.rejected = entry.rejected /\ entry'.confirm = entry.confirm
      BY <1>0, <3>1 DEF Entries
    <3> QED BY <3>1, <3>2 DEF EntryMoves
  <2> QED BY <2>1, <2>2
<1>4. ASSUME NEW w \in Workers, CallEnded(w) PROVE EntryMoves
  <2>1. CASE ~card.question
    <3> DEFINE r == work[w].o.d = "refuse" /\ ~entry.ran
    <3>1. /\ entry' = [entry EXCEPT !.rejected = r, !.ran = TRUE, !.resp = "none"]
          /\ chan' = Close(chan, entry.resp) /\ r \in BOOLEAN
      BY <1>4, <2>1 DEF CallEnded
    <3> HIDE DEF r
    <3>2. /\ entry' \in Entries /\ entry'.resp = "none" /\ entry'.claimed = entry.claimed
          /\ entry'.ran /\ entry'.rejected = r /\ entry'.confirm = entry.confirm
      BY <1>0, <3>1 DEF Entries
    <3>3. \A h \in Hooks : chan'[h] = IF h = entry.resp /\ chan[h] = "open" THEN "closed" ELSE chan[h]
      BY <1>0, <3>1, Closes
    <3>4. \A h \in Hooks : entry.resp = h => chan'[h] # "open"
      BY <3>3
    <3>5. \E v \in Workers : CallEnded(v) /\ entry'.rejected = (work[v].o.d = "refuse" /\ ~entry.ran)
      BY <1>4, <3>2 DEF r
    <3> QED BY <2>1, <3>2, <3>4, <3>5 DEF EntryMoves
  <2>2. CASE card.question
    BY <1>1, <1>4, <2>2 DEF CallEnded
  <2> QED BY <1>0, <2>1, <2>2
<1>5. ASSUME NEW c \in Closers, CloseCard(c) PROVE EntryMoves
  <2>1. entry' = [entry EXCEPT !.resp = "none"] /\ chan' = Close(chan, entry.resp)
    BY <1>5 DEF CloseCard
  <2>2. /\ entry' \in Entries /\ entry'.resp = "none" /\ entry'.claimed = entry.claimed
        /\ entry'.ran = entry.ran /\ entry'.rejected = entry.rejected /\ entry'.confirm = entry.confirm
    BY <1>0, <2>1 DEF Entries
  <2>3. \A h \in Hooks : entry.resp = h => chan'[h] # "open"
    BY <1>0, <2>1, Closes
  <2> QED BY <2>2, <2>3 DEF EntryMoves
<1>6. ASSUME NEW c \in Closers, NEW back \in BOOLEAN, SweepScreen(c, back) PROVE EntryMoves
  <2>1. PICK n \in 0..LOCAL_RESOLVE_MISSES : entry' = [entry EXCEPT !.misses = n]
    <3> DEFINE n == IF ~back THEN 0 ELSE IF entry.misses = LOCAL_RESOLVE_MISSES THEN entry.misses
                                     ELSE entry.misses + 1
    <3>1. entry.misses \in 0..LOCAL_RESOLVE_MISSES
      BY <1>0 DEF Entries
    <3>2. n \in 0..LOCAL_RESOLVE_MISSES
      BY <3>1, BoundsAssumption
    <3> QED BY <1>6, <3>2 DEF SweepScreen
  <2>2. /\ entry' \in Entries /\ entry'.resp = entry.resp /\ entry'.claimed = entry.claimed
        /\ entry'.ran = entry.ran /\ entry'.rejected = entry.rejected /\ entry'.confirm = entry.confirm
    BY <1>0, <2>1 DEF Entries
  <2> QED BY <2>2 DEF EntryMoves
<1>7. ASSUME NEW w \in Workers, Take(w) PROVE EntryMoves
  BY <1>1, <1>7 DEF Take, Remove, Present
<1>8. ASSUME NEW h \in Hooks, Register(h) PROVE EntryMoves
  BY <1>1, <1>8 DEF Register
<1>9. ASSUME NEW h \in Hooks PROVE ~Unregister(h)
  BY DEF Unregister, Present
<1>10. ASSUME NEW h \in Hooks, SomeoneReturns(h) PROVE EntryMoves
  <2>1. entry' = [entry EXCEPT !.resp = "none"]
    BY <1>10 DEF SomeoneReturns
  <2>2. /\ entry' \in Entries /\ entry'.resp = "none" /\ entry'.claimed = entry.claimed
        /\ entry'.ran = entry.ran /\ entry'.rejected = entry.rejected /\ entry'.confirm = entry.confirm
    BY <1>0, <2>1 DEF Entries
  <2> QED BY <1>10, <2>2 DEF EntryMoves
<1>11. ASSUME NEW h \in Hooks, SetHold(h) PROVE EntryMoves
  <2>1. entry' = [entry EXCEPT !.hold = HoldOf(h)] /\ HoldOf(h) \in Holds
    BY <1>11 DEF SetHold, HoldOf, Holds
  <2>2. /\ entry' \in Entries /\ entry'.resp = entry.resp /\ entry'.claimed = entry.claimed
        /\ entry'.ran = entry.ran /\ entry'.rejected = entry.rejected /\ entry'.confirm = entry.confirm
    BY <1>0, <2>1 DEF Entries
  <2> QED BY <2>2 DEF EntryMoves
<1>12. ASSUME NEW t \in Taps, NEW b \in BOOLEAN, entry' = [entry EXCEPT !.claimed = b],
              (TapEntry(t) /\ Carries /\ b) \/ (TapUnclaim(t) /\ ~b)
       PROVE  EntryMoves
  <2>1. /\ entry' \in Entries /\ entry'.resp = entry.resp /\ entry'.claimed = b
        /\ entry'.ran = entry.ran /\ entry'.rejected = entry.rejected /\ entry'.confirm = entry.confirm
    BY <1>0, <1>12 DEF Entries
  <2> QED BY <1>12, <2>1 DEF EntryMoves
<1>13. ASSUME NEW t \in Taps, TapEntry(t) PROVE EntryMoves
  BY <1>1, <1>12, <1>13 DEF TapEntry
<1>14. ASSUME NEW t \in Taps, TapUnclaim(t) PROVE EntryMoves
  BY <1>12, <1>14 DEF TapUnclaim
<1>15. ASSUME NEW t \in Taps, TapHand(t) PROVE EntryMoves
  <2>1. entry' = [entry EXCEPT !.resp = "none", !.confirm = IF card.question THEN t ELSE @]
    BY <1>15 DEF TapHand
  <2>2. /\ entry' \in Entries /\ entry'.resp = "none" /\ entry'.claimed = entry.claimed
        /\ entry'.ran = entry.ran /\ entry'.rejected = entry.rejected
    BY <1>0, <2>1 DEF Entries
  <2> QED BY <1>15, <2>2 DEF EntryMoves
<1>16. ASSUME NEW t \in Taps PROVE ~TapSettled(t) /\ ~TapRemove(t)
  BY DEF TapSettled, TapRemove, Remove, Present
<1>17. ~Crash
  BY DEF Crash, Present
<1>18. ~Restore
  BY DEF Restore, Tasks, DownInv
<1>19. PostBegin \/ PostNote => Note /\ call \in Ran
  BY <1>0 DEF PostBegin, PostNote
<1>20. ASSUME NEW h \in Hooks, ReadBack(h) PROVE EntryMoves
  BY <1>0, <1>1, <1>2, <1>20 DEF ReadBack
<1>21. ASSUME NEW h \in Hooks, TurnOver(h) PROVE EntryMoves
  BY <1>1, <1>3, <1>21 DEF TurnOver, Workers
<1>22. ASSUME NEW c \in Closers, StopHook(c) PROVE EntryMoves
  BY <1>3, <1>22 DEF StopHook, Workers
<1> QED BY <1>1, <1>2, <1>4, <1>5, <1>6, <1>7, <1>8, <1>9, <1>10, <1>11, <1>13, <1>14, <1>15, <1>16,
           <1>17, <1>18, <1>19, <1>20, <1>21, <1>22, Frames DEF EntryActs

\* How a card leaves, its sender with it.
LEMMA EntryGoes ==
  ASSUME Types, Sends, Tasks, [Next]_vars, Present, ~Present'
  PROVE  /\ \A h \in Hooks : entry.resp = h => chan'[h] # "open"
         /\ \/ Crash \/ (\E w \in Workers : Take(w) /\ ~entry.claimed) \/ (\E h \in Hooks : Unregister(h))
            \/ \E t \in Taps : TapSettled(t) \/ TapRemove(t)
<1> USE DEF Types
<1>0. EntryType /\ ChanType /\ entry \in Entries
  BY EntryShape
<1>1. Remove => \A h \in Hooks : entry.resp = h => chan'[h] # "open"
  BY <1>0, RemoveMakes
<1>2. entry' \notin Entries
  BY EntrySet
<1>3. CASE Crash
  BY <1>3, HookCrash
<1>4. ASSUME NEW h \in Hooks, Unregister(h) PROVE \A g \in Hooks : entry.resp = g => chan'[g] # "open"
  <2>1. chan' = [Close(chan, entry.resp) EXCEPT ![h] = "dead"]
    BY <1>4 DEF Unregister
  <2> QED BY <1>0, <2>1, Closes
<1>5. CASE ~Crash /\ \A h \in Hooks : ~Unregister(h)
  <2>1. PostBegin \/ PostNote => Note /\ call \in Ran
    BY DEF PostBegin, PostNote, Sends, PostInv
  <2>2. ~(Note /\ call \in Ran)
    BY <1>0, <1>2, NoteMakes DEF RunType
  <2>3. \A h \in Hooks : ~ReadBack(h) \/ UNCHANGED entry
    BY <2>2 DEF ReadBack, Sends, PostInv
  <2>4. \A w \in Workers : ~Moved(w)
    BY <1>0, <1>2, MovedMakes
  <2>5. \A h \in Hooks : ~TurnOver(h) \/ UNCHANGED entry
    BY <2>4 DEF TurnOver, Workers
  <2>6. \A c \in Closers : ~StopHook(c)
    BY <2>4 DEF StopHook, Workers
  <2>7. UNCHANGED entry => FALSE
    BY DEF Present
  <2>8. \A x : [entry EXCEPT !.resp = "none", !.confirm = x] # NoEntry
    BY <1>0 DEF Entries, NoEntry
  <2>9. ~Restore
    BY DEF Restore, Tasks, DownInv
  <2>10. ASSUME NEW w \in Workers, CallEnded(w) PROVE FALSE
    <3>1. \/ UNCHANGED entry
          \/ entry' = [entry EXCEPT !.rejected = (work[w].o.d = "refuse" /\ ~entry.ran), !.ran = TRUE, !.resp = "none"]
      BY <2>10 DEF CallEnded
    <3>2. entry' = NoEntry
      BY DEF Present
    <3>3. [entry EXCEPT !.rejected = (work[w].o.d = "refuse" /\ ~entry.ran), !.ran = TRUE, !.resp = "none"] # NoEntry
      BY <1>0 DEF Entries, NoEntry
    <3> QED BY <2>7, <3>1, <3>2, <3>3
  <2>11. entry' = NoEntry
    BY DEF Present
  <2>12. ASSUME NEW c \in Closers PROVE ~CloseCard(c) /\ \A back \in BOOLEAN : ~SweepScreen(c, back)
    <3>1. [entry EXCEPT !.resp = "none"] # NoEntry /\ \A n : [entry EXCEPT !.misses = n] # NoEntry
      BY <1>0 DEF Entries, NoEntry
    <3> QED BY <2>11, <3>1 DEF CloseCard, SweepScreen
  <2>13. ASSUME NEW h \in Hooks PROVE ~Register(h) /\ ~SomeoneReturns(h) /\ ~SetHold(h)
    <3>1. [entry EXCEPT !.resp = "none"] # NoEntry /\ \A n : [entry EXCEPT !.hold = n] # NoEntry
      BY <1>0 DEF Entries, NoEntry, Holds
    <3> QED BY <2>7, <2>11, <3>1 DEF Register, SomeoneReturns, SetHold
  <2>14. ASSUME NEW t \in Taps PROVE ~TapEntry(t) /\ ~TapHand(t) /\ ~TapUnclaim(t)
    <3>1. \A b : [entry EXCEPT !.claimed = b] # NoEntry
      BY <1>0 DEF Entries, NoEntry
    <3> QED BY <2>7, <2>8, <2>11, <3>1 DEF TapEntry, TapHand, TapUnclaim
  <2>15. ASSUME NEW w \in Workers, Take(w) PROVE Remove /\ ~entry.claimed
    BY <2>7, <2>15 DEF Take
  <2>16. \A t \in Taps : TapSettled(t) \/ TapRemove(t) => Remove
    BY DEF TapSettled, TapRemove
  <2> QED BY <1>1, <1>5, <2>1, <2>2, <2>3, <2>5, <2>6, <2>7, <2>9, <2>10, <2>12, <2>13, <2>14, <2>15, <2>16, Frames
          DEF EntryActs
<1> QED BY <1>3, <1>4, <1>5

\* A card that comes is unclaimed, open and unconfirmed.
LEMMA EntryNew ==
  ASSUME Types, Sends, [Next]_vars, ~Present, Present'
  PROVE  ~entry'.claimed /\ ~entry'.ran /\ ~entry'.rejected /\ entry'.confirm = "none"
<1>1. ASSUME Restore PROVE ~entry'.claimed /\ ~entry'.ran /\ ~entry'.rejected /\ entry'.confirm = "none"
  <2>1. PICK x : entry' = [hold |-> x, resp |-> "none", claimed |-> FALSE, ran |-> FALSE,
                       rejected |-> FALSE, confirm |-> "none", misses |-> 0]
    BY <1>1 DEF Restore, Present
  <2> QED BY <2>1
<1>2. ASSUME NEW h \in Hooks, Register(h)
      PROVE  ~entry'.claimed /\ ~entry'.ran /\ ~entry'.rejected /\ entry'.confirm = "none"
  <2>1. PICK x, y : entry' = [hold |-> x, resp |-> y, claimed |-> FALSE, ran |-> FALSE,
                       rejected |-> FALSE, confirm |-> "none", misses |-> 0]
    BY <1>2 DEF Register
  <2> QED BY <2>1
<1> QED BY <1>1, <1>2, EntryAppears

\* The sender of a filed hook's open channel is in the card, or in the hand of a tap.
InHand(h) == \E t \in Taps : tap[t].at = "send" /\ tap[t].resp = h
Held(h) == Present /\ entry.resp = h
HolderInv ==
  /\ Present /\ entry.confirm # "none" => entry.resp = "none"
  /\ \A h \in Hooks :
       /\ hook[h].at \in {"read", "turn", "ended", "persist", "wait"} /\ chan[h] = "open" => Held(h) \/ InHand(h)
       /\ hook[h].at = "write" /\ ~asked /\ chan[h] = "open" => Held(h)
       /\ hook[h].at \in {"turn", "ended", "persist", "wait"} /\ chan[h] = "open" /\ result =>
            post = "filed" \/ InHand(h) \/ hook[h].missed

\* A tap that has the sender keeps it until it sends.
LEMMA HandKept ==
  ASSUME Types, Sends, [Next]_vars, NEW h \in Hooks, InHand(h), chan'[h] = "open"
  PROVE  \E t \in Taps : tap'[t].at = "send" /\ tap'[t].resp = h
<1>1. PICK t \in Taps : tap[t].at = "send" /\ tap[t].resp = h
  BY DEF InHand
<1>2. ~Crash
  BY HookCrash
<1>3. ~TapSend(t)
  <2>1. SUFFICES ASSUME TapSend(t) PROVE FALSE
    OBVIOUS
  <2>2. tap[t].d # "open"
    BY DEF Types, TapType, TapRec, Decisions
  <2> QED BY <1>1, <2>1, <2>2, SendEffect
<1>4. ~TapTurn(t)
  BY <1>1, <1>3 DEF TapTurn, TapStep, TapBegin, TapLedger, TapEntry, TapClaim, TapHand, TapConfirm,
                    TapRelease, TapUnclaim, TapSettled, TapRecord, TapRemove, TapClear
<1> QED BY <1>1, <1>2, <1>4, TapsTurn DEF TapKept

\* An open channel was open, or is new.
LEMMA OpenBefore ==
  ASSUME Types, Sends, [Next]_vars, NEW h \in Hooks, chan'[h] = "open"
  PROVE  ~Crash /\ (chan[h] = "open" \/ (hook[h].at = "register" /\ hook'[h].at = "write"))
<1>1. ~Crash
  BY HookCrash
<1>2. CASE \A t \in Taps : ~TapSend(t)
  BY <1>1, <1>2, CardEffect DEF CardMoves, ChanMoves
<1>3. ASSUME NEW t \in Taps, TapSend(t) PROVE chan[h] = "open"
  <2>1. tap[t].d # "open"
    BY DEF Types, TapType, TapRec, Decisions
  <2> QED BY <1>3, <2>1, SendEffect
<1> QED BY <1>1, <1>2, <1>3

\* The sender in the card goes from there to a tap's hand only, while the channel is open.
LEMMA HeldKept ==
  ASSUME Types, Sends, Tasks, First, [Next]_vars, NEW h \in Hooks, Held(h), chan'[h] = "open",
         hook'[h].at \in {"write", "read", "turn", "ended", "persist", "wait"}, ~asked \/ hook[h].at \in PastWrite
  PROVE  (Present' /\ entry'.resp = h) \/ \E t \in Taps : tap'[t].at = "send" /\ tap'[t].resp = h
<1>1. Present'
  BY EntryGoes DEF Held
<1>2. EntryMoves
  BY <1>1, EntryKept DEF Held
<1>3. ASSUME NEW t \in Taps, TapHand(t) PROVE tap'[t].at = "send" /\ tap'[t].resp = h
  BY <1>3, TapResult, Names DEF Held
<1>4. ASSUME NEW g \in Hooks, SomeoneReturns(g) PROVE FALSE
  <2>1. hook[g].at = "wait"
    BY <1>4 DEF SomeoneReturns
  <2>2. g = h
    BY <2>1 DEF First, FirstInv, OnePast, PastWrite
  <2>3. hook'[h].at = "back"
    BY <1>4, <2>2, HookAt DEF SomeoneReturns, HookStates, Types
  <2> QED BY <2>3
<1> QED BY <1>1, <1>2, <1>3, <1>4 DEF EntryMoves, Held

\* Whoever notes the result of the call lets the hook go that the card holds.
LEMMA NoteFrees ==
  ASSUME Types, Sends, HolderInv, call \in Ran, Note, NEW h \in Hooks, Held(h)
  PROVE  chan'[h] # "open"
<1>1. EntryType /\ ChanType /\ TapType /\ card \in Cards
  BY DEF Types, RunType
<1>2. ~(card.question /\ entry.confirm # "none")
  BY Names DEF HolderInv, Held
<1>3. chan'[h] = IF entry.resp = h /\ chan[h] = "open" THEN (IF card.question THEN "pass" ELSE "closed") ELSE chan[h]
  BY <1>1, <1>2, NoteMakes DEF Held
<1> QED BY <1>3 DEF Held

\* No step loses the sender of an open channel.
LEMMA HolderStep ==
  ASSUME Types, Sends, Tasks, First, HolderInv, [Next]_vars
  PROVE  HolderInv'
<1>1. ASSUME Present', entry'.confirm # "none" PROVE entry'.resp = "none"
  <2>1. Present
    BY <1>1, EntryNew
  <2>2. EntryMoves
    BY <1>1, <2>1, EntryKept
  <2> QED BY <1>1, <2>1, <2>2 DEF EntryMoves, HolderInv
<1>2. ASSUME NEW h \in Hooks, hook'[h].at = "write", ~asked', chan'[h] = "open" PROVE Present' /\ entry'.resp = h
  <2>0. ~Crash /\ ~asked
    BY <1>2, OpenBefore, AskedStays
  <2>1. CASE Register(h)
    <3>1. hook[h].at = "register" /\ hook[h].held
      BY <1>2, <2>1 DEF Register, Types, ChanType
    <3>2. ~Present
      BY <2>0, <3>1 DEF First, FirstInv
    <3>3. PICK x : entry' = [hold |-> x, resp |-> h, claimed |-> FALSE, ran |-> FALSE,
                       rejected |-> FALSE, confirm |-> "none", misses |-> 0]
      BY <2>1, <3>1, <3>2 DEF Register
    <3>4. entry'.resp = h /\ entry' # NoEntry
      BY <3>3 DEF NoEntry
    <3> QED BY <3>4 DEF Present
  <2>2. CASE ~Register(h)
    <3>1. hook[h].at = "write"
      BY <1>2, <2>0, <2>2, HookTurns DEF HookMoves, HookComes
    <3>2. chan[h] = "open"
      BY <1>2, <3>1, OpenBefore
    <3>3. Held(h)
      BY <2>0, <3>1, <3>2 DEF HolderInv
    <3>4. \A t \in Taps : tap[t].at = "idle"
      BY <2>0 DEF First, FirstInv
    <3>5. \A t \in Taps : tap'[t].at # "send"
      BY <1>2, <3>4, SentKept, AskedStays DEF TapHand
    <3> QED BY <1>2, <2>0, <3>3, <3>5, HeldKept
  <2> QED BY <2>1, <2>2
<1>3. ASSUME NEW h \in Hooks, hook'[h].at \in {"read", "turn", "ended", "persist", "wait"}, chan'[h] = "open"
      PROVE  (Present' /\ entry'.resp = h) \/ \E t \in Taps : tap'[t].at = "send" /\ tap'[t].resp = h
  <2>0. ~Crash /\ chan[h] = "open"
    BY <1>3, OpenBefore
  <2>1. CASE WriteCard(h) /\ ~asked /\ UNCHANGED <<entry, chan>>
    <3>1. Held(h)
      BY <2>0, <2>1 DEF WriteCard, HolderInv
    <3> QED BY <2>1, <3>1 DEF Held, Present
  <2>2. CASE hook[h].at \in PastWrite
    <3>1. hook[h].at \in {"read", "turn", "ended", "persist", "wait"}
      <4>1. hook[h].at \notin {"back", "back_row", "gone", "gone_hold", "gone_row"}
        <5> SUFFICES ASSUME hook[h].at \in {"back", "back_row", "gone", "gone_hold", "gone_row"} PROVE FALSE
          OBVIOUS
        <5>1. hook'[h].at \in {"back", "back_row", "gone", "gone_hold", "gone_row", "returned"}
          BY <2>0, HookTurns DEF HookMoves, HookComes
        <5> QED BY <1>3, <5>1
      <4> QED BY <2>2, <4>1 DEF PastWrite
    <3>2. Held(h) \/ InHand(h)
      BY <2>0, <3>1 DEF HolderInv
    <3> QED BY <1>3, <2>2, <3>2, HandKept, HeldKept
  <2>3. hook[h].at \in PastWrite \/ (WriteCard(h) /\ ~asked /\ UNCHANGED <<entry, chan>>)
    BY <1>3, <2>0, HookTurns DEF HookMoves, HookComes, PastWrite
  <2> QED BY <2>1, <2>2, <2>3
<1>4. ASSUME NEW h \in Hooks, hook'[h].at \in {"turn", "ended", "persist", "wait"}, chan'[h] = "open", result'
      PROVE  post' = "filed" \/ hook'[h].missed \/ \E t \in Taps : tap'[t].at = "send" /\ tap'[t].resp = h
  <2>0. ~Crash /\ chan[h] = "open"
    BY <1>4, OpenBefore
  <2>1. CASE PostFile
    <3>1. CASE result
      <4>1. hook' = hook
        BY <2>1 DEF PostFile, ramVars
      <4>2. post = "filed" \/ InHand(h) \/ hook[h].missed
        BY <1>4, <2>0, <3>1, <4>1 DEF HolderInv
      <4>3. post # "filed"
        BY <2>1 DEF PostFile
      <4> QED BY <1>4, <4>1, <4>2, <4>3, HandKept
    <3>2. CASE ~result
      BY <1>4, <2>1, <3>2 DEF PostFile
    <3> QED BY <3>1, <3>2
  <2>2. CASE ~PostFile
    <3>1. result
      <4>1. Restore \/ (\E w \in Workers : Announce(w)) \/ (\E t \in Taps : TapClear(t)) => result' = result
        BY DEF Restore, Announce, TapClear, logVars
      <4>2. (\E k \in Hooks : WriteCard(k) \/ Persist(k) \/ HoldRow(k)) => result' = result
        BY DEF WriteCard, Persist, HoldRow, logVars
      <4> QED BY <1>4, <2>2, <4>1, <4>2, Frames DEF LogActs
    <3>2. call \in Ran
      BY <3>1 DEF Sends, PostInv
    <3>3. CASE ReadBack(h)
      <4>1. (Note \/ hook'[h].missed) /\ hook[h].at = "read"
        BY <3>1, <3>3, ReadBackMakes DEF Types
      <4>2. Held(h) \/ InHand(h)
        BY <2>0, <4>1 DEF HolderInv
      <4> QED BY <1>4, <3>2, <4>1, <4>2, NoteFrees, HandKept
    <3>4. CASE ~ReadBack(h)
      <4>1. hook[h].at \in {"turn", "ended", "persist", "wait"} /\ hook'[h].missed = hook[h].missed
        BY <1>4, <2>0, <3>4, HookTurns DEF HookMoves, HookComes
      <4>2. post = "filed" \/ InHand(h) \/ hook[h].missed
        BY <2>0, <3>1, <4>1 DEF HolderInv
      <4>3. CASE InHand(h)
        BY <1>4, <4>3, HandKept
      <4>4. CASE PostNote
        <5>1. Held(h) \/ InHand(h)
          BY <2>0, <4>1 DEF HolderInv
        <5>2. Note
          BY <4>4 DEF PostNote
        <5> QED BY <1>4, <3>2, <5>1, <5>2, NoteFrees, HandKept
      <4>5. CASE post = "filed" /\ ~PostNote
        <5>1. ~PostBegin /\ ~PostLost
          BY <4>5 DEF PostBegin, PostLost
        <5>2. \A c \in Closers : TailRead(c) \/ StopHook(c) \/ RunExits(c) => post' = post
          BY DEF TailRead, StopHook, RunExits
        <5> QED BY <2>0, <2>2, <4>5, <5>1, <5>2, Frames DEF NewsActs
      <4> QED BY <4>1, <4>2, <4>3, <4>4, <4>5
    <3> QED BY <3>3, <3>4
  <2> QED BY <2>1, <2>2
<1> QED BY <1>1, <1>2, <1>3, <1>4 DEF HolderInv, Held, InHand

-----------------------------------------------------------------------------
(* What is recorded as observed has happened.                              *)

\* An outcome that is neither inferred nor indeterminate is how the call went.
Happened(c, o) == o.sure => c \in (IF o.d = "take" THEN Ran ELSE {"rejected"})
\* A task that is about to say that the call was rejected, and a hook that is to say so.
Rejection(w) == work[w].at = "ended" /\ work[w].o.d = "refuse"
Rejected(h) == hook[h].seen = "rejected"

TrueInv ==
  /\ \A w \in Workers : work[w] # Idle => /\ Happened(call, work[w].o)
                                          /\ work[w].at = "ended" => work[w].o.sure
  /\ ledger # NoOutcome => Happened(call, ledger)
  /\ \A t \in Taps : tap[t].at = "record" /\ card.question => call = "take" /\ tap[t].d = "take"
  /\ Present /\ entry.rejected => call = "rejected"
  /\ Present /\ entry.ran /\ (card.question \/ ~entry.rejected) => call \in Ran
SeenInv ==
  /\ \A h \in Hooks : /\ Rejected(h) => call = "rejected"
                      /\ hook[h].seen = "ran" => call \in Ran
                      /\ hook[h].at = "idle" => hook[h].seen = "open"
  /\ keyed.rejected => call = "rejected"
  /\ keyed.ended /\ ~keyed.rejected /\ ~asked /\ (\A h \in Hooks : hook[h].at = "idle") => call \in Ran

\* A rejection is told once: by one task, to the card or to the call's memory, and from there
\* by the first hook.  Told twice, an ordinary card would take the call for one that ran.
TokenInv ==
  /\ ~tailed => /\ ~keyed.rejected /\ ~(Present /\ entry.rejected)
                /\ \A h \in Hooks : ~Rejected(h)
                /\ \A w \in Workers : ~Rejection(w)
  /\ \A w, v \in Workers : Rejection(w) /\ Rejection(v) => w = v
  /\ \A g, h \in Hooks : Rejected(g) /\ Rejected(h) => g = h
  /\ \A w \in Workers, h \in Hooks : ~(Rejection(w) /\ Rejected(h))
  /\ \A w \in Workers : Rejection(w) => ~(Present /\ entry.rejected)
  /\ \A h \in Hooks : Rejected(h) => ~(Present /\ entry.rejected)
  /\ \A c \in Closers : Rejection(c) => ~keyed.rejected
Truth == TrueInv /\ SeenInv /\ TokenInv

\* A task that has been told how the call went.
Ended(d) == [at |-> "ended", o |-> Local(d, TRUE)]
OutcomeMoves(w) ==
  \/ work'[w] = work[w]
  \/ work'[w] = Idle
  \/ work[w] # Idle /\ work'[w].o = work[w].o /\ work'[w].at # "ended"
  \/ ~work'[w].o.sure /\ work'[w].at # "ended"
  \/ w \in Closers /\ TailRead(w) /\ work'[w] = Ended(IF call = "rejected" THEN "refuse" ELSE "take")
  \/ /\ w \in Closers /\ SweepRan(w) /\ work'[w].at # "ended"
     /\ work'[w].o = Local(IF entry.rejected /\ ~card.question THEN "refuse" ELSE "take", TRUE)
  \/ w \in Hooks /\ SeenEnded(w) /\ work'[w] = Ended(IF Rejected(w) THEN "refuse" ELSE "take")

\* The outcome a task writes is the one it had, is not sure, or is what the transcript, the card
\* or the hook says.
LEMMA OutcomeComes ==
  ASSUME Types, [Next]_vars
  PROVE  \A w \in Workers : OutcomeMoves(w)
<1> DEFINE Goal == \A w \in Workers : OutcomeMoves(w)
<1>0. /\ WorkType /\ Idle.at = "idle" /\ \A d : ~Local(d, FALSE).sure /\ ~Phone(d, FALSE).sure
      /\ Hooks \subseteq Workers /\ Closers \subseteq Workers /\ Taps \subseteq Workers /\ Recovery \in Workers
  BY DEF Types, Idle, Workers, Local, Phone
<1>1. ASSUME NEW v \in Workers, NEW x, work' = [work EXCEPT ![v] = x]
      PROVE  work'[v] = x /\ \A w \in Workers : w # v => OutcomeMoves(w)
  BY <1>0, <1>1 DEF WorkType, OutcomeMoves
<1>2. ASSUME UNCHANGED work PROVE Goal
  BY <1>2 DEF OutcomeMoves
<1>3. ASSUME NEW v \in Workers, work' = [work EXCEPT ![v] = Idle] PROVE Goal
  BY <1>1, <1>3 DEF OutcomeMoves
<1>4. ASSUME NEW v \in Workers, NEW a, NEW o, a # "ended", work' = [work EXCEPT ![v] = [at |-> a, o |-> o]],
             ~o.sure \/ (work[v] # Idle /\ o = work[v].o)
      PROVE  Goal
  <2> DEFINE x == [at |-> a, o |-> o]
  <2>0. x.at = a /\ x.o = o /\ work' = [work EXCEPT ![v] = x]
    BY <1>4
  <2> HIDE DEF x
  <2>1. work'[v].at # "ended" /\ work'[v].o = o
    BY <1>1, <1>4, <2>0
  <2>2. OutcomeMoves(v)
    BY <1>4, <2>1 DEF OutcomeMoves
  <2> QED BY <1>1, <2>0, <2>2
<1>5. ASSUME NEW v \in Workers, NEW d, Closing(v, Local(d, FALSE)) PROVE Goal
  BY <1>0, <1>4, <1>5 DEF Closing
<1>6. ASSUME NEW v \in Workers, NEW d, Settling(v, d) PROVE Goal
  BY <1>0, <1>4, <1>6 DEF Settling
<1>7. ASSUME NEW v \in Workers, Moved(v) PROVE Goal
  BY <1>2, <1>5, <1>7 DEF Moved
<1>8. ASSUME NEW v \in Workers, NEW a, a # "ended", work[v] # Idle, work' = [work EXCEPT ![v].at = a] PROVE Goal
  <2>1. work[v] \in WorkRec
    BY <1>0, <1>8 DEF WorkType
  <2>2. [work[v] EXCEPT !.at = a] = [at |-> a, o |-> work[v].o]
    BY <2>1 DEF WorkRec
  <2> DEFINE o == work[v].o
  <2>3. work' = [work EXCEPT ![v] = [at |-> a, o |-> o]] /\ o = work[v].o
    BY <1>8, <2>2
  <2> HIDE DEF o
  <2> QED BY <1>4, <1>8, <2>3
<1>9. ASSUME NEW c \in Closers, TailRead(c) PROVE Goal
  <2>1. work' = [work EXCEPT ![c] = Ended(IF call = "rejected" THEN "refuse" ELSE "take")]
    BY <1>9 DEF TailRead, Ended
  <2>2. OutcomeMoves(c)
    BY <1>0, <1>1, <1>9, <2>1 DEF OutcomeMoves
  <2> QED BY <1>0, <1>1, <2>1, <2>2
<1>10. ASSUME NEW v \in Workers, CallEnded(v) PROVE Goal
  <2>1. work[v] # Idle
    BY <1>0, <1>10 DEF CallEnded
  <2>2. Closing(v, work[v].o) \/ work' = [work EXCEPT ![v] = Idle]
    BY <1>10 DEF CallEnded
  <2> QED BY <1>3, <1>4, <2>1, <2>2 DEF Closing
<1>11. ASSUME NEW c \in Closers, StopHook(c) PROVE Goal
  BY <1>0, <1>7, <1>11 DEF StopHook
<1>12. ASSUME NEW c \in Closers, RunExits(c) PROVE Goal
  <2>1. \/ work' = [work EXCEPT ![c] = [at |-> "gate", o |-> Local("refuse", FALSE)]]
        \/ work' = [work EXCEPT ![c] = Idle]
    BY <1>12 DEF RunExits
  <2> QED BY <1>0, <1>3, <1>4, <2>1
<1>13. ASSUME NEW c \in Closers, CloseCard(c) PROVE Goal
  <2>1. work[c] # Idle
    BY <1>0, <1>13 DEF CloseCard
  <2>2. Closing(c, work[c].o) \/ work' = [work EXCEPT ![c] = Idle]
    BY <1>13 DEF CloseCard
  <2> QED BY <1>0, <1>3, <1>4, <2>1, <2>2 DEF Closing
<1>14. ASSUME NEW c \in Closers, Expire(c) PROVE Goal
  BY <1>0, <1>5, <1>14 DEF Expire
<1>15. ASSUME NEW c \in Closers, SweepRan(c) PROVE Goal
  <2> DEFINE o == Local(IF entry.rejected /\ ~card.question THEN "refuse" ELSE "take", TRUE)
             x == [at |-> "take", o |-> o]
  <2>1. work' = [work EXCEPT ![c] = x] /\ x.at # "ended" /\ x.o = o
    BY <1>15 DEF SweepRan, Closing
  <2> HIDE DEF x
  <2>2. OutcomeMoves(c)
    BY <1>0, <1>1, <1>15, <2>1 DEF OutcomeMoves
  <2> QED BY <1>0, <1>1, <2>1, <2>2
<1>16. ASSUME NEW c \in Closers, NEW back \in BOOLEAN, SweepScreen(c, back) PROVE Goal
  BY <1>0, <1>2, <1>5, <1>16 DEF SweepScreen
<1>17. ASSUME NEW v \in Workers, Take(v) PROVE Goal
  <2>1. work[v] # Idle
    BY <1>0, <1>17 DEF Take
  <2>2. work' = [work EXCEPT ![v].at = "record"] \/ work' = [work EXCEPT ![v] = Idle]
    BY <1>17 DEF Take
  <2> QED BY <1>3, <1>8, <2>1, <2>2
<1>18. ASSUME NEW v \in Workers, Record(v) PROVE Goal
  <2>1. work[v] # Idle
    BY <1>0, <1>18 DEF Record
  <2>2. work' = [work EXCEPT ![v].at = "announce"] \/ work' = [work EXCEPT ![v] = Idle]
    BY <1>18 DEF Record
  <2> QED BY <1>3, <1>8, <2>1, <2>2
<1>19. ASSUME NEW v \in Workers, Announce(v) PROVE Goal
  BY <1>3, <1>19 DEF Announce
<1>20. ASSUME NEW h \in Hooks, TurnOver(h) PROVE Goal
  BY <1>0, <1>2, <1>7, <1>20 DEF TurnOver
<1>21. ASSUME NEW h \in Hooks, SeenEnded(h) PROVE Goal
  <2>1. work' = [work EXCEPT ![h] = Ended(IF Rejected(h) THEN "refuse" ELSE "take")]
    BY <1>21 DEF SeenEnded, Ended, Rejected
  <2>2. OutcomeMoves(h)
    BY <1>0, <1>1, <1>21, <2>1 DEF OutcomeMoves
  <2> QED BY <1>0, <1>1, <2>1, <2>2
<1>22. ASSUME NEW h \in Hooks, NEW current \in BOOLEAN, HookEnded(h, current) PROVE Goal
  BY <1>0, <1>2, <1>5, <1>22 DEF HookEnded
<1>23. ASSUME NEW t \in Taps, TapLedger(t) \/ TapConfirm(t) PROVE Goal
  BY <1>0, <1>2, <1>6, <1>23 DEF TapLedger, TapConfirm
<1>24. ASSUME Crash PROVE Goal
  BY <1>24 DEF Crash, OutcomeMoves
<1>25. ASSUME RecoverClaim PROVE Goal
  <2>1. UNCHANGED work \/ work' = [work EXCEPT ![Recovery] = [at |-> "record", o |-> Phone(claim, FALSE)]]
    BY <1>25 DEF RecoverClaim
  <2> QED BY <1>0, <1>2, <1>4, <2>1
<1> QED BY <1>2, <1>9, <1>10, <1>11, <1>12, <1>13, <1>14, <1>15, <1>16, <1>17, <1>18, <1>19, <1>20, <1>21,
           <1>22, <1>23, <1>24, <1>25, Frames DEF WorkActs

\* A task told that the call was rejected was told by the transcript or by its hook; the same
\* step tells no other.
LEMMA RejectionComes ==
  ASSUME Types, [Next]_vars, NEW w \in Workers, work'[w].at = "ended", work'[w].o.d = "refuse"
  PROVE  \/ Rejection(w) /\ ~CallEnded(w)
         \/ /\ w \in Closers /\ TailRead(w) /\ ~tailed /\ tailed'
            /\ \A v \in Workers : v # w => work'[v] = work[v]
         \/ /\ w \in Hooks /\ SeenEnded(w) /\ Rejected(w) /\ hook'[w].seen = "open"
            /\ \A v \in Workers : v # w => work'[v] = work[v]
<1>0. WorkType /\ Idle.at = "idle" /\ HookType
  BY DEF Types, Idle
<1>1. \A d : Ended(d).o.d = d
  BY DEF Ended, Local
<1>2. CASE work'[w] = work[w]
  <2>1. CallEnded(w) => work'[w].at # "ended"
    <3> SUFFICES ASSUME CallEnded(w) PROVE work'[w].at # "ended"
      OBVIOUS
    <3>1. \/ work' = [work EXCEPT ![w] = [at |-> "take", o |-> work[w].o]]
          \/ work' = [work EXCEPT ![w] = Idle]
      BY DEF CallEnded, Closing
    <3> QED BY <1>0, <3>1 DEF WorkType
  <2> QED BY <1>2, <2>1 DEF Rejection
<1>3. CASE w \in Closers /\ TailRead(w)
  <2>1. ~tailed /\ tailed' /\ \E x : work' = [work EXCEPT ![w] = x]
    BY <1>3 DEF TailRead
  <2> QED BY <1>0, <1>3, <2>1 DEF WorkType
<1>4. CASE w \in Hooks /\ SeenEnded(w) /\ work'[w] = Ended(IF Rejected(w) THEN "refuse" ELSE "take")
  <2>1. hook' = [hook EXCEPT ![w] = [hook[w] EXCEPT !.seen = "open"]] /\ \E x : work' = [work EXCEPT ![w] = x]
    BY <1>4 DEF SeenEnded
  <2>2. hook[w] \in HookRec /\ hook'[w] = [hook[w] EXCEPT !.seen = "open"]
    BY <1>0, <1>4, <2>1 DEF HookType
  <2>3. hook'[w].seen = "open"
    BY <2>2 DEF HookRec
  <2>4. Rejected(w)
    BY <1>1, <1>4
  <2> QED BY <1>0, <1>4, <2>1, <2>3, <2>4 DEF WorkType
<1> QED BY <1>0, <1>2, <1>3, <1>4, OutcomeComes DEF OutcomeMoves

\* What a hook knows of its call changes when it arrives, when it says so, and when it ends.
SeenMoves(h) ==
  \/ hook'[h].seen \in {hook[h].seen, "open"}
  \/ \E held \in BOOLEAN : /\ Arrive(h, held) /\ ~asked /\ keyed.ended
                           /\ hook'[h].seen = IF keyed.rejected THEN "rejected" ELSE "ran"
                           /\ \A g \in Hooks : g # h => hook'[g] = hook[g]

\* ... which holds of every hook and every step.
LEMMA SeenComes ==
  ASSUME Types, Sends, [Next]_vars
  PROVE  \A h \in Hooks : SeenMoves(h)
<1> USE DEF Types
<1>0. HookType /\ ChanType /\ \A h \in Hooks : hook[h] \in HookRec
  BY DEF HookType
<1>1. ASSUME UNCHANGED hook PROVE \A h \in Hooks : SeenMoves(h)
  BY <1>1 DEF SeenMoves
<1>2. ASSUME NEW h \in Hooks, NEW a \in HookStates, At(h, a) PROVE \A g \in Hooks : SeenMoves(g)
  BY <1>0, <1>2, HookAt DEF SeenMoves
<1>3. ASSUME NEW h \in Hooks, NEW x \in HookRec, hook' = [hook EXCEPT ![h] = x], x.seen \in {hook[h].seen, "open"}
      PROVE  \A g \in Hooks : SeenMoves(g)
  BY <1>0, <1>3, HookSet DEF SeenMoves
<1>4. ASSUME NEW h \in Hooks, Return(h, "pass") PROVE \A g \in Hooks : SeenMoves(g)
  BY <1>0, <1>4, HookReturns DEF SeenMoves
<1> USE DEF HookStates
<1>5. ASSUME NEW h \in Hooks, ClaudeReads(h) PROVE \A g \in Hooks : SeenMoves(g)
  BY <1>3, <1>5, OverShape DEF ClaudeReads
<1>6. ASSUME NEW h \in Hooks, NEW held \in BOOLEAN, Arrive(h, held) PROVE \A g \in Hooks : SeenMoves(g)
  BY <1>0, <1>6, ArriveMakes DEF SeenMoves
<1>7. ASSUME NEW h \in Hooks, Register(h) PROVE \A g \in Hooks : SeenMoves(g)
  <2> DEFINE x == [hook[h] EXCEPT !.at = "write", !.reg = ~Present]
  <2>1. x \in HookRec /\ x.seen = hook[h].seen
    BY <1>0 DEF HookRec
  <2>2. hook' = [hook EXCEPT ![h] = x]
    BY <1>7 DEF Register, HookType
  <2> HIDE DEF x
  <2> QED BY <1>3, <2>1, <2>2
<1>8. ASSUME NEW h \in Hooks, WriteCard(h) PROVE \A g \in Hooks : SeenMoves(g)
  BY <1>2, <1>4, <1>8 DEF WriteCard
<1>9. ASSUME NEW h \in Hooks, Unregister(h) PROVE \A g \in Hooks : SeenMoves(g)
  BY <1>3, <1>9, ReturnedShape DEF Unregister
<1>10. ASSUME NEW h \in Hooks, ReadBack(h) \/ TurnOver(h) \/ SomeoneReturns(h) PROVE \A g \in Hooks : SeenMoves(g)
  <2>1. CASE ReadBack(h)
    BY <1>0, <2>1, ReadBackMakes DEF SeenMoves
  <2> QED BY <1>2, <1>10, <2>1 DEF TurnOver, SomeoneReturns
<1>11. ASSUME NEW h \in Hooks, SeenEnded(h) PROVE \A g \in Hooks : SeenMoves(g)
  <2> DEFINE x == [hook[h] EXCEPT !.seen = "open"]
  <2>1. x \in HookRec /\ x.seen = "open" /\ hook' = [hook EXCEPT ![h] = x]
    BY <1>0, <1>11 DEF HookRec, SeenEnded
  <2> HIDE DEF x
  <2> QED BY <1>3, <2>1
<1>12. ASSUME NEW h \in Hooks, StillOpen(h) \/ Persist(h) PROVE \A g \in Hooks : SeenMoves(g)
  BY <1>2, <1>4, <1>12 DEF StillOpen, Persist
<1>13. ASSUME NEW h \in Hooks, Answered(h) PROVE \A g \in Hooks : SeenMoves(g)
  <2>1. PICK v \in {"none", "pass"} \cup Decisions : hook' = [hook EXCEPT ![h] = Returned(v)]
    <3>1. chan[h] \in ChanStates /\ hook[h].at \in Listening
      BY <1>0, <1>13 DEF ChanType, Answered, Listening
    <3>2. chan[h] # "dead"
      BY <3>1 DEF Sends, HookChan
    <3> QED BY <1>13, <3>1, <3>2 DEF Answered, Return, ChanStates
  <2> QED BY <1>3, <2>1, ReturnedShape
<1>14. ASSUME NEW h \in Hooks, Gone(h) \/ SetHold(h) PROVE \A g \in Hooks : SeenMoves(g)
  BY <1>2, <1>4, <1>14 DEF Gone, SetHold
<1>15. ASSUME NEW h \in Hooks, HoldRow(h) \/ \E current \in BOOLEAN : HookEnded(h, current)
       PROVE  \A g \in Hooks : SeenMoves(g)
  BY <1>2, <1>4, <1>15 DEF HoldRow, HookEnded
<1>16. ASSUME Crash PROVE \A g \in Hooks : SeenMoves(g)
  <2>1. \A g \in Hooks : hook'[g] \in {hook[g], [Fresh EXCEPT !.at = "over"]}
    BY <1>16 DEF Crash
  <2> QED BY <2>1, OverShape DEF SeenMoves
<1> QED BY <1>1, <1>5, <1>6, <1>7, <1>8, <1>9, <1>10, <1>11, <1>12, <1>13, <1>14, <1>15, <1>16, Frames DEF HookActs

\* What a step makes of the call's memory.
LEMMA KeyedComes ==
  ASSUME Types, Sends, First, [Next]_vars
  PROVE  \/ keyed' = keyed
         \/ ~keyed'.ended /\ ~keyed'.rejected
         \/ /\ keyed'.rejected = keyed.rejected
            /\ call \in Ran \/ asked \/ \E w \in Workers : work[w].at = "take"
         \/ \E w \in Workers : /\ CallEnded(w) /\ work[w].at = "ended"
                               /\ keyed'.rejected => work[w].o.d = "refuse"
                               /\ keyed'.ended /\ ~keyed'.rejected => work[w].o.d # "refuse"
<1>0. keyed \in [joined : BOOLEAN, ended : BOOLEAN, rejected : BOOLEAN]
  BY DEF Types, NewsType
<1>1. EndCall => keyed'.rejected = keyed.rejected
  BY <1>0 DEF EndCall
<1>2. Crash => ~keyed'.ended /\ ~keyed'.rejected
  <2>1. Crash => keyed' = [joined |-> FALSE, ended |-> FALSE, rejected |-> FALSE]
    BY DEF Crash
  <2> QED BY <2>1
<1>3. PostNote => EndCall /\ call \in Ran
  BY DEF PostNote, Sends, PostInv
<1>4. \A w \in Workers : Take(w) => (EndCall /\ work[w].at = "take") \/ keyed' = keyed
  BY DEF Take
<1>5. \A h \in Hooks : ReadBack(h) => (EndCall /\ call \in Ran) \/ keyed' = keyed
  BY DEF ReadBack, Sends, PostInv
<1>6. ASSUME NEW t \in Taps, TapRemove(t) PROVE EndCall /\ asked
  BY <1>6 DEF TapRemove, First, FirstInv
<1>7. ASSUME NEW w \in Workers, CallEnded(w), keyed' # keyed
      PROVE  /\ keyed'.rejected => work[w].o.d = "refuse"
             /\ keyed'.ended /\ ~keyed'.rejected => work[w].o.d # "refuse"
  <2>1. keyed' = [keyed EXCEPT !.ended = keyed.joined, !.rejected = keyed.joined /\ work[w].o.d = "refuse"]
    BY <1>7 DEF CallEnded
  <2>2. keyed'.ended = keyed.joined /\ keyed'.rejected = (keyed.joined /\ work[w].o.d = "refuse")
    BY <1>0, <2>1
  <2> QED BY <2>2
<1>8. \A w \in Workers : CallEnded(w) => work[w].at = "ended"
  BY DEF CallEnded
<1> QED BY <1>1, <1>2, <1>3, <1>4, <1>5, <1>6, <1>7, <1>8, Frames DEF KeyedActs

\* A call that has ended stays as it went.
LEMMA HappenedStays ==
  ASSUME Types, [Next]_vars
  PROVE  /\ \A o : Happened(call, o) => Happened(call', o)
         /\ call \in Ran => call' \in Ran
         /\ call # "asking" => call' = call
<1>1. call = "asking" \/ call' = call
  BY CallStep
<1>2. "asking" \notin Ran
  BY DEF Ran
<1> QED BY <1>1, <1>2 DEF Happened

\* What is observed goes on being so.
LEMMA TrueStep ==
  ASSUME Types, Sends, Tasks, Truth, [Next]_vars
  PROVE  TrueInv'
<1> USE DEF Truth
<1>0. /\ Idle.at = "idle" /\ WorkType /\ call \in {"asking", "rejected"} \cup Ran
      /\ \A d, s : Local(d, s).d = d /\ Local(d, s).sure = s /\ Phone(d, s).d = d /\ Phone(d, s).sure = s
      /\ \A o : ~o.sure => Happened(call', o)
      /\ "rejected" \notin Ran /\ "take" \in Ran /\ "asking" \notin Ran
  BY DEF Types, ClaudeType, Idle, Local, Phone, Happened, Ran
<1>1. ASSUME NEW w \in Workers, work'[w] # Idle
      PROVE  Happened(call', work'[w].o) /\ (work'[w].at = "ended" => work'[w].o.sure)
  <2>1. ASSUME NEW d, work'[w] = Ended(d), call \in (IF d = "take" THEN Ran ELSE {"rejected"})
        PROVE  Happened(call', work'[w].o) /\ work'[w].o.sure
    <3>1. work'[w].o = Local(d, TRUE)
      BY <2>1 DEF Ended
    <3>2. Local(d, TRUE).d = d /\ Local(d, TRUE).sure
      BY DEF Local
    <3>3. Happened(call, Local(d, TRUE))
      BY <2>1, <3>2 DEF Happened
    <3> QED BY <3>1, <3>2, <3>3, HappenedStays
  <2>2. CASE work'[w] = work[w]
    BY <1>1, <2>2, HappenedStays DEF TrueInv
  <2>3. CASE work[w] # Idle /\ work'[w].o = work[w].o /\ work'[w].at # "ended"
    BY <2>3, HappenedStays DEF TrueInv
  <2>4. CASE ~work'[w].o.sure /\ work'[w].at # "ended"
    BY <1>0, <2>4
  <2>5. CASE TailRead(w) /\ work'[w] = Ended(IF call = "rejected" THEN "refuse" ELSE "take")
    <3>1. call # "asking"
      BY <2>5 DEF TailRead
    <3> QED BY <1>0, <2>1, <2>5, <3>1
  <2>6. CASE /\ SweepRan(w) /\ work'[w].at # "ended"
             /\ work'[w].o = Local(IF entry.rejected /\ ~card.question THEN "refuse" ELSE "take", TRUE)
    <3>1. Present /\ entry.ran
      BY <2>6 DEF SweepRan
    <3>2. CASE entry.rejected /\ ~card.question
      <4>1. work'[w].o.d = "refuse" /\ call = "rejected"
        BY <2>6, <3>1, <3>2 DEF TrueInv, Local
      <4> QED BY <2>6, <4>1, HappenedStays DEF Happened
    <3>3. CASE ~(entry.rejected /\ ~card.question)
      <4>1. work'[w].o.d = "take" /\ call \in Ran
        BY <2>6, <3>1, <3>3 DEF TrueInv, Local
      <4> QED BY <2>6, <4>1, HappenedStays DEF Happened
    <3> QED BY <3>2, <3>3
  <2>7. CASE w \in Hooks /\ SeenEnded(w) /\ work'[w] = Ended(IF Rejected(w) THEN "refuse" ELSE "take")
    <3>1. hook[w].seen \in {"ran", "rejected"}
      BY <2>7 DEF SeenEnded, Types, HookType, HookRec
    <3>2. IF Rejected(w) THEN call = "rejected" ELSE call \in Ran
      BY <2>7, <3>1 DEF SeenInv, Rejected
    <3> QED BY <1>0, <2>1, <2>7, <3>2
  <2> QED BY <1>1, <2>2, <2>3, <2>4, <2>5, <2>6, <2>7, OutcomeComes DEF OutcomeMoves
<1>2. ASSUME ledger' # NoOutcome PROVE Happened(call', ledger')
  <2>1. CASE ledger' = ledger
    BY <1>2, <2>1, HappenedStays DEF TrueInv
  <2>2. ASSUME NEW w \in Workers, work[w].at = "record", ledger' = work[w].o PROVE Happened(call', ledger')
    BY <1>0, <2>2, HappenedStays DEF TrueInv
  <2>3. ASSUME NEW t \in Taps, TapRecord(t), ledger' = Phone(tap[t].d, card.question) PROVE Happened(call', ledger')
    <3>1. tap[t].at = "record"
      BY <2>3 DEF TapRecord
    <3>2. card.question => call = "take" /\ tap[t].d = "take"
      BY <3>1 DEF TrueInv
    <3>3. Happened(call, ledger')
      BY <1>0, <2>3, <3>2 DEF Happened
    <3> QED BY <3>3, HappenedStays
  <2> QED BY <2>1, <2>2, <2>3, LedgerComes
<1>3. ASSUME NEW t \in Taps, tap'[t].at = "record", card'.question PROVE call' = "take" /\ tap'[t].d = "take"
  <2>0. card' = card
    BY Frames DEF BoundActs, PostFile, Crash, Record, WriteCard, Persist, TapClaim, TapRelease, TapRecord, runVars
  <2>1. CASE tap[t].at = "record" /\ tap'[t].d = tap[t].d
    BY <1>3, <2>0, <2>1, HappenedStays DEF TrueInv
  <2>2. CASE TapConfirm(t)
    <3>1. tap[t].conf = tap[t].d /\ tap[t].conf \in Ran /\ tap'[t].d = tap[t].d
      BY <1>3, <2>2, TapResult DEF Goes
    <3>2. tap[t].conf = call /\ tap[t].d \in Decisions
      BY <3>1 DEF Sends, SentInv, Types, TapType, TapRec
    <3> QED BY <3>1, <3>2, HappenedStays DEF Ran, Decisions
  <2>3. CASE TapSend(t)
    BY <1>3, <2>0, <2>3, TapResult DEF Goes
  <2>4. CASE Crash
    BY <1>3, <2>4, TapCrash
  <2>5. CASE TapKept(t) \/ tap'[t] = tap[t]
    BY <1>3, <2>1, <2>5 DEF TapKept
  <2>6. CASE TapTurn(t) /\ ~TapConfirm(t) /\ ~TapSend(t)
    BY <1>3, <2>6, TapResult DEF TapTurn, TapStep, Goes, Ends
  <2> QED BY <2>2, <2>3, <2>4, <2>5, <2>6, TapsTurn
<1>4. ASSUME Present'
      PROVE  /\ entry'.rejected => call' = "rejected"
             /\ entry'.ran /\ (card'.question \/ ~entry'.rejected) => call' \in Ran
  <2>0. card' = card
    BY Frames DEF BoundActs, PostFile, Crash, Record, WriteCard, Persist, TapClaim, TapRelease, TapRecord, runVars
  <2>1. CASE ~Present
    BY <1>4, <2>1, EntryNew
  <2>2. CASE Present
    <3>1. EntryMoves
      BY <1>4, <2>2, EntryKept
    <3>2. CASE entry'.ran = entry.ran /\ entry'.rejected = entry.rejected
      BY <1>0, <2>0, <2>2, <3>2, HappenedStays DEF TrueInv
    <3>3. CASE entry'.rejected = entry.rejected /\ call \in Ran
      BY <1>0, <2>2, <3>3, HappenedStays DEF TrueInv
    <3>4. ASSUME NEW w \in Workers, CallEnded(w), entry'.rejected = (work[w].o.d = "refuse" /\ ~entry.ran),
                 ~card.question
          PROVE  /\ entry'.rejected => call' = "rejected"
                 /\ entry'.ran /\ (card'.question \/ ~entry'.rejected) => call' \in Ran
      <4>1. work[w].at = "ended" /\ work[w] # Idle
        BY <1>0, <3>4 DEF CallEnded
      <4>2. call \in (IF work[w].o.d = "take" THEN Ran ELSE {"rejected"})
        BY <4>1 DEF TrueInv, Happened
      <4>3. work[w].o.d \in Decisions
        BY <4>1 DEF Types, WorkType, WorkRec, Outcomes
      <4>4. CASE work[w].o.d = "take"
        BY <3>4, <4>2, <4>4, HappenedStays
      <4>5. CASE work[w].o.d = "refuse"
        <5>1. call = "rejected" /\ ~entry.rejected
          BY <2>2, <4>1, <4>2, <4>5 DEF TokenInv, Rejection
        <5>2. ~entry.ran
          BY <1>0, <2>2, <5>1 DEF TrueInv
        <5> QED BY <2>0, <3>4, <4>5, <5>1, <5>2, HappenedStays
      <4> QED BY <4>3, <4>4, <4>5 DEF Decisions
    <3> QED BY <3>1, <3>2, <3>3, <3>4 DEF EntryMoves
  <2> QED BY <2>1, <2>2
<1> QED BY <1>1, <1>2, <1>3, <1>4 DEF TrueInv

\* A hook that arrives before the request is filed is alone, and there is no card.
LEMMA FirstArrives ==
  ASSUME Types, Tasks, First, SeenInv, NEW h \in Hooks, NEW held \in BOOLEAN, Arrive(h, held), ~asked
  PROVE  /\ \A g \in Hooks : hook[g].at = "idle" /\ hook[g].seen = "open" /\ work[g] = Idle
         /\ ~Present /\ UNCHANGED <<entry, work, keyed, call, tailed>>
<1>1. /\ \A g \in Hooks : hook[g].at = "idle"
      /\ UNCHANGED <<entry, work, keyed, call, tailed>>
  BY DEF Arrive, claudeVars, newsVars
<1>2. \A g \in Hooks : hook[g].seen = "open" /\ work[g] = Idle
  BY <1>1 DEF SeenInv, Tasks, WorkInv
<1>3. ~Present
  BY <1>1 DEF First, FirstInv
<1> QED BY <1>1, <1>2, <1>3

\* What the hooks and the call's memory say of the call goes on being so.
LEMMA SeenStep ==
  ASSUME Types, Sends, Tasks, First, Truth, [Next]_vars
  PROVE  SeenInv'
<1> USE DEF Truth
<1>0. /\ call \in {"asking", "rejected"} \cup Ran /\ "rejected" \notin Ran /\ "asking" \notin Ran
      /\ \A h \in Hooks : hook[h].seen \in {"open", "ran", "rejected"}
  BY DEF Types, ClaudeType, HookType, HookRec, Ran
<1>1. ASSUME NEW h \in Hooks
      PROVE  /\ hook'[h].seen = "rejected" => call' = "rejected"
             /\ hook'[h].seen = "ran" => call' \in Ran
  <2>1. CASE hook'[h].seen \in {hook[h].seen, "open"}
    BY <1>0, <2>1, HappenedStays DEF SeenInv, Rejected
  <2>2. ASSUME NEW held \in BOOLEAN, Arrive(h, held), ~asked, keyed.ended,
               hook'[h].seen = IF keyed.rejected THEN "rejected" ELSE "ran"
        PROVE  /\ hook'[h].seen = "rejected" => call' = "rejected"
               /\ hook'[h].seen = "ran" => call' \in Ran
    <3>1. call' = call /\ \A g \in Hooks : hook[g].at = "idle"
      BY <2>2, FirstArrives
    <3> QED BY <2>2, <3>1 DEF SeenInv
  <2> QED BY <2>1, <2>2, SeenComes DEF SeenMoves
<1>2. ASSUME NEW h \in Hooks, hook'[h].at = "idle" PROVE hook'[h].seen = "open" /\ hook[h].at = "idle"
  <2>1. CASE Crash
    <3>1. hook'[h] = hook[h] \/ hook'[h] = [Fresh EXCEPT !.at = "over"]
      BY <2>1 DEF Crash
    <3>2. hook'[h] = hook[h]
      BY <1>2, <3>1, OverShape
    <3> QED BY <1>2, <3>2 DEF SeenInv
  <2>2. CASE ~Crash
    <3>1. hook'[h] = hook[h]
      BY <1>2, <2>2, HookTurns DEF HookMoves
    <3> QED BY <1>2, <3>1 DEF SeenInv
  <2> QED BY <2>1, <2>2
<1>3. /\ keyed'.rejected => call' = "rejected"
      /\ keyed'.ended /\ ~keyed'.rejected /\ ~asked' /\ (\A h \in Hooks : hook'[h].at = "idle") => call' \in Ran
  <2>1. ~asked' /\ (\A h \in Hooks : hook'[h].at = "idle") => ~asked /\ \A h \in Hooks : hook[h].at = "idle"
    BY <1>2, AskedStays
  <2>2. CASE keyed' = keyed
    BY <1>0, <2>1, <2>2, HappenedStays DEF SeenInv
  <2>3. CASE ~keyed'.ended /\ ~keyed'.rejected
    BY <2>3
  <2>4. CASE /\ keyed'.rejected = keyed.rejected
             /\ call \in Ran \/ asked \/ \E w \in Workers : work[w].at = "take"
    <3>1. (\E w \in Workers : work[w].at = "take") => asked \/ \E h \in Hooks : hook[h].at # "idle"
      BY DEF First, FirstInv
    <3> QED BY <1>0, <2>1, <2>4, <3>1, HappenedStays DEF SeenInv
  <2>5. ASSUME NEW w \in Workers, work[w].at = "ended",
               keyed'.rejected => work[w].o.d = "refuse",
               keyed'.ended /\ ~keyed'.rejected => work[w].o.d # "refuse"
        PROVE  /\ keyed'.rejected => call' = "rejected"
               /\ keyed'.ended /\ ~keyed'.rejected => call' \in Ran
    <3>1. work[w] # Idle
      BY <2>5 DEF Idle
    <3>2. call \in (IF work[w].o.d = "take" THEN Ran ELSE {"rejected"}) /\ work[w].o.d \in Decisions
      BY <2>5, <3>1 DEF TrueInv, Happened, Types, WorkType, WorkRec, Outcomes
    <3>3. CASE work[w].o.d = "take"
      BY <2>5, <3>2, <3>3, HappenedStays
    <3>4. CASE work[w].o.d = "refuse"
      BY <2>5, <3>2, <3>4, HappenedStays
    <3> QED BY <3>2, <3>3, <3>4 DEF Decisions
  <2> QED BY <2>2, <2>3, <2>4, <2>5, KeyedComes
<1> QED BY <1>1, <1>2, <1>3 DEF SeenInv, Rejected

\* A rejection goes on being told once.
LEMMA TokenStep ==
  ASSUME Types, Sends, Tasks, First, Truth, [Next]_vars
  PROVE  TokenInv'
<1> USE DEF Truth
<1> DEFINE Tells(w) == work'[w].at = "ended" /\ work'[w].o.d = "refuse"
<1>0. Idle.at = "idle" /\ tailed \in BOOLEAN /\ Closers \subseteq Workers /\ Hooks \subseteq Workers
  BY DEF Idle, Types, NewsType, Workers
<1>1. ASSUME NEW w \in Workers, NEW v \in Workers, Tells(w), Tells(v) PROVE w = v
  BY <1>1, RejectionComes DEF TokenInv, Rejection
<1>2. \A w \in Workers : CallEnded(w) => ~Tells(w)
  <2> SUFFICES ASSUME NEW w \in Workers, CallEnded(w) PROVE work'[w].at # "ended"
    OBVIOUS
  <2>1. \/ work' = [work EXCEPT ![w] = [at |-> "take", o |-> work[w].o]]
        \/ work' = [work EXCEPT ![w] = Idle]
    BY DEF CallEnded, Closing
  <2> QED BY <1>0, <2>1 DEF WorkType, Types
<1>3. ASSUME NEW h \in Hooks, hook'[h].seen = "rejected"
      PROVE  \/ Rejected(h)
             \/ /\ keyed.rejected /\ keyed' = keyed /\ ~Present' /\ work' = work /\ tailed' = tailed
                /\ \A g \in Hooks : ~Rejected(g) /\ work[g] = Idle /\ (g # h => hook'[g] = hook[g])
  BY <1>3, SeenComes, FirstArrives DEF SeenMoves, Rejected, Present
<1>4. ASSUME Present', entry'.rejected
      PROVE  \/ Present /\ entry.rejected
             \/ \E w \in Workers : Rejection(w) /\ CallEnded(w)
  <2>1. Present
    BY <1>4, EntryNew
  <2>2. EntryMoves
    BY <1>4, <2>1, EntryKept
  <2>3. \A w \in Workers : CallEnded(w) => work[w].at = "ended"
    BY DEF CallEnded
  <2> QED BY <1>4, <2>1, <2>2, <2>3 DEF EntryMoves, Rejection
<1>5. keyed'.rejected => keyed.rejected \/ \E w \in Workers : Rejection(w) /\ CallEnded(w)
  BY KeyedComes DEF Rejection
<1>6. tailed => tailed'
  <2>1. /\ (\E c \in Closers : TailRead(c)) => tailed'
        /\ PostBegin \/ PostFile \/ PostNote \/ PostLost \/ Crash => tailed' = tailed
        /\ (\E c \in Closers : StopHook(c) \/ RunExits(c)) => tailed' = tailed
    BY DEF TailRead, PostBegin, PostFile, PostNote, PostLost, Crash, StopHook, RunExits
  <2> QED BY <2>1, Frames DEF NewsActs
<1>7. ASSUME ~tailed'
      PROVE  /\ ~keyed'.rejected /\ ~(Present' /\ entry'.rejected)
             /\ \A h \in Hooks : hook'[h].seen # "rejected"
             /\ \A w \in Workers : ~Tells(w)
  <2>1. ~tailed
    BY <1>0, <1>6, <1>7
  <2>2. \A w \in Workers : ~Tells(w)
    BY <1>7, <2>1, RejectionComes DEF TokenInv
  <2> QED BY <1>3, <1>4, <1>5, <2>1, <2>2 DEF TokenInv
<1>8. ASSUME NEW g \in Hooks, NEW h \in Hooks, hook'[g].seen = "rejected", hook'[h].seen = "rejected" PROVE g = h
  BY <1>3, <1>8 DEF TokenInv, Rejected
<1>9. ASSUME NEW w \in Workers, NEW h \in Hooks, Tells(w), hook'[h].seen = "rejected" PROVE FALSE
  <2>1. CASE Rejected(h)
    BY <1>9, <2>1, RejectionComes DEF TokenInv, Rejected
  <2>2. CASE ~Rejected(h)
    <3>1. keyed.rejected /\ work' = work /\ \A g \in Hooks : work[g] = Idle
      BY <1>3, <1>9, <2>2
    <3>2. Rejection(w) /\ w \notin Hooks
      BY <1>0, <1>9, <3>1 DEF Rejection
    <3>3. w \notin Closers
      BY <3>1, <3>2 DEF TokenInv
    <3>4. w \in Taps \/ w = Recovery
      BY <3>2, <3>3 DEF Workers
    <3> QED BY <1>0, <3>2, <3>4 DEF Rejection, Tasks, WorkInv
  <2> QED BY <2>1, <2>2
<1>10. ASSUME NEW w \in Workers, Tells(w), Present', entry'.rejected PROVE FALSE
  <2>1. CASE Present /\ entry.rejected
    BY <1>10, <2>1, RejectionComes DEF TokenInv
  <2>2. ASSUME NEW v \in Workers, Rejection(v), CallEnded(v) PROVE FALSE
    BY <1>2, <1>10, <2>2, RejectionComes DEF TokenInv
  <2> QED BY <1>4, <1>10, <2>1, <2>2
<1>11. ASSUME NEW h \in Hooks, hook'[h].seen = "rejected", Present', entry'.rejected PROVE FALSE
  <2>1. Rejected(h)
    BY <1>3, <1>11
  <2> QED BY <1>4, <1>11, <2>1 DEF TokenInv
<1>12. ASSUME NEW c \in Closers, Tells(c), keyed'.rejected PROVE FALSE
  <2>0. c \in Workers /\ c \notin Hooks
    BY <1>0, Names
  <2>1. CASE keyed.rejected
    BY <1>12, <2>0, <2>1, RejectionComes DEF TokenInv
  <2>2. ASSUME NEW v \in Workers, Rejection(v), CallEnded(v) PROVE FALSE
    BY <1>2, <1>12, <2>0, <2>2, RejectionComes DEF TokenInv
  <2> QED BY <1>5, <1>12, <2>1, <2>2
<1> QED BY <1>1, <1>7, <1>8, <1>9, <1>10, <1>11, <1>12 DEF TokenInv, Rejection, Rejected

-----------------------------------------------------------------------------
(* The Mac is not credited with what a phone decided.                      *)

\* While the sender of the filed hook is in the card or in a tap's hand the card is the filed one,
\* and the tap that has it, or is about to take it, has claimed the card.
ShieldInv ==
  /\ \A h \in Hooks : hook[h].at \in PastWrite /\ Held(h) =>
       ~Replaying /\ \A t \in Taps : tap[t].at \in {"claim", "hand"} => entry.claimed
  /\ \A t \in Taps : tap[t].at = "send" /\ hook[tap[t].resp].at \in PastWrite =>
       Present /\ entry.claimed /\ ~Replaying

\* A decision that Claude may still take.
Reaches(t) ==
  /\ tap[t].sent /\ call = "asking"
  /\ hook[tap[t].resp].at \in PastWrite \/ hook[tap[t].resp].reply \in Decisions

\* No task can write another outcome before the tap, or the recovery, has written the phone's:
\* the card is claimed, or gone with the daemon that held it.
Guarded(t) ==
  /\ tap[t].at \in {"confirm", "record", "settle"} /\ Present /\ entry.claimed /\ ~Replaying
  /\ tap[t].at = "settle" => work[t].at = "record"
Recovering == \/ up = "down" /\ claim # "none"
              \/ up = "restoring" /\ work[Recovery].at = "record"
Unwritten == ledger = NoOutcome /\ \A w \in Hooks \cup Closers : work[w].at # "record"
Shielded(t) == Unwritten /\ (Guarded(t) \/ Recovering)
CreditInv ==
  faults = 0 => \A t \in Taps : took = t \/ Reaches(t) => ledger.by = "phone" \/ Shielded(t)

\* A write that failed is not forgotten.
LEMMA FaultsGrow ==
  ASSUME Types, [Next]_vars
  PROVE  faults \in Nat /\ faults' \in {faults, faults + 1}
<1>1. faults \in Nat
  BY BoundsAssumption DEF Types, RunType
<1>2. faults' \in {faults, faults + 1}
  BY Frames DEF BoundActs, PostFile, Crash, Record, WriteCard, Persist, TapClaim, TapRelease, TapRecord, Fault
<1> QED BY <1>1, <1>2

\* While there is a card no replay registers another.
LEMMA ReplayComes ==
  ASSUME Types, Sends, First, [Next]_vars, Present, asked, ~Replaying
  PROVE  ~Replaying'
<1> SUFFICES ASSUME NEW h \in Hooks,
                    hook'[h].at = "unregister" \/ (asked' /\ hook'[h].at = "write" /\ hook'[h].reg)
    PROVE  FALSE
  BY DEF Replaying
<1>1. ~Crash
  BY HookCrash
<1>2. hook'[h] # hook[h]
  BY DEF Replaying
<1>3. HookMoves(h) /\ HookComes(h)
  BY <1>1, <1>2, HookTurns DEF HookMoves
<1>4. CASE hook'[h].at = "unregister"
  <2>1. WriteCard(h) /\ hook[h].at = "write"
    BY <1>3, <1>4 DEF HookComes, WriteCard
  <2>2. ~hook[h].reg
    BY <2>1 DEF Replaying
  <2>3. Return(h, "pass")
    BY <2>1, <2>2 DEF WriteCard
  <2> QED BY <1>4, <2>3, HookReturns DEF Types
<1>5. CASE hook'[h].at = "write"
  <2>1. Register(h)
    BY <1>3, <1>5 DEF HookComes
  <2>2. hook' = [hook EXCEPT ![h] = [hook[h] EXCEPT !.at = "write", !.reg = FALSE]] /\ hook[h] \in HookRec
    BY <2>1 DEF Register, Types, HookType
  <2>3. ~hook'[h].reg
    BY <2>2 DEF Types, HookType, HookRec
  <2> QED BY <1>5, <2>3
<1> QED BY <1>4, <1>5

\* A card that a tap behind the gate has claimed stays, and claimed, until that tap lets it go.
LEMMA ShieldKept ==
  ASSUME Types, Sends, Tasks, First, [Next]_vars, ~Crash, asked, Present, entry.claimed, ~Replaying,
         NEW t \in Taps, tap[t].at \in GateAt, ~TapUnclaim(t), ~TapSettled(t), ~TapRemove(t)
  PROVE  Present' /\ entry'.claimed /\ ~Replaying'
<1>1. \A u \in Taps : ~TapUnclaim(u) /\ ~TapSettled(u) /\ ~TapRemove(u)
  <2>1. \A u \in Taps : tap[u].at \in GateAt => u = t
    BY DEF Tasks, GateInv
  <2>2. \A u \in Taps : TapUnclaim(u) \/ TapSettled(u) \/ TapRemove(u) => tap[u].at \in GateAt
    BY DEF TapUnclaim, TapSettled, TapRemove, GateAt
  <2> QED BY <2>1, <2>2
<1>2. \A h \in Hooks : ~Unregister(h)
  BY DEF Replaying, Unregister
<1>3. Present'
  BY <1>1, <1>2, EntryGoes
<1>4. entry'.claimed
  BY <1>1, <1>3, EntryKept DEF EntryMoves
<1> QED BY <1>3, <1>4, ReplayComes

\* The sender of a filed hook stays with a claimed card.
LEMMA ShieldStep ==
  ASSUME Types, Sends, Tasks, First, ShieldInv, [Next]_vars
  PROVE  ShieldInv'
<1>1. ASSUME NEW h \in Hooks, hook'[h].at \in PastWrite, Present', entry'.resp = h
      PROVE  ~Replaying' /\ \A t \in Taps : tap'[t].at \in {"claim", "hand"} => entry'.claimed
  <2>0. ~Crash
    BY <1>1 DEF Crash, Present
  <2>1. CASE WriteCard(h) /\ ~asked
    <3>1. /\ \A g \in Hooks : g # h => hook[g].at = "idle" /\ hook'[g] = hook[g]
          /\ \A t \in Taps : tap[t].at = "idle"
      <4>1. hook[h].at = "write"
        BY <2>1 DEF WriteCard
      <4>2. hook'[h] # hook[h]
        BY <1>1, <4>1 DEF PastWrite
      <4> QED BY <2>0, <2>1, <4>1, <4>2, HookTurns DEF First, FirstInv, HookMoves
    <3>2. tap' = tap
      BY <2>1 DEF WriteCard
    <3>3. ~Replaying'
      BY <1>1, <3>1 DEF Replaying, PastWrite
    <3> QED BY <3>1, <3>2, <3>3
  <2>2. CASE hook[h].at \in PastWrite
    <3>0. asked
      BY <2>2 DEF First, FirstInv
    <3>1. Held(h)
      <4>1. CASE \A t \in Taps : ~TapSend(t)
        BY <1>1, <2>0, <4>1, CardEffect DEF CardMoves, PastWrite, Held
      <4>2. ASSUME NEW t \in Taps, TapSend(t) PROVE Held(h)
        BY <1>1, <4>2 DEF TapSend, Held, Present
      <4> QED BY <4>1, <4>2
    <3>2. ~Replaying /\ Present /\ \A t \in Taps : tap[t].at \in {"claim", "hand"} => entry.claimed
      BY <2>2, <3>1 DEF ShieldInv, Held
    <3>3. ~Replaying'
      BY <3>0, <3>2, ReplayComes
    <3>4. ASSUME NEW t \in Taps, tap'[t].at \in {"claim", "hand"} PROVE entry'.claimed
      <4>1. CASE tap[t].at \in {"claim", "hand"}
        <5>1. ~TapUnclaim(t) /\ ~TapSettled(t) /\ ~TapRemove(t) /\ tap[t].at \in GateAt
          BY <4>1 DEF TapUnclaim, TapSettled, TapRemove, GateAt
        <5> QED BY <2>0, <3>0, <3>2, <4>1, <5>1, ShieldKept
      <4>2. CASE tap[t].at \notin {"claim", "hand"}
        <5>1. TapTurn(t)
          BY <2>0, <3>4, <4>2, TapsTurn DEF TapKept
        <5>2. ~(\E d \in Decisions : TapBegin(t, d)) /\ ~TapLedger(t) /\ ~TapClaim(t) /\ ~TapHand(t) /\ ~TapSend(t)
          BY <3>4, <4>2, TapResult DEF Goes, Ends
        <5>3. ~TapConfirm(t) /\ ~TapRelease(t) /\ ~TapUnclaim(t) /\ ~TapSettled(t) /\ ~TapRecord(t) /\ ~TapRemove(t)
              /\ ~TapClear(t)
          BY <3>4, <4>2, TapResult DEF Goes, Ends
        <5>4. TapEntry(t) /\ Carries
          BY <3>4, <5>1, <5>2, <5>3, TapResult DEF TapTurn, TapStep, Ends
        <5>5. entry' = [entry EXCEPT !.claimed = TRUE] /\ entry \in Entries
          BY <5>4, EntryShape DEF TapEntry, Carries, Types
        <5> QED BY <5>5 DEF Entries
      <4> QED BY <4>1, <4>2
    <3> QED BY <3>3, <3>4
  <2>3. hook[h].at \in PastWrite \/ (WriteCard(h) /\ ~asked)
    BY <1>1, <2>0, HookTurns DEF HookMoves, HookComes
  <2> QED BY <2>1, <2>2, <2>3
<1>2. ASSUME NEW t \in Taps, tap'[t].at = "send", hook'[tap'[t].resp].at \in PastWrite
      PROVE  Present' /\ entry'.claimed /\ ~Replaying'
  <2> DEFINE h == tap'[t].resp
  <2>1. CASE tap[t].at = "send" /\ h = tap[t].resp
    <3>0. /\ h \in Hooks /\ asked
      BY <2>1 DEF Sends, SentInv, First, FirstInv
    <3>1. ~Crash
      BY <1>2, <3>0, HookCrash DEF PastWrite
    <3>2. hook[h].at \in PastWrite
      BY <1>2, <3>0, <3>1, HookTurns DEF HookMoves, HookComes
    <3>3. Present /\ entry.claimed /\ ~Replaying
      BY <2>1, <3>2 DEF ShieldInv
    <3>4. ~TapUnclaim(t) /\ ~TapSettled(t) /\ ~TapRemove(t) /\ tap[t].at \in GateAt
      BY <2>1 DEF TapUnclaim, TapSettled, TapRemove, GateAt
    <3> QED BY <3>0, <3>1, <3>3, <3>4, ShieldKept
  <2>2. CASE TapHand(t) /\ Present /\ entry.resp = h
    <3>1. /\ hook' = hook /\ asked' = asked /\ tap[t].at = "hand"
          /\ entry' = [entry EXCEPT !.resp = "none", !.confirm = IF card.question THEN t ELSE @]
      BY <2>2 DEF TapHand, logVars
    <3>2. h \in Hooks /\ entry \in Entries
      <4>1. entry \in Entries
        BY <2>2, EntryShape DEF Types
      <4>2. entry.resp # "none"
        BY <1>2, <2>2, TapResult
      <4> QED BY <2>2, <4>1, <4>2 DEF Entries
    <3>3. ~Replaying /\ entry.claimed
      BY <1>2, <2>2, <3>1, <3>2 DEF ShieldInv, Held
    <3>4. entry'.claimed /\ Present'
      <4>1. entry'.claimed = entry.claimed
        BY <3>1, <3>2 DEF Entries
      <4>2. entry' # NoEntry
        BY <3>1, <3>2 DEF Entries, NoEntry
      <4> QED BY <3>3, <4>1, <4>2 DEF Present
    <3> QED BY <3>1, <3>3, <3>4 DEF Replaying
  <2> QED BY <1>2, <2>1, <2>2, SentKept
<1> QED BY <1>1, <1>2 DEF ShieldInv, Held

\* Whose decision Claude takes, or may still take, could reach it before, or is sent now.
LEMMA ReachesBefore ==
  ASSUME Types, Sends, Tasks, First, [Next]_vars, NEW t \in Taps,
         \/ took' = t
         \/ /\ tap'[t].sent /\ call' = "asking"
            /\ hook'[tap'[t].resp].at \in PastWrite \/ hook'[tap'[t].resp].reply \in Decisions
  PROVE  \/ took = t \/ Reaches(t)
         \/ /\ TapSend(t) /\ chan[tap[t].resp] = "open" /\ hook[tap[t].resp].at \in PastWrite
<1>1. ASSUME took' = t, took' # took PROVE Reaches(t)
  <2>1. PICK h \in Hooks : ClaudeReads(h)
    <3>1. \A e \in Ran \cup {"rejected"} : MacAnswers(e) => took' = took
      BY DEF MacAnswers
    <3>2. \A h \in Hooks : ClaudeEndsHook(h) => took' = took
      BY DEF ClaudeEndsHook
    <3>3. \A c \in Closers : RunExits(c) => took' = took
      BY DEF RunExits
    <3>4. Crash => took' = took
      BY DEF Crash
    <3> QED BY <1>1, <3>1, <3>2, <3>3, <3>4, Frames DEF ClaudeActs
  <2>2. /\ call = "asking" /\ hook[h].reply \in Decisions
        /\ took' = CHOOSE u \in Taps : tap[u].sent /\ tap[u].resp = h
    BY <1>1, <2>1 DEF ClaudeReads
  <2>3. \E u \in Taps : tap[u].sent /\ tap[u].resp = h
    BY <2>2 DEF Sends, HookChan
  <2>4. tap[t].sent /\ tap[t].resp = h
    BY <1>1, <2>2, <2>3
  <2> QED BY <2>2, <2>4 DEF Reaches
<1>2. ASSUME tap'[t].sent, call' = "asking",
             hook'[tap'[t].resp].at \in PastWrite \/ hook'[tap'[t].resp].reply \in Decisions
      PROVE  \/ Reaches(t)
             \/ TapSend(t) /\ chan[tap[t].resp] = "open" /\ hook[tap[t].resp].at \in PastWrite
  <2>0. call = "asking"
    BY <1>2, CallStep
  <2>1. CASE TapSend(t) /\ chan[tap[t].resp] = "open"
    <3>1. hook' = hook /\ tap'[t].resp = tap[t].resp /\ tap[t].resp \in Hooks
      BY <2>1, TapResult, SendEffect
    <3>2. hook[tap[t].resp].reply \notin Decisions
      BY <2>1, <3>1 DEF Sends, TapChan, HookChan, Types, TapType, TapRec, Decisions
    <3> QED BY <1>2, <2>1, <3>1, <3>2
  <2>2. CASE tap[t].sent
    <3>1. PICK h \in Hooks : h = tap[t].resp /\ h = tap'[t].resp
      BY <2>2, SentKept DEF Sends, SentInv
    <3>2. CASE Crash
      <4>1. hook'[h].reply \in Decisions => hook'[h] = hook[h]
        BY <3>2, HookCrash DEF Decisions
      <4>2. hook'[h].at \notin PastWrite
        BY <3>2, HookCrash DEF PastWrite
      <4> QED BY <1>2, <2>0, <2>2, <3>1, <4>1, <4>2 DEF Reaches
    <3>3. CASE ~Crash
      <4>1. hook'[h] = hook[h] \/ (HookMoves(h) /\ HookComes(h))
        BY <3>3, HookTurns DEF HookMoves
      <4>2. asked
        BY <2>2 DEF First, FirstInv, Sends, SentInv
      <4>3. hook[h].at \in PastWrite \/ hook[h].reply \in Decisions
        BY <1>2, <3>1, <4>1, <4>2 DEF HookMoves, HookComes, PastWrite
      <4> QED BY <2>0, <2>2, <3>1, <4>3 DEF Reaches
    <3> QED BY <3>2, <3>3
  <2> QED BY <1>2, <2>1, <2>2, SentKept
<1> QED BY <1>1, <1>2

\* A tap's or the recovery's outcome stays to be written until it is.
LEMMA RecordStays ==
  ASSUME Types, Tasks, [Next]_vars, ~Crash, NEW w \in Taps \cup {Recovery}, work[w].at = "record", ~Record(w)
  PROVE  work'[w] = work[w]
<1>0. /\ WorkType /\ Idle.at = "idle" /\ w \in Workers /\ w \notin Hooks /\ w \notin Closers /\ work[w] # Idle
  BY Names DEF Types, Idle, Workers
<1>1. ASSUME NEW v, NEW x, work' = [work EXCEPT ![v] = x], v # w PROVE work'[w] = work[w]
  BY <1>0, <1>1 DEF WorkType
<1>2. ASSUME NEW v \in Hooks \cup Closers, Moved(v) PROVE work'[w] = work[w]
  BY <1>0, <1>1, <1>2 DEF Moved, Closing
<1>3. ASSUME NEW c \in Closers,
             \/ TailRead(c) \/ RunExits(c) \/ CloseCard(c) \/ Expire(c) \/ SweepRan(c)
             \/ \E back \in BOOLEAN : SweepScreen(c, back)
      PROVE  work'[w] = work[w]
  <2>1. work' = work \/ \E x : work' = [work EXCEPT ![c] = x]
    BY <1>3 DEF TailRead, RunExits, CloseCard, Expire, SweepRan, SweepScreen, Closing
  <2> QED BY <1>0, <1>1, <2>1
<1>4. ASSUME NEW c \in Closers, StopHook(c) PROVE work'[w] = work[w]
  BY <1>2, <1>4 DEF StopHook
<1>5. ASSUME NEW h \in Hooks, TurnOver(h) PROVE work'[w] = work[w]
  BY <1>2, <1>5 DEF TurnOver
<1>6. ASSUME NEW h \in Hooks, SeenEnded(h) \/ \E current \in BOOLEAN : HookEnded(h, current) PROVE work'[w] = work[w]
  <2>1. work' = work \/ \E x : work' = [work EXCEPT ![h] = x]
    BY <1>6 DEF SeenEnded, HookEnded, Closing
  <2> QED BY <1>0, <1>1, <2>1
<1>7. ASSUME NEW v \in Workers, CallEnded(v) \/ Take(v) \/ Record(v) \/ Announce(v) PROVE work'[w] = work[w]
  <2>1. v # w
    BY <1>7 DEF CallEnded, Take, Announce
  <2>2. work' = work \/ \E x : work' = [work EXCEPT ![v] = x]
    BY <1>7 DEF CallEnded, Take, Record, Announce, Closing
  <2> QED BY <1>0, <1>1, <2>1, <2>2
<1>8. ASSUME NEW t \in Taps, TapLedger(t) \/ TapConfirm(t) PROVE work'[w] = work[w]
  <2>1. t # w
    BY <1>0, <1>8 DEF TapLedger, TapConfirm, Tasks, WorkInv
  <2>2. work' = work \/ \E x : work' = [work EXCEPT ![t] = x]
    BY <1>8 DEF TapLedger, TapConfirm, Settling
  <2> QED BY <1>1, <2>1, <2>2
<1>9. ~RecoverClaim
  <2>1. RecoverClaim => up = "down" /\ work[Recovery] = Idle
    BY DEF RecoverClaim, Tasks, DownInv
  <2>2. RecoverClaim => w \in Taps /\ \A t \in Taps : tap[t].at \in {"idle", "done"}
    BY <1>0, <2>1 DEF Tasks, DownInv
  <2> QED BY <1>0, <2>2 DEF Tasks, WorkInv
<1> QED BY <1>3, <1>4, <1>5, <1>6, <1>7, <1>8, <1>9, Frames DEF WorkActs

\* An outcome that a step writes where none was, and no hook or other task was about to write
\* one, is the phone's.
LEMMA PhoneWrites ==
  ASSUME Types, Sends, Tasks, [Next]_vars, Unwritten, ledger' # ledger
  PROVE  ledger'.by = "phone"
<1>1. ASSUME NEW w \in Workers, work[w].at = "record", ledger' = work[w].o PROVE ledger'.by = "phone"
  <2>1. w \in Taps \cup {Recovery} /\ work[w] # Idle
    BY <1>1 DEF Unwritten, Workers, Idle
  <2> QED BY <1>1, <2>1 DEF Tasks, WorkInv
<1>2. \A t \in Taps : Phone(tap[t].d, card.question).by = "phone"
  BY DEF Phone
<1> QED BY <1>1, <1>2, LedgerComes

\* ... and a step that writes none, though its task was about to, has failed.
LEMMA WriteFails ==
  ASSUME Types, [Next]_vars, ledger = NoOutcome, ledger' = ledger, faults' = faults
  PROVE  /\ \A w \in Workers : ~Record(w)
         /\ \A t \in Taps : ~TapRecord(t)
<1>0. NoOutcome \notin Outcomes /\ Idle.at = "idle"
  BY OutcomeShape DEF Outcomes, NoOutcome, Idle
<1>1. faults + 1 # faults
  BY FaultsGrow
<1>2. ASSUME NEW w \in Workers, Record(w) PROVE FALSE
  <2>1. work[w].at = "record" /\ ledger' = work[w].o
    BY <1>1, <1>2 DEF Record, Write, Fault
  <2>2. work[w].o \in Outcomes
    BY <1>0, <2>1 DEF Types, WorkType, WorkRec
  <2> QED BY <1>0, <2>1, <2>2
<1>3. ASSUME NEW t \in Taps, TapRecord(t) PROVE FALSE
  <2>1. ledger' = Phone(tap[t].d, card.question)
    BY <1>1, <1>3 DEF TapRecord, Write, Fault
  <2>2. tap[t].d \in Decisions /\ card.question \in BOOLEAN
    BY CardsAssumption DEF Types, TapType, TapRec, RunType
  <2> QED BY <1>0, <2>1, <2>2, OutcomeShape
<1> QED BY <1>2, <1>3

\* A shielded decision stays so until its outcome is written.
LEMMA ShieldedStays ==
  ASSUME Types, Sends, Tasks, Disk, First, [Next]_vars, faults' = faults, ledger' = ledger,
         NEW t \in Taps, took = t \/ Reaches(t), took' = t \/ call' = "asking", Shielded(t)
  PROVE  /\ \A w \in Hooks \cup Closers : work'[w].at # "record"
         /\ \/ /\ tap'[t].at \in {"confirm", "record", "settle"} /\ Present' /\ entry'.claimed /\ ~Replaying'
               /\ tap'[t].at = "settle" => work'[t].at = "record"
            \/ up' = "down" /\ claim' # "none"
            \/ up' = "restoring" /\ work'[Recovery].at = "record"
<1>0. /\ ledger = NoOutcome /\ \A w \in Hooks \cup Closers : work[w].at # "record"
      /\ Idle.at = "idle" /\ WorkType /\ Hooks \subseteq Workers /\ Closers \subseteq Workers
      /\ Taps \subseteq Workers /\ Recovery \in Workers
  BY DEF Shielded, Unwritten, Idle, Types, Workers
<1>1. tap[t].sent /\ ~Disowned(t)
  BY Names DEF Reaches, Disowned, Disk, TookInv
<1>2. claim # "none"
  BY <1>0, <1>1 DEF Disk, CoverInv, Covered
<1>3. /\ \A w \in Workers : ~Record(w)
      /\ \A u \in Taps : ~TapRecord(u)
  BY <1>0, WriteFails
<1>4. CASE Crash
  <2>1. up' = "down" /\ claim' = claim /\ work' = [w \in Workers |-> Idle]
    BY <1>4 DEF Crash, diskVars
  <2> QED BY <1>0, <1>2, <2>1
<1>5. CASE ~Crash /\ Guarded(t)
  <2>1. asked /\ tap[t].at \in GateAt
    BY <1>5 DEF Guarded, First, FirstInv, GateAt
  <2>2. work[t] = Idle => tap[t].at # "settle"
    BY <1>0, <1>5 DEF Guarded
  <2>3. ~TapUnclaim(t) /\ ~TapSettled(t) /\ ~TapRemove(t)
    BY <1>5, <2>2 DEF Guarded, TapUnclaim, TapSettled, TapRemove
  <2>4. Present' /\ entry'.claimed /\ ~Replaying'
    BY <1>5, <2>1, <2>3, ShieldKept DEF Guarded
  <2>5. \A w \in Hooks \cup Closers : work'[w].at # "record"
    BY <1>0, <1>5, RecordStarts DEF Guarded
  <2>6. tap'[t].at \in {"confirm", "record", "settle"} /\ (tap'[t].at = "settle" => work'[t].at = "record")
    <3>1. CASE TapTurn(t)
      <4>1. TapConfirm(t)
        BY <1>3, <1>5, <2>3, <3>1 DEF Guarded, TapTurn, TapStep, TapBegin, TapLedger, TapEntry, TapClaim, TapHand,
                TapSend, TapRelease, TapClear
      <4>2. CASE tap[t].conf \in Ran /\ TapTo(t, IF tap[t].conf = tap[t].d THEN "record" ELSE "release")
        <5>1. tap[t].conf = call
          BY <4>2 DEF Sends, SentInv
        <5>2. took = t /\ tap[t].d \in Decisions
          BY <4>2, <5>1 DEF Reaches, Ran, Types, TapType, TapRec
        <5>3. call = IF tap[t].d = "take" THEN "take" ELSE "rejected"
          BY <5>2, Names DEF Disk, TookInv
        <5>4. tap[t].conf = tap[t].d
          BY <4>2, <5>1, <5>3 DEF Ran
        <5> QED BY <4>2, <5>4, TapAt DEF TapStates, Types
      <4>3. CASE TapTo(t, "settle") /\ Settling(t, tap[t].d)
        <5>1. work'[t] = [at |-> "record", o |-> Phone(tap[t].d, FALSE)]
          BY <1>0, <4>3 DEF Settling, WorkType
        <5> QED BY <4>3, <5>1, TapAt DEF TapStates, Types
      <4> QED BY <4>1, <4>2, <4>3 DEF TapConfirm
    <3>2. CASE ~TapTurn(t)
      <4>1. tap'[t].at = tap[t].at
        BY <1>5, <3>2, TapsTurn DEF TapKept
      <4>2. work[t].at = "record" => work'[t] = work[t]
        BY <1>0, <1>3, <1>5, RecordStays
      <4> QED BY <1>5, <4>1, <4>2 DEF Guarded
    <3> QED BY <3>1, <3>2
  <2> QED BY <2>4, <2>5, <2>6
<1>6. CASE ~Crash /\ Recovering
  <2>1. /\ up # "up" /\ ~Present /\ \A u \in Taps : tap[u].at \in {"idle", "done"}
    BY <1>6 DEF Recovering, Tasks, DownInv
  <2>2. \A w \in Hooks \cup Closers : work'[w].at # "record"
    BY <1>0, <2>1, RecordStarts
  <2>3. claim' = claim
    <3>1. \A u \in Taps : ~TapClaim(u) /\ ~TapRelease(u)
      BY <2>1 DEF TapClaim, TapRelease
    <3> QED BY <1>3, <3>1, Frames DEF CoverActs
  <2>4. CASE RecoverClaim
    <3>1. work' = [work EXCEPT ![Recovery] = [at |-> "record", o |-> Phone(claim, FALSE)]] /\ up' = "restoring"
      BY <1>0, <1>2, <2>4 DEF RecoverClaim
    <3>2. work'[Recovery].at = "record"
      BY <1>0, <3>1 DEF WorkType
    <3> QED BY <2>2, <3>1, <3>2
  <2>5. CASE ~RecoverClaim
    <3>1. ~Restore
      BY <1>0, <1>6 DEF Restore, Recovering
    <3>2. up' = up
      BY <1>6, <2>5, <3>1, Frames DEF UpActs
    <3>3. work[Recovery].at = "record" => work'[Recovery] = work[Recovery]
      BY <1>0, <1>3, <1>6, RecordStays
    <3> QED BY <1>2, <1>6, <2>2, <2>3, <3>2, <3>3 DEF Recovering
  <2> QED BY <2>4, <2>5
<1> QED BY <1>4, <1>5, <1>6 DEF Shielded

\* A decision that is sent to the filed hook is shielded from the start.
LEMMA SentShielded ==
  ASSUME Types, Sends, PhantomInv, ShieldInv, NEW t \in Taps, TapSend(t),
         chan[tap[t].resp] = "open", hook[tap[t].resp].at \in PastWrite
  PROVE  \/ ledger'.by = "phone"
         \/ /\ ledger' = NoOutcome /\ \A w \in Hooks \cup Closers : work'[w].at # "record"
            /\ tap'[t].at \in {"confirm", "record"} /\ Present' /\ entry'.claimed /\ ~Replaying'
<1>1. tap[t].at = "send" /\ UNCHANGED <<entry, hook, asked, ledger, work>>
  BY DEF TapSend, logVars, diskVars
<1>2. Present /\ entry.claimed /\ ~Replaying
  BY <1>1 DEF ShieldInv
<1>3. Present' /\ entry'.claimed /\ ~Replaying'
  BY <1>1, <1>2 DEF Present, Replaying
<1>4. /\ \A w \in Hooks \cup Closers : work[w].at # "record"
      /\ ledger = NoOutcome \/ ledger.by = "phone"
  BY <1>2 DEF PhantomInv
<1>5. tap'[t].at \in {"confirm", "record"}
  BY TapResult
<1> QED BY <1>1, <1>3, <1>4, <1>5

\* No step lets the Mac take the credit.
LEMMA CreditStep ==
  ASSUME Types, Sends, Tasks, Disk, First, PhantomInv, ShieldInv, CreditInv, [Next]_vars
  PROVE  CreditInv'
<1> DEFINE Reaching(t) == /\ tap'[t].sent /\ call' = "asking"
                          /\ hook'[tap'[t].resp].at \in PastWrite \/ hook'[tap'[t].resp].reply \in Decisions
           Shielding(t) ==
             /\ ledger' = NoOutcome /\ \A w \in Hooks \cup Closers : work'[w].at # "record"
             /\ \/ /\ tap'[t].at \in {"confirm", "record", "settle"} /\ Present' /\ entry'.claimed /\ ~Replaying'
                   /\ tap'[t].at = "settle" => work'[t].at = "record"
                \/ up' = "down" /\ claim' # "none"
                \/ up' = "restoring" /\ work'[Recovery].at = "record"
<1>1. SUFFICES ASSUME faults' = 0, NEW t \in Taps, took' = t \/ Reaching(t)
               PROVE  ledger'.by = "phone" \/ Shielding(t)
  BY DEF CreditInv, Reaches, Shielded, Unwritten, Guarded, Recovering
<1>2. faults = 0
  BY <1>1, FaultsGrow
<1>3. CASE TapSend(t) /\ chan[tap[t].resp] = "open" /\ hook[tap[t].resp].at \in PastWrite
  BY <1>3, SentShielded
<1>4. CASE took = t \/ Reaches(t)
  <2>1. ledger.by = "phone" \/ Shielded(t)
    BY <1>2, <1>4 DEF CreditInv
  <2>2. CASE ledger' # ledger
    <3>1. ledger = NoOutcome
      BY <2>2, LedgerComes
    <3> QED BY <2>1, <2>2, <3>1, PhoneWrites DEF Shielded, NoOutcome
  <2>3. CASE ledger' = ledger /\ ledger.by = "phone"
    BY <2>3
  <2>4. CASE ledger' = ledger /\ Shielded(t)
    <3>1. ledger' = NoOutcome
      BY <2>4 DEF Shielded, Unwritten
    <3> QED BY <1>1, <1>2, <1>4, <2>4, <3>1, ShieldedStays
  <2> QED BY <2>1, <2>2, <2>3, <2>4
<1> QED BY <1>1, <1>3, <1>4, ReachesBefore

-----------------------------------------------------------------------------
(* The theorems.                                                           *)

\* The inductive invariant.
HeldIInv == /\ Types /\ Sends /\ Tasks /\ Disk /\ First /\ PhantomInv /\ HolderInv
            /\ Truth /\ ShieldInv /\ CreditInv

\* The parts hold of the first state.
LEMMA HeldInit ==
  ASSUME Init
  PROVE  HeldIInv
<1>1. /\ \A t \in Taps : tap[t] = Untouched
      /\ \A h \in Hooks : hook[h] = Fresh /\ chan[h] = "none"
      /\ \A w \in Workers : work[w] = Idle
      /\ entry = NoEntry /\ ~Present
  BY DEF Init, Present
<1>2. /\ Untouched \in TapRec /\ ~Untouched.sent /\ Untouched.resp = "none" /\ Untouched.at = "idle"
      /\ Untouched.told = "none" /\ Untouched.conf = "none"
  BY DEF Untouched, TapRec, TapStates, Decisions, Ran
<1>3. /\ Fresh \in HookRec /\ Fresh.at = "idle" /\ Fresh.reply = "none"
  BY DEF Fresh, HookRec, HookStates
<1>4. Types
  <2>1. ClaudeType
    BY DEF Init, ClaudeType
  <2>2. NewsType
    <3>1. [joined |-> TRUE, ended |-> FALSE, rejected |-> FALSE] \in [joined : BOOLEAN, ended : BOOLEAN, rejected : BOOLEAN]
      OBVIOUS
    <3>2. tailed \in BOOLEAN /\ stopped \in BOOLEAN /\ exited \in BOOLEAN
      BY DEF Init
    <3> QED BY <3>1, <3>2 DEF Init, NewsType
  <2>3. EntryType /\ ChanType
    BY DEF Init, EntryType, ChanType, ChanStates
  <2>4. HookType /\ TapType
    BY <1>2, <1>3 DEF Init, HookType, TapType
  <2>5. WorkType /\ GateType
    BY DEF Init, WorkType, GateType
  <2>6. DiskType
    <3>1. asked \in BOOLEAN /\ result \in BOOLEAN /\ told \in BOOLEAN
      BY DEF Init
    <3> QED BY <3>1 DEF Init, DiskType
  <2>7. RunType
    BY BoundsAssumption DEF Init, RunType
  <2> QED BY <2>1, <2>2, <2>3, <2>4, <2>5, <2>6, <2>7 DEF Types
<1>5. Sends
  <2>1. PostInv
    BY DEF Init, PostInv
  <2> QED BY <1>1, <1>2, <1>3, <2>1 DEF Sends, SentInv, TapChan, HookChan, Decisions, Ran, Listening
<1>6. Tasks
  <2>1. keyed.joined /\ up = "up"
    BY DEF Init
  <2>2. GateInv
    BY <1>1, <1>2 DEF GateInv, GateAt
  <2>3. WorkInv
    BY <1>1 DEF WorkInv, Workers
  <2> QED BY <2>1, <2>2, <2>3 DEF Tasks, JoinInv, DownInv
<1>7. Disk
  <2>1. took = "none"
    BY DEF Init
  <2> QED BY <1>1, <1>2, <2>1 DEF Disk, TookInv, CoverInv, SoleInv, HandedOnce, Window
<1>8. First
  <2>1. row = "none" /\ claim = "none" /\ ledger = NoOutcome
    BY DEF Init
  <2>2. \A w \in Workers : work[w].at \in {"idle", "ended"}
    BY <1>1 DEF Idle
  <2> QED BY <1>1, <1>2, <1>3, <2>1, <2>2 DEF First, FirstInv, OnePast, RegInv, PastWrite
<1>9. PhantomInv /\ HolderInv
  BY <1>1, <1>3 DEF PhantomInv, HolderInv
<1>10. Truth
  <2>1. /\ Idle.at = "idle" /\ ledger = NoOutcome /\ Fresh.seen = "open"
        /\ ~keyed.ended /\ ~keyed.rejected
    BY DEF Idle, Init, Fresh
  <2>2. TrueInv
    BY <1>1, <1>2, <2>1 DEF TrueInv
  <2>3. SeenInv
    BY <1>1, <2>1 DEF SeenInv, Rejected
  <2>4. TokenInv
    BY <1>1, <2>1 DEF TokenInv, Rejected, Rejection, Workers
  <2> QED BY <2>2, <2>3, <2>4 DEF Truth
<1>11. ShieldInv /\ CreditInv
  <2>1. took = "none"
    BY DEF Init
  <2> QED BY <1>1, <1>2, <2>1, Names DEF ShieldInv, CreditInv, Held, Reaches
<1> QED BY <1>4, <1>5, <1>6, <1>7, <1>8, <1>9, <1>10, <1>11 DEF HeldIInv

\* The inductive invariant of the held approval.
THEOREM HeldInvariant == Spec => []HeldIInv
<1>1. Init => HeldIInv
  BY HeldInit
<1>2. HeldIInv /\ [Next]_vars => HeldIInv'
  <2> SUFFICES ASSUME HeldIInv, [Next]_vars
      PROVE  HeldIInv'
    OBVIOUS
  <2> USE DEF HeldIInv
  <2>1. Types' /\ Sends' /\ Tasks' /\ Disk'
    BY TypesStep, SendsStep, TasksStep, DiskStep DEF Tasks
  <2>2. First'
    BY FirstStep, PastStep DEF First
  <2>3. PhantomInv' /\ HolderInv'
    BY PhantomStep, HolderStep
  <2>4. Truth'
    BY TrueStep, SeenStep, TokenStep DEF Truth
  <2>5. ShieldInv' /\ CreditInv'
    BY ShieldStep, CreditStep
  <2> QED BY <2>1, <2>2, <2>3, <2>4, <2>5
<1> QED BY <1>1, <1>2, PTL DEF Spec

\* Every variable of the held approval keeps its type: no handler of state.rs leaves a card, a
\* hook, an answer or a row in a shape another does not expect.
THEOREM HeldTypeCorrect == Spec => []HeldTypeOK
<1>1. HeldIInv => HeldTypeOK
  BY TypeParts DEF HeldIInv, Types
<1> QED BY <1>1, HeldInvariant, PTL

\* At most one phone's decision is ever handed to the hooks of a request, not counting one that
\* was reported back as unused (answer, behind the gate), for any number of phones, hooks, crashes
\* and failed writes.
THEOREM HandedOnceHolds == Spec => []HandedOnce
<1>1. HeldIInv => HandedOnce
  BY DEF HeldIInv, Disk
<1> QED BY <1>1, HeldInvariant, PTL

\* A decision Claude took, or may still take, is covered by its claim or by an outcome on disk
\* (claim_answer before the hook is handed the decision).
THEOREM SentIsOnDiskHolds == Spec => []SentIsOnDisk
<1>1. HeldIInv => SentIsOnDisk
  BY DEF HeldIInv, Disk, CoverInv, Covered, Disowned, SentIsOnDisk
<1> QED BY <1>1, HeldInvariant, PTL

\* A decision reported unused is not the one Claude took.
LEMMA RefusedFollows ==
  ASSUME HeldIInv, NEW t \in Taps, tap[t].told = "refused"
  PROVE  took # t /\ (tap[t].sent => call # "asking")
<1>1. tap[t].sent => Disowned(t)
  BY DEF HeldIInv, Disk, CoverInv, Released
<1>2. took = t => tap[t].sent
  BY Names DEF HeldIInv, Disk, TookInv
<1> QED BY <1>1, <1>2 DEF Disowned

\* A phone told that its answer was not used is told the truth: Claude never acts on it.
THEOREM RefusedIsInertHolds == Spec => []RefusedIsInert
<1>1. HeldIInv => RefusedIsInert
  BY RefusedFollows DEF RefusedIsInert
<1> QED BY <1>1, HeldInvariant, PTL

\* A card in memory whose request already has an outcome is about to be removed: by the tap that
\* recorded it, or by the replay that brought it back (register's re-insertion).
THEOREM NoPhantomHolds == Spec => []NoPhantom
<1>1. HeldIInv => NoPhantom
  BY DEF HeldIInv, First, RegInv, PhantomInv, Replaying, NoPhantom
<1> QED BY <1>1, HeldInvariant, PTL

\* A hook whose call's result is in the event log does not wait on unless the result is still being
\* noted, a tap is about to answer it, or the read-back after the card is filed missed the result.
THEOREM ResultLetsGoHolds == Spec => []ResultLetsGo
<1>1. HeldIInv => ResultLetsGo
  BY DEF HeldIInv, HolderInv, InHand, ResultLetsGo
<1> QED BY <1>1, HeldInvariant, PTL

\* The truth of what is recorded, from the parts of the invariant.
LEMMA OutcomeFollows == HeldIInv => OutcomeIsTrue
<1> SUFFICES ASSUME HeldIInv, ledger # NoOutcome
    PROVE  /\ ledger.sure => call \in (IF ledger.d = "take" THEN Ran ELSE {"rejected"})
           /\ took # "none" => ledger.by = "phone" \/ faults > 0
  BY DEF OutcomeIsTrue
<1>1. Happened(call, ledger)
  BY DEF HeldIInv, Truth, TrueInv
<1>2. ASSUME took # "none", ~(faults > 0) PROVE ledger.by = "phone"
  <2>1. took \in Taps /\ faults = 0
    BY <1>2, BoundsAssumption DEF HeldIInv, Types, ClaudeType, RunType
  <2>2. ledger.by = "phone" \/ Shielded(took)
    BY <2>1 DEF HeldIInv, CreditInv
  <2> QED BY <2>2 DEF Shielded, Unwritten
<1> QED BY <1>1, <1>2 DEF Happened

\* An outcome recorded as observed is how the call went (resolve_without_phone's sources: the
\* transcript, the read-back and the sweep of ended calls), and the Mac is not credited with a
\* decision Claude took from a phone, unless a write failed.
THEOREM OutcomeIsTrueHolds == Spec => []OutcomeIsTrue
BY OutcomeFollows, HeldInvariant, PTL

-----------------------------------------------------------------------------
(* The refinement of the one decision.                                     *)

\* Whoever settles a decision whose fate is unknown does not claim to know it.
GuessInv == \A w \in Taps \cup {Recovery} : work[w] # Idle => ~work[w].o.sure

LEMMA GuessStep ==
  ASSUME Types, GuessInv, [Next]_vars
  PROVE  GuessInv'
<1> SUFFICES ASSUME NEW w \in Taps \cup {Recovery}, work'[w] # Idle
    PROVE  ~work'[w].o.sure
  BY DEF GuessInv
<1>1. w \in Workers /\ w \notin Closers /\ w \notin Hooks
  BY Names DEF Workers
<1>2. OutcomeMoves(w)
  BY <1>1, OutcomeComes
<1> QED BY <1>1, <1>2 DEF OutcomeMoves, GuessInv

LEMMA GuessHolds == Spec => []GuessInv
<1>1. Init => GuessInv
  BY DEF Init, GuessInv, Workers
<1>2. HeldIInv /\ GuessInv /\ [Next]_vars => GuessInv'
  BY GuessStep DEF HeldIInv
<1> QED BY <1>1, <1>2, HeldInvariant, PTL DEF Spec

\* What the mapping makes of a tap.
LEMMA MappedTap ==
  ASSUME NEW t \in Taps
  PROVE  /\ SentBy[t] = (IF tap[t].sent THEN tap[t].d ELSE "none")
         /\ SentBy'[t] = (IF tap'[t].sent THEN tap'[t].d ELSE "none")
         /\ t \in ToldUnused <=> tap[t].sent /\ tap[t].told = "refused"
         /\ t \in ToldUnused' <=> tap'[t].sent /\ tap'[t].told = "refused"
BY DEF SentBy, ToldUnused

LEMMA MappedSent ==
  ASSUME Types, NEW t \in Taps
  PROVE  /\ SentBy[t] # "none" <=> tap[t].sent
         /\ tap[t].sent => SentBy[t] = tap[t].d /\ tap[t].d \in Decisions
BY MappedTap DEF Types, TapType, TapRec, Decisions

LEMMA MappedOutcome ==
  ASSUME Types
  PROVE  /\ Abstract!Recorded <=> ledger # NoOutcome
         /\ \A d : Abstract!Fits(d) <=> call \in (IF d = "take" THEN Ran ELSE {"rejected"})
<1>1. NoOutcome.by = "none"
  BY DEF NoOutcome
<1>2. \A o \in Outcomes : o.by # "none"
  BY DEF Outcomes
<1> QED BY <1>1, <1>2 DEF Types, DiskType, Abstract!Recorded, Abstract!Fits, Ran

\* The call goes on: by the Mac, by the end of the run, or by the decision Claude takes.
LEMMA RefineCall ==
  ASSUME HeldIInv, HeldIInv', [Next]_vars, <<call, took>>' # <<call, took>>
  PROVE  Abstract!MacDecides \/ \E p \in Taps : Abstract!ClaudeTakes(p)
<1>0. Types /\ Sends /\ Disk /\ Types' /\ Sends' /\ Disk'
  BY DEF HeldIInv
<1>1. call = "asking" /\ ~UNCHANGED <<call, took>>
  BY <1>0, CallStep
<1>2. \/ \E e \in Ran \cup {"rejected"} : MacAnswers(e)
      \/ \E h \in Hooks : ClaudeReads(h)
      \/ \E c \in Closers : RunExits(c)
  <2>1. ClaudeActs
    BY <1>1, Frames
  <2> QED BY <1>1, <2>1 DEF ClaudeActs, ClaudeEndsHook, Crash
<1>3. UNCHANGED <<tap, ledger, faults>>
  BY <1>2 DEF MacAnswers, ClaudeReads, RunExits, ramVars, diskVars
<1>4. UNCHANGED <<SentBy, ToldUnused, ledger, faults>>
  BY <1>3 DEF SentBy, ToldUnused
<1>5. ASSUME took' = took PROVE Abstract!MacDecides
  <2>1. call' \in {"take", "other", "rejected"}
    BY <1>0, <1>1, <1>5 DEF Types, ClaudeType, Ran
  <2> QED BY <1>1, <1>4, <1>5, <2>1 DEF Abstract!MacDecides
<1>6. ASSUME took' # took PROVE \E p \in Taps : Abstract!ClaudeTakes(p)
  <2>1. PICK h \in Hooks : ClaudeReads(h)
    BY <1>2, <1>6 DEF MacAnswers, RunExits
  <2>2. /\ hook[h].reply \in Decisions
        /\ took' = CHOOSE t \in Taps : tap[t].sent /\ tap[t].resp = h
    BY <1>6, <2>1 DEF ClaudeReads
  <2>3. \E t \in Taps : tap[t].sent /\ tap[t].resp = h
    BY <1>0, <2>2 DEF Sends, HookChan
  <2>4. took' \in Taps /\ took' # "none"
    BY <2>2, <2>3, Names
  <2> DEFINE p == took'
  <2>5. p \in Taps /\ tap'[p].sent /\ call' = IF tap'[p].d = "take" THEN "take" ELSE "rejected"
    BY <1>0, <2>4 DEF Disk, TookInv
  <2>6. SentBy[p] # "none" /\ SentBy[p] = tap[p].d /\ call' = Abstract!Acts(SentBy[p])
    BY <1>0, <1>3, <2>5, MappedSent DEF Abstract!Acts
  <2>7. p \notin ToldUnused
    <3>1. tap[p].told = "refused" => call # "asking"
      BY <1>3, <2>5, RefusedFollows
    <3> QED BY <1>1, <2>5, <3>1, MappedTap
  <2>8. Abstract!Recorded => ledger.by = "phone" \/ faults > 0
    <3>1. OutcomeIsTrue'
      BY OutcomeFollows, PTL
    <3>2. ledger' # NoOutcome => ledger'.by = "phone" \/ faults' > 0
      BY <2>4, <3>1 DEF OutcomeIsTrue
    <3> QED BY <1>0, <1>3, <3>2, MappedOutcome
  <2>9. Abstract!ClaudeTakes(p)
    BY <1>1, <1>4, <2>6, <2>7, <2>8 DEF Abstract!ClaudeTakes, Abstract!Sent
  <2> QED BY <2>5, <2>9
<1> QED BY <1>5, <1>6

\* An outcome is recorded: by a task that settles or closes the card, or by the answer itself.
LEMMA RefineRecord ==
  ASSUME HeldIInv, HeldIInv', GuessInv, [Next]_vars, UNCHANGED <<call, took>>, ledger' # ledger
  PROVE  \E o \in Outcomes : Abstract!Record(o)
<1>0. Types /\ Sends /\ Tasks /\ Types' /\ Sends'
  BY DEF HeldIInv
<1>1. /\ ledger = NoOutcome /\ ledger' \in Outcomes
      /\ \/ \E w \in Workers : Record(w) /\ work[w].at = "record" /\ ledger' = work[w].o
         \/ \E t \in Taps : TapRecord(t) /\ ledger' = Phone(tap[t].d, card.question)
  BY <1>0, LedgerComes DEF Types, DiskType
<1> DEFINE o == ledger'
<1>2. ~Abstract!Recorded
  BY <1>0, <1>1, MappedOutcome
<1>3. UNCHANGED faults
  <2>1. CASE \E w \in Workers : Record(w)
    BY <1>1, <2>1 DEF Record
  <2>2. CASE \E t \in Taps : TapRecord(t)
    BY <1>1, <2>2 DEF TapRecord
  <2> QED BY <1>1, <2>1, <2>2
<1>4. UNCHANGED <<SentBy, ToldUnused>>
  <2>1. CASE \E w \in Workers : Record(w)
    <3>1. tap' = tap
      BY <2>1 DEF Record
    <3> QED BY <3>1 DEF SentBy, ToldUnused
  <2>2. CASE \E t \in Taps : TapRecord(t)
    <3>1. PICK t \in Taps : TapRecord(t)
      BY <2>2
    <3>2. /\ tap'[t].d = tap[t].d /\ tap'[t].sent = tap[t].sent /\ tap'[t].told # "refused"
          /\ tap[t].at = "record"
      BY <1>0, <3>1, TapResult
    <3>3. tap[t].told # "refused"
      BY <1>0, <3>2 DEF Sends, SentInv
    <3>4. \A u \in Taps : u # t => tap'[u] = tap[u]
      BY <1>0, <3>1, TapTurnEffect DEF TapTurn, TapStep
    <3> QED BY <3>2, <3>3, <3>4 DEF SentBy, ToldUnused
  <2> QED BY <1>1, <2>1, <2>2
<1>5. o.sure => Abstract!Fits(o.d)
  <2>1. Happened(call', ledger')
    BY <1>1 DEF HeldIInv, Truth, TrueInv, Outcomes, NoOutcome
  <2> QED BY <1>0, <2>1, MappedOutcome DEF Happened
<1>6. o.sure /\ o.by = "phone" => \E p \in Taps \ ToldUnused : SentBy[p] = o.d
  <2> SUFFICES ASSUME o.sure, o.by = "phone" PROVE \E p \in Taps \ ToldUnused : SentBy[p] = o.d
    OBVIOUS
  <2>1. PICK t \in Taps : TapRecord(t) /\ ledger' = Phone(tap[t].d, card.question)
    <3> SUFFICES ASSUME NEW w \in Workers, work[w].at = "record", ledger' = work[w].o PROVE FALSE
      BY <1>1
    <3>1. work[w] # Idle
      BY DEF Idle
    <3>2. w \in Taps \cup {Recovery} => ~work[w].o.sure
      BY <3>1 DEF GuessInv
    <3>3. w \in Hooks \cup Closers => work[w].o.by = "mac"
      BY <1>0, <3>1 DEF Tasks, WorkInv
    <3> QED BY <3>2, <3>3 DEF Workers
  <2>2. tap[t].at = "record" /\ tap[t].sent /\ tap[t].told # "refused"
    BY <1>0, <2>1, TapResult DEF Sends, SentInv
  <2>3. SentBy[t] = tap[t].d /\ t \notin ToldUnused /\ tap[t].d \in Decisions
    BY <1>0, <2>2, MappedTap, MappedSent
  <2>4. o.d = tap[t].d
    BY <2>1, OutcomeShape, <2>3 DEF Phone
  <2> QED BY <2>3, <2>4
<1>7. took # "none" => o.by = "phone" \/ faults > 0
  <2>1. OutcomeIsTrue'
    BY OutcomeFollows, PTL
  <2>2. ledger' # NoOutcome
    BY <1>1
  <2> QED BY <1>3, <2>1, <2>2 DEF OutcomeIsTrue
<1>8. Abstract!Record(o)
  BY <1>2, <1>3, <1>4, <1>5, <1>6, <1>7 DEF Abstract!Record
<1> QED BY <1>1, <1>8

\* A decision is sent: every other one that was sent has been reported unused.
LEMMA RefineSend ==
  ASSUME HeldIInv, HeldIInv', [Next]_vars, NEW t \in Taps, TapSend(t), chan[tap[t].resp] = "open"
  PROVE  \E d \in Decisions : Abstract!Send(t, d)
<1>0. Types /\ Sends /\ Types' /\ Sends' /\ HandedOnce'
  BY DEF HeldIInv, Disk
<1>1. /\ UNCHANGED <<call, took, ledger, faults>>
      /\ \A u \in Taps : u # t => tap'[u] = tap[u]
  BY <1>0, SendEffect, TapTurnEffect DEF TapSend, TapTurn, TapStep
<1>2. /\ tap[t].at = "send" /\ tap'[t].at \in {"confirm", "record"} /\ tap'[t].sent
      /\ tap'[t].d = tap[t].d /\ tap'[t].told = tap[t].told
  BY <1>0, TapResult
<1>3. ~tap[t].sent /\ tap[t].told = "none" /\ tap[t].d \in Decisions
  BY <1>0, <1>2 DEF Sends, SentInv, Types, TapType, TapRec
<1>4. \A q \in Taps : SentBy[q] # "none" => q \in ToldUnused
  <2> SUFFICES ASSUME NEW q \in Taps, SentBy[q] # "none" PROVE q \in ToldUnused
    OBVIOUS
  <2>1. tap[q].sent /\ q # t
    BY <1>0, <1>3, MappedSent
  <2>2. tap'[q].told = "refused"
    BY <1>0, <1>1, <1>2, <1>3, <2>1 DEF HandedOnce
  <2> QED BY <1>1, <2>1, <2>2, MappedTap
<1>5. SentBy[t] = "none"
  BY <1>3, MappedTap
<1>6. SentBy' = [SentBy EXCEPT ![t] = tap[t].d]
  BY <1>1, <1>2 DEF SentBy
<1>7. ToldUnused' = ToldUnused
  BY <1>1, <1>2, <1>3 DEF ToldUnused
<1> QED BY <1>1, <1>3, <1>4, <1>5, <1>6, <1>7 DEF Abstract!Send, Abstract!Sent

\* Steps that send nothing leave what was sent as it is.
LEMMA SentSame ==
  ASSUME Types, Sends, [Next]_vars, \A t \in Taps : ~(TapSend(t) /\ chan[tap[t].resp] = "open")
  PROVE  SentBy' = SentBy
<1>1. \A t \in Taps : tap'[t].sent <=> tap[t].sent
  BY SentKept, SentStep DEF SentInv, Types, TapType, TapRec
<1>2. \A t \in Taps : tap[t].sent => tap'[t].d = tap[t].d
  BY SentKept
<1> QED BY <1>1, <1>2 DEF SentBy

\* A phone is told that its decision was not used: Claude did not take it.
LEMMA RefineUnused ==
  ASSUME HeldIInv, HeldIInv', [Next]_vars, UNCHANGED <<call, took, ledger>>, SentBy' = SentBy,
         ToldUnused' # ToldUnused
  PROVE  \E p \in Taps : Abstract!ReportUnused(p)
<1>0. Types /\ Sends /\ Types' /\ Sends'
  BY DEF HeldIInv
<1>1. PICK p \in Taps : p \in ToldUnused' /\ p \notin ToldUnused
  <2>1. \A t \in Taps : t \in ToldUnused => t \in ToldUnused'
    BY <1>0, RefusedStays, SentKept, MappedTap
  <2> QED BY <2>1 DEF ToldUnused
<1>2. tap'[p].sent /\ tap'[p].told = "refused" /\ tap[p].sent /\ tap[p].told # "refused"
  <2>1. SentBy'[p] # "none" <=> tap'[p].sent
    BY <1>0, MappedTap DEF Types, TapType, TapRec, Decisions
  <2>2. tap'[p].sent /\ tap[p].sent
    BY <1>0, <1>1, <2>1, MappedTap, MappedSent
  <2> QED BY <1>1, <2>2, MappedTap
<1>3. ~Crash
  <2> SUFFICES ASSUME Crash PROVE FALSE
    OBVIOUS
  <2> QED BY <1>0, <1>2, TapCrash
<1>4. PICK t \in Taps : TapTurn(t) /\ \A u \in Taps : u # t => tap'[u] = tap[u]
  BY <1>0, <1>2, <1>3, TapsTurn DEF TapKept
<1>5. t = p
  BY <1>2, <1>4
<1>6. (TapEntry(p) \/ TapUnclaim(p)) /\ UNCHANGED faults
  BY <1>0, <1>2, <1>4, <1>5, TapResult DEF TapTurn, TapStep, Goes, Ends, TapEntry, TapUnclaim, Sends, SentInv
<1>7. ToldUnused' = ToldUnused \cup {p}
  BY <1>2, <1>4, <1>5 DEF ToldUnused
<1>8. p # took
  <2>1. took' # p
    BY <1>2 DEF HeldIInv, Disk, CoverInv, Released, Disowned
  <2> QED BY <2>1
<1>9. SentBy[p] # "none"
  BY <1>0, <1>2, MappedSent
<1> QED BY <1>6, <1>7, <1>8, <1>9 DEF Abstract!ReportUnused, Abstract!Sent

\* Whatever else a step does, it fails a write or shows nothing.
LEMMA RefineQuiet ==
  ASSUME Types, [Next]_vars, UNCHANGED <<call, took, ledger, SentBy, ToldUnused>>
  PROVE  Abstract!WriteFails \/ UNCHANGED Abstract!vars
<1>1. faults \in Nat /\ faults' \in {faults, faults + 1}
  BY FaultsGrow
<1>2. CASE faults' = faults
  BY <1>2 DEF Abstract!vars
<1>3. CASE faults' = faults + 1
  <2>1. (faults' > 0) = TRUE
    BY <1>1, <1>3
  <2> QED BY <2>1 DEF Abstract!WriteFails
<1> QED BY <1>1, <1>2, <1>3

LEMMA RefineInit == Init => Abstract!Init
<1> SUFFICES ASSUME Init PROVE Abstract!Init
  OBVIOUS
<1>1. \A t \in Taps : ~tap[t].sent
  BY DEF Init, Untouched
<1>2. SentBy = [p \in Taps |-> "none"] /\ ToldUnused = {}
  BY <1>1 DEF SentBy, ToldUnused
<1>3. (faults > 0) = FALSE
  BY DEF Init
<1> QED BY <1>2, <1>3 DEF Init, NoOutcome, Abstract!Init

LEMMA RefineStep ==
  ASSUME HeldIInv, HeldIInv', GuessInv, [Next]_vars
  PROVE  Abstract!Next \/ UNCHANGED Abstract!vars
<1>0. Types /\ Sends
  BY DEF HeldIInv
<1>1. CASE <<call, took>>' # <<call, took>>
  BY <1>1, RefineCall DEF Abstract!Next
<1>2. CASE UNCHANGED <<call, took>> /\ ledger' # ledger
  BY <1>2, RefineRecord DEF Abstract!Next, Outcomes, Decisions
<1>3. CASE UNCHANGED <<call, took, ledger>> /\ \E t \in Taps : TapSend(t) /\ chan[tap[t].resp] = "open"
  BY <1>3, RefineSend DEF Abstract!Next, Decisions
<1>4. CASE /\ UNCHANGED <<call, took, ledger>>
           /\ \A t \in Taps : ~(TapSend(t) /\ chan[tap[t].resp] = "open")
  <2>1. SentBy' = SentBy
    BY <1>0, <1>4, SentSame
  <2>2. CASE ToldUnused' = ToldUnused
    BY <1>0, <1>4, <2>1, <2>2, RefineQuiet DEF Abstract!Next
  <2>3. CASE ToldUnused' # ToldUnused
    BY <1>4, <2>1, <2>3, RefineUnused DEF Abstract!Next
  <2> QED BY <2>2, <2>3
<1> QED BY <1>1, <1>2, <1>3, <1>4

\* The held approval implements the one decision: over any hooks and replays, phones, closing
\* tasks, crashes and failed writes, every step of the daemon is a step of OneDecision or leaves
\* it as it is.
THEOREM Refinement == Spec => RefinesOneDecision
<1>1. Init => Abstract!Init
  BY RefineInit
<1>2. HeldIInv /\ HeldIInv' /\ GuessInv /\ [Next]_vars => [Abstract!Next]_(Abstract!vars)
  BY RefineStep
<1> QED BY <1>1, <1>2, HeldInvariant, GuessHolds, PTL DEF Spec, RefinesOneDecision, Abstract!Spec
=============================================================================
