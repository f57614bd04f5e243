# A TLA+ verification of CodeConnect

CodeConnect lets a phone watch and answer coding agents (Claude Code and Codex) that run
on a Mac. This directory holds the TLA+ modules that model its core, the TLC
configurations that check them and the TLAPS proofs about them. Paths below are relative
to the repository root `src/`.

## 1. Inventory: the parts of the system

| part | where | state it keeps | what it does |
|---|---|---|---|
| Codex broker: relay | `mac/codex-broker/src/relay.rs`, `upstream.rs` | one task and one upstream pump per connection; the head fan-out table | stands between the Codex app-server and two kinds of clients, the keyboard (`tui.sock`) and the daemon (`ccd.sock`); forwards, refuses, or withholds whole messages |
| Codex broker: response arbiter | `response_capability.rs` | the one-use slot of every approval; each leg's view of request ids | lets exactly one answer to an approval through, whichever leg it comes from |
| Codex broker: session threads | `session.rs` | the head (the thread the keyboard is on), retired threads, outstanding request ids, running and admitted turns | follows the keyboard's moves, admits the phone's requests and idle turns |
| Codex broker: policy | `refusal.rs`, `allowlist.rs`, `message.rs`, `redact.rs` | none | classifies a phone frame into forward, refuse, drop or close |
| daemon: event store | `mac/ccd/src/store.rs`, `db.rs` | sessions, the per-session event log with its sequence numbers, approvals, push outbox (SQLite) | the durable truth behind every reconnect |
| daemon: session state | `mac/ccd/src/state.rs` | live sessions, held Claude approvals with their channels, a gate per answer | hooks in, decisions out; closes what was answered at the Mac; recovers after a crash |
| daemon: phone socket | `mac/ccd/src/ws_server.rs`, `presence.rs` | one subscription per phone | authenticates, backfills and streams events, takes commands |
| daemon: hook socket | `mac/ccd/src/ipc_server.rs` | one task per hook connection | takes hook calls from `cc-hook`, holds the ones that wait for a decision |
| daemon: Codex link | `mac/ccd/src/codex_link.rs`, `codex_adapter.rs`, `codex_approval.rs`, `codex_wake.rs` | the connection to the broker, pending approvals, the request ledger | the daemon's side of the broker protocol |
| daemon: push | `mac/ccd/src/push_queue.rs`, `push_gate.rs`, `relay_sender.rs`, `apns_sender.rs` | the current notification of each run, what each phone has been sent, a bounded queue and a worker per phone | decides what deserves a notification, waits a grace, and sends it to Apple or through the relay |
| daemon: terminal, mail, tailer, session start | `mac/ccd/src/terminal.rs`, `mail.rs`, `tailer.rs`, `start_session.rs`, `claude_waiter.rs` | keystroke injection, the mailbox of messages for an agent, transcript offsets | reaches into a running agent |
| hook client | `mac/cc-hook/src/main.rs` | none | one process per hook call: talks to the daemon, fails open |
| launcher | `mac/codeconnect/src/*` | supervisor leases, Codex host/coordinator/custodian state, the update staging area | starts and supervises agents, installs updates, pairs phones |
| push relay | `mac/push-relay/src/*` | enrolments, challenges, rate-limit buckets | a server that forwards notifications to APNs |
| shared protocol | `mac/protocol/src/*` | none | wire types, hashing, risk classification, pairing payloads |
| phone kit and app | `CodeConnectKit/`, `ios/` | connection and cursor per Mac, cached models | the phone's client and its views |

### How the parts interact

The app-server sends every approval request on every connection it has. The broker gives
each client connection (a *leg*) its own upstream connection, so one approval reaches the
keyboard's leg and the daemon's leg under a request id that is private to the leg. Both may
answer. The arbiter is shared by all legs and guarded by one mutex; a leg's view of ids is
private to its task. An answer that wins the slot goes through a bounded channel to the
leg's pump, and the pump's receipt comes back over a one-shot channel. The head is shared
as well: the keyboard's requests and the server's answers move it, phone answers and phone
turns are checked against it, and daemon legs are told about it through a fan-out table
with a wake-up per leg.

In the daemon, hooks, transcripts and Codex links publish events: each appends to the store and
then broadcasts, both inside a gate per session. Every phone socket has its own receiver on the
broadcast ring, a watermark per session it follows, and a backlog of sessions to be replayed from the store
when it subscribes, falls behind or meets a gap. Store calls run on a blocking pool.

A permission request of Claude arrives as a hook whose connection the daemon holds open. The
daemon registers a card in memory with a one-shot channel to the hook, writes it to the store and
broadcasts it. A phone's answer passes a gate per request, claims the request on disk, hands the
decision to the hook's channel, and records what became of it. The same request may be answered at
the Mac's keyboard: the result then arrives as another hook, as a line of the transcript, as the end
of the turn or of the run, or as a dialog that has left the screen, and each closes the card.
After a crash the start-up task settles the claims that were left and restores the cards.

A card, or a notification of Claude's, asks the push gate for a doorbell. An admitted doorbell is a
task of its own: it waits out a grace, looks whether the owner is at the Mac, takes the order lock,
counts the waiting decisions and files one delivery per phone. Each phone has a queue and a worker,
which posts to one of Apple's two hosts, tries the other when it named the wrong one, and withdraws
the token Apple disowns. A revoked phone's queue is retired while its worker runs.

### What is hard

* two legs answering one approval, each suspended between "allowed" and "written";
* a write whose fate is unknown (pump died, deadline passed): neither retry nor release is free;
* a head read under one lock and used under another;
* a bare response id that may name two requests;
* answers to keyboard moves that arrive after another move started, or never;
* turn announcements that are duplicated across legs and arrive late;
* a head that binds on one leg's task and must reach another leg's task exactly when it is owed;
* an event that is appended while a replay of the same session is being read;
* a socket that falls off the broadcast ring with half a page in hand;
* a store call that outlives the task that made it;
* a phone and the Mac answering one request, and a crash between claiming, handing and recording;
* a request replayed after it was answered, and a result that arrives before the card is written;
* a doorbell that was right when it was admitted and is not when it rings;
* a delivery filed on a queue that is being retired, or between a worker's last look and its sleep.

### What makes each part correct

* **Arbiter.** At most one answer to an approval ever reaches the app-server; a slot is not
  spent without an answer; the daemon is told the truth about its own answer and about who won;
  a bare id never means two requests; no leg waits for ever.
* **Session head.** A phone is judged only against the thread the keyboard provably is on;
  a thread the session was on stays readable.
* **Turns.** A running turn is known to be running; an ended turn is not revived; no thread
  stays busy for ever; every response names one request.
* **Head fan-out.** Every daemon leg that is owed the head is told it; a late announcement that walks a leg
  back to an older thread is followed by the head again.
* **Event stream.** A phone is sent every event of a session it follows, once and in order;
  what it has not been sent is on its way; a gap is announced only when there is one.
* **Held approvals.** A request is decided by at most one phone; a decision on its way is on disk
  before it leaves; what is recorded is what happened; a refused phone's decision is not used; an
  answered request is not offered again; every hook is let go and every card closes.
* **Codex link** (planned). An approval leaves the daemon's table only with a disposition; a
  reconnect neither loses nor repeats an answer.
* **Push.** A card rings once, also when its hook and its notification both ask; a phone that has seen it is not
  rung; a card that stays open rings, unless a read of the screen took it for answered; a queue's counts do not go
  backwards; no delivery is left sleeping in a queue; each worker rings a revoked phone at most once more.
* **Push relay** (planned). A challenge is used once; a bucket never grants more than its rate.
* **Launcher** (planned). After a crash exactly one owner of a Codex host remains.

## 2. Plan

Done, in this order: `ResponseArbiter` with its abstract specification `OneUseSlot`,
`SessionHead`, `SessionTurns`, `HeadFanout` (which composes `SessionHead` with the subscriber
table), `EventStream` with `FollowedLog`, `HeldApprovals` with `OneDecision`, `PushGate`,
`DeviceQueue`. Each has its proofs in a module of its own.

Next, most important first:

1. `CodexLink`: the daemon's request ledger and pending approvals, composed with
   `ResponseArbiter` so that a disposition has a receiver.
2. `PhoneCache`: the phone's event cache and cursor as the client of `EventStream`, across
   reconnects.
3. `PhonePolicy`: the classification of phone frames as operators checked against a reference
   definition; the pause of the daemon socket.
4. `RelayServer`: challenges and token buckets.
5. `Custodian`: crash recovery of Codex hosting. `TailCursor`: transcript offsets.

## 3. The modules and the code

Every definition that stands for code is mapped to its lines in `PROJECT.json`. An operator
whose name ends in `_Slip` is a plausible mistake in the operator of the same name; it is no
part of any specification and exists to show that a property notices it.

**`ResponseArbiter`** (`response_capability.rs`, the answer path of `relay.rs`, `upstream.rs`).
`slots` is the shared table of one-use slots, `view`, `poisoned` and `asked` are a leg's ids,
`stage` says where a leg's task is: `checked` between the head check and the reservation,
`handoff` at the bounded channel, `receipt` at the one-shot, `tell` before the disposition.
Each await is a boundary between actions; what runs between two awaits is one action.
A phone answer reads the head under the session's lock and takes the slot under the arbiter's,
so the head may move in between. The app-server's writes succeed, fail or die half-way, and the
budget may expire at any time. `answers` records what was or may have been written.

**`OneUseSlot`** is what the arbiter promises: open, answering, then answered, unproven, or
open again. It knows nothing of legs, channels or ids.

**`SessionHead`** (`session.rs`, keyboard legs of `relay.rs`). `head` is `Unbound`, `On` or
`Moving` with the thread it would go back to. A move is recorded, then handed over, then
answered (result, unusable, ambiguous, error) or never. `truth` and `dest` are history: what the move
really did at the app-server. The app-server is external and may act late.

**`SessionTurns`** (`session.rs`). `admitted`, `running` and the remembered terminals are
`TurnActivity` and `TerminalEpochs`; the ledger of ids is per connection. The app-server runs one
turn per thread, answers in any order across connections and in order on one, and tells every
connection of each start and end.

**`HeadFanout`** (`relay.rs`) extends `SessionHead` with the daemon legs: `sub`, `told` and
`wake` are a subscriber's entry, `asking` the tasks inside `deliver_head`. The keyboard's
actions are those of `SessionHead` conjoined with what the same handler does to the table. `news` are
announcements on their way, those of a keyboard's move and those of none (`ServerAnnounces`, at most `MaxChatter`
with the other frames no move caused). The wake arm is the last of the leg's biased select, which orders only frames the leg
already holds: an announcement still in the socket may arrive after a leg was told the newer head. It then walks the leg
back, and the `deliver_head` after that very frame wakes it again.

**`EventStream`** (`ws_server.rs`, `ingest` in `state.rs`, `store.rs`, `db.rs`). A publisher
takes the session's gate, submits its append to the blocking pool (`submitted`), learns that it
committed (`committed`) and broadcasts event by event. A Codex link's task may be aborted at its
await: the gate opens, the store call goes on. `ring` holds everything ever broadcast, of which
the last `BROADCAST_CAPACITY` can be received; `pos` is a socket's place in it. A socket's loop
takes one action per arm: `Receive` or `Lagged`, `Step` of the backlog, or a client message. Since
a session's seqs are 1, 2, 3, ..., its log is a number and a page an interval. `Crash` keeps only
the store. `base`, `sent` and `lost` are history.

**`FollowedLog`** is what that promises, without publishers, ring, pages or replays: a log that only
grows, and phones that are each sent the event after the last one they have, and only once it is in
the log. The store's `log` and `deleted` are its own, and a socket's watermark is its cursor. So one step
sends a socket one event at most, a crash and a lag are stops or nothing, and nothing is sent before it is durable.

**`HeldApprovals`** (`state.rs`, `store.rs`, `ipc_server.rs`, `cc-hook`). One request, since
everything is keyed by session and request id. `entry` is the card in memory, `chan` the one-shot
channel of each hook, `row`, `claim` and `ledger` the three tables, `asked`, `result` and `told` what
is in the event log. `hook[h].at`, `tap[t].at` and `work[w].at` say where `handle_permission_request`,
`answer` and `resolve_without_phone` are suspended; a store call or an await is the boundary
between two actions. Claude is external: it takes the first answer of the Mac or of a hook, may end a
hook at any time, and afterwards sends `PostToolUse`, which may be lost, and writes the
transcript. `Crash` keeps the tables and the log; `RecoverClaim` and `Restore` run before any
socket is open. `faults` are writes that fail, the release of a claim among them, whose failure the code ignores. The reads
of the ledger and of a claim may fail at any time and refuse the answer. `missed` says that a hook's read-back of the log did
not find a result that was there: a query failed, the call's own event was not found, or the result lay beyond a thousand
events. A replay of the request arrives only once the request is in the log, as a redelivery does.

**`OneDecision`** is what that promises, without hooks, channels, tables or restarts: Claude decides
once, a phone's decision is sent only while no other is on its way, one that was reported unused is never acted
on, and one outcome is recorded and never replaced. What was sent is read from the taps (`SentBy`),
what was reported from the answers they gave (`ToldUnused`), the outcome from the ledger, and `faults` says
whether a write has failed, the one excuse for an outcome that credits the Mac with a phone's decision.

**`PushGate`** (`push_gate.rs`, the doorbell task `dispatch_push` of `state.rs`). One run: `wm`,
`ambient`, `rung` and `prompted` are the gate's tables for it; then its cards and its notifications, and up to `MaxRings` doorbell tasks at `grace`, `look`,
`screen`, `row`, `order`, `check`, `count` or `send`. The run makes progress, ends, or is deleted in three steps
(checked, rows gone, evicted) while doorbells are in flight. The owner may come back while one waits. What a
doorbell's read of the screen shows is free, for the dialog of an open card may be hidden for a moment; `taken` records the cards a
read took for answered.

**`DeviceQueue`** (`push_queue.rs`, `apns_sender.rs`, the token rows of `store.rs`). One phone: its
row, the map of queues, each queue's deliveries, wake permit and worker. A delivery reads its target,
is handed a queue, and is pushed, each a step of its own; a doorbell takes the first waiting
doorbell out, by its position, and goes to the end; a full queue loses its first test the same way. Apple is external: it accepts, names the other host, disowns the token, or fails.

## 4. The runs

| run | what is in it | shows |
|---|---|---|
| `arb` | a keyboard and a daemon leg, two threads, room for one slot; fairness | `OneAnswer`, `TruthfulDisposition`, refinement of `OneUseSlot`, `LegSettles` |
| `arb_ids` | two ids, caps of one | `NoAlias`, `NoLockout` with a full view, a full arbiter and reused ids |
| `head` | two keyboards, three moves, two threads, one retired slot | `HeadIsProven`, `HeadsStayReadable`, `BindsByProof` |
| `turns` | a keyboard, two phones, two threads, every table at one or two | `KnownBusy`, `EndedStaysEnded`, `NoStuckBusy`, `IdsCorrelate`, `TypeOK` |
| `fanout` | a keyboard, a daemon leg, two moves, a frame no move caused, an announcement buffer of one; fairness | `OwedIsAsked`, `FanoutTypeOK`, `HeadReaches` |
| `stream` | one session, an abortable and a plain publisher, ring and page of one, three events; fairness | `InOrder`, `NothingStranded`, `GapIsReal`, refinement of `FollowedLog`, `BroadcastReaches` |
| `hold` | a question or an approval, a hook and its replay, two phones, one crash, one failed write | `HandedOnce`, `RefusedIsInert`, `NoPhantom`, refinement of `OneDecision` |
| `hold_live` | a question or an approval, a hook, a phone, the Mac, a closing task, one crash, a read-back that may miss; fairness | `SentIsOnDisk`, `OutcomeIsTrue`, `ResultLetsGo`, and of approvals `HooksAreReleased`, `CardsClose` |
| `hold_doc` | a hook, a phone | a violation: see section 7 |
| `hold_tail` | a hook, the Mac, the tailer; fairness | a violation: see section 7 |
| `ring` | a card, a notification, two doorbells, one return of the owner, a deletion; fairness | `OneRing`, `SeenNotRung`, `CardRings`, `GateTypeOK` |
| `push` | two doorbells and a test, two registrations, two queues, a queue bound of one, one dying worker | `NoWorkSleeps`, `NeverOlder`, `LateOnce`, `DeviceOK` |

The type invariants of `ResponseArbiter`, `SessionHead`, `EventStream` and `HeldApprovals` are proved and need no run; so is `InOrder`
for any number of sessions, which `stream` checks on one.

Why the bounds are enough. Each property is about two parties and one thing they compete
for, so two of each, with the table one entry smaller than what is offered to it, meets every
case the code distinguishes: the slot is taken, free or at the cap; a move is the last one, an
overtaken one or the one before that; a ring of one slot makes a socket lag after two events, and
a page of one makes every replay longer than a page. One crash falls between any two writes, and what it leaves is what a
second one would start from; two phones and a replayed hook are the fewest that can contend for one claim and one
registration, which `hold` checks with a failed write, without the closing tasks and with a log that reads back
what was filed. `hold_live` has those tasks and reads that miss (`ReadsMiss`), for one phone, and lets no write fail; the
theorems on the safety properties cover all of it together. Two doorbells meet at the gate, at the order lock and in the queue; two tokens and two
queues let an old one be answered after a new one is in use. Three moves are the fewest in which an
overtaken move is answered after the one that overtook it failed. `MaxMoves`, `MaxTurns`,
`MaxStarts`, `MaxSeq`, `MaxBatch`, `MaxOrphans`, `MaxChatter`, `ReadsMiss`, `MaxCrashes`,
`MaxFaults`, `MaxRings`, `MaxReturns`, `MaxTokens`, `MaxQueues` and `MaxPanics` are bounds of the model only; the
other caps are constants of the code (`MAX_RETIRED_THREADS`, `BROADCAST_CAPACITY`, `REPLAY_PAGE`
and so on) made small. Symmetry is used only where no liveness property is checked. Deadlock is
not checked in the broker's runs, because a session whose connections have all closed is over,
nor in the runs of a single request or a single phone, which end when it has been served;
it is checked in `stream`, where the daemon can always be restarted.

## 5. Fairness

* `arb`: weak fairness of a leg's own steps once it holds an answer (its deadline, its receipt,
  its disposition). The runtime polls a ready task and fires its timers; a client or the
  app-server is never assumed to do anything.
* `fanout`: weak fairness of each task of a keyboard or daemon leg. A frame that is being
  delivered ends or fails, and the legs are polled. The keyboard's moves and the app-server are not fair. `MaxChatter` says that the
  app-server does not send for ever without a pause, which would keep the wake arm of the biased select from its turn;
  each of those frames ends in a `deliver_head`, but only the wake arm tells the leg.
* `stream`: weak fairness of a socket's backlog arm and of its broadcast arm. The loop's
  `tokio::select!` is not biased and picks at random among the ready arms, as the comment on the
  replay arm says it must, so an arm that stays ready is taken. Publishers are not assumed to make progress. The property is
  conditional on the phone not subscribing anew for ever, since each subscription starts over.
* `hold_live`, `hold_tail`: weak fairness of each task of the daemon: the hook's handler, the phone's answer, the
  outcome being written, the recovery, the tailer, and the sweeps, which run on an interval. Claude, its
  hooks, the person at the Mac and the phones are not fair.
* `ring`: weak fairness of each doorbell's own steps. `MaxReturns` says that the owner does not come back to
  the Mac for ever, and fairness that an owner who is looked for is away at some time; the grace
  is a timer.
* `push` has no fairness: `NoWorkSleeps` is the safety form of progress, that a queue with work in it has a worker
  that is awake or a wake-up it cannot miss.

## 6. What is proved

All of it for any sets of legs, threads, ids, sessions and any caps, under the assumptions the
modules name (distinct roles, natural caps, finite sets of sessions).

* **`ResponseArbiter_proofs`**: `TypeOK`, `OneAnswer`, `NoLockout`, `NoAlias`,
  `TruthfulDisposition`, and that the arbiter implements `OneUseSlot`, from one inductive invariant. The properties speak of slots and
  answers; what protects them is where each task is. `TaskInv` says that a writing task holds a
  slot exactly if its answer names one, `HolderInv` that a held slot has one holder and no answer on
  record, `AnswerInv` that the record determines the slot, `BackedInv` that a taken slot has one
  or the other behind it, `ViewInv` that a bound id was asked once unless the view was full.
* **`SessionHead_proofs`**: `TypeOK`, `HeadIsProven`, `HeadsStayReadable` and the action property
  `BindsByProof`. `HeadInv` carries the proof of the position *before* the move in flight, which is
  what a rollback needs; `SendInv` says that nothing is known of a move still being handed over.
* **`SessionTurns_proofs`**: `TypeOK`, `EndedStaysEnded`, `IdsCorrelate`, `KnownBusy` and `NoStuckBusy`.
  The last three speak of the broker's tables, and hold because of what is on the wires. `FlightInv`: ids in flight on a leg
  are apart, and a phone's are in its ledger. `StartInv`: a turn/start on its way, or its answer, has an unanswered entry
  of its thread. `EntryInv`: an unanswered entry belongs to an open leg with the request or the answer on its way.
  `TurnInv`: no frame, mark or memory is of a turn not started, and what was heard to end has ended.
  `HeardInv`: a turn heard to end is not active, and is remembered while a frame of it is on its way. `NewsInv`: a terminal not
  yet remembered is on its way to every open leg that is no stranger. `KnownInv`, which gives `KnownBusy`: each running turn has a start
  that is answered with no terminal of the thread to come, or unanswered with its result behind all of those on its own leg, so
  that by the time it is answered none is left to end it by mistake. The four exceptions of `KnownBusy` are where this fails.
* **`HeadFanout_proofs`**: `FanoutTypeOK`, `OwedIsAsked`, and for the
  composition `HeadIsProven`, `HeadsStayReadable` and `BindsByProof`. Every step of the fan-out is a step of `SessionHead`, leaves
  the head alone, or moves one keyboard's task on (`FanoutSteps`), so the head's own invariant and step lemmas are reused as they stand.
  `OwedIsAsked` needs no strengthening beyond types: an announcement that is late, or of no move, changes what a leg was told only
  while that leg's own task is still to ask.
* **`EventStream_proofs`**: `TypeOK`, `InOrder`, `NothingStranded`, `GapIsReal` and the refinement of `FollowedLog`. `InOrder`
  needs `PageFits`: a page in hand starts no later than the successor of the watermark, so that
  whatever the broadcast arm sent meanwhile, popping it skips nothing. `GapIsReal` needs
  `InSeqOrder` (the ring is in seq order per session, and what a publisher is about to broadcast
  is above all of it), which is what the publish gate is for, and then follows from
  `NothingStranded`: the expected event is below the one at hand, so it is neither ahead in the
  ring nor in a publisher's hands. `ClosedFollowsNothing` serves new connections. The refinement maps each step
  to one of the log or to none; a page popped later than it was read is still a delivery from the store because of
  `PageStored` (a page in hand holds events of the store, which only grows), and a broadcast one because the ring does too.
* **`HeldApprovals_proofs`**: `HeldTypeOK`, `HandedOnce`, `SentIsOnDisk`, `RefusedIsInert`, `NoPhantom`,
  `ResultLetsGo`, `OutcomeIsTrue` and the refinement of `OneDecision`, for any cards, hooks, phones, closing tasks, crashes and failed writes. `Sends` says that a decision is in one
  channel, whose sender is in the card or in the hand of one tap; `Tasks` which task holds the answer
  gate, from its look at the ledger to its last write; `Disk` what the claim, the row and the ledger
  say of a decision that was sent; `First` that one hook only gets past filing the card;
  `PhantomInv` that a card a replay brought back stays only while that replay is being refused;
  `HolderInv` that the sender of a filed hook's open channel is in the card or in a tap's hand, and that a filed result
  is noted, about to be, or was missed by that hook's own read of the log.
  `OutcomeIsTrue` needs two more. `Truth`: what a hook, the transcript or a dialog reported is what happened to the call, and a
  rejection is told once, by one task. `ShieldInv` and `CreditInv`: while a phone's decision may still reach Claude its card is
  claimed, or gone with the daemon, so that nobody else can record for the Mac what Claude took from the phone. The refinement
  adds `GuessInv`: what a phone's task or the recovery writes for the Mac is a supposition, never recorded as observed. The proof first establishes what each step makes of a
  hook, a channel, the card, a tap and a task, and then each part from those.
* **`PushGate_proofs`**: `GateTypeOK`, `OneRing` and the action property `SeenNotRung`. `BeforeInv` rests on the
  gate's tables, `AfterInv` takes over when the eviction has emptied them: a doorbell admitted before
  carries the epoch that moved, one admitted later finds no run.
* **`DeviceQueue_proofs`**: `DeviceOK`, `LateOnce`, `NoWorkSleeps` and the action property `NeverOlder`, for any
  doorbells, tests, registrations, queues and dying workers. `PlaceInv`: a delivery that was filed is in one queue, once,
  or in the hand of that queue's worker. `OrderInv`: one doorbell is between its count and its queue, and
  carries the newest count. `AgeInv`: what waits is no older than what the worker holds, nor that than what it last
  posted; with the coalescing of doorbells (`Short`) this is why a worker may take the head of its queue.
  `LateInv`: a doorbell about to be posted was authorized before the revocation. `SleepInv`: a worker goes
  only from a closed queue, and a closed queue it is about to park on has left it a permit. What a
  push does to the sequence (`CoalescedMakes`, `TrimmedMakes`, `NowMakes`) is proved from the least
  position of a kind, with the library's well-founded order on the naturals.

The assumptions on the constants: distinct roles and disjoint sets of tasks (`TasksAssumption`,
`QueueAssumption`, `PublishersAssumption`), since a hook is not a phone and a doorbell not a test; `"none"` and the other
markers of absence are nobody's name; natural caps; finite sets of sessions and of doorbells, because what a
daemon has counted is finite.

Only model-checked: the liveness properties (`LegSettles`, `HeadReaches`, `BroadcastReaches`,
`HooksAreReleased`, `CardsClose`, `CardRings`), which are out of the prover's reach. Every invariant, action
property and refinement that a passing run checks is proved. `SentIsReturned` and `TranscriptCloses` are
refuted by their runs (section 7).

## 7. Where the code and its words differ

With a run:

* `hold_doc`: a card is broadcast (`state.rs` 3460) before the hook asks whether it is still pending (3521). A
  phone that decides in between has its decision sent and recorded as applied, and the hook, which
  finds no card, lets Claude show its own dialog.
* `hold_tail`: whether the call has ended is read before the card is registered (`state.rs` 3309, 3421). A transcript
  result read in between finds no card and closes nothing, and the hook stays held until Claude ends it or the run
  ends, though the comment at 2953 says this is what closes a card when Claude does not.

Without a run:

* A connection that closes unanswered takes the busy mark of its turn with it (`session.rs` 437), and a
  phone's turn can be admitted on a busy thread until the turn is announced elsewhere, though the doc at 10 says a
  phone never starts a turn on a busy thread. `KnownBusy` names it as its first exception.
* The doc of the pump's receipt (`upstream.rs` 51) says a dropped one must be read as a failed
  write; the code (`relay.rs` 1075) keeps the slot. The code is right: releasing it would let out a
  second answer, which is what `OneAnswer` excludes.
* A keyboard that dies with the frame that binds the head returns before it wakes anybody
  (`relay.rs` 616, against the doc at 1274); a daemon leg learns the head at the next frame any leg delivers. `OwedIsAsked` states what remains.
* An event whose Codex link is aborted during its append (`state.rs` 2810) is in the log and is not broadcast,
  though `ws_server.rs` 5 says live events follow. A phone that had caught up sees it when the next event shows a gap.
* Between the removal of a card and the record of its outcome (`resolve_without_phone`) a replayed
  request registers a new card, which a phone can answer.
* A recovery whose write fails, followed by a sweep, erases the claim it was settling; `OutcomeIsTrue` excepts it. A crash between the record and its announcement loses the event.
* `relay.rs` (376) says that a frame chosen earlier "would walk the link back onto a thread the session has left". A late
  announcement does walk a leg back, as the doc at 1199 grants, until the `deliver_head` after that frame has told it the head again; that no leg stays there is `OwedIsAsked`
  and `HeadReaches`.
* The read-back of a result filed during the registration may miss it (`state.rs` 3476): an approval's hook is then let go by the
  transcript, a question's hook by the end of its turn, or not before Claude ends it. `ResultLetsGo` excepts it.
* A claim whose release failed (`state.rs` 6902) stays although nothing was sent: the next phone's answer, or a restart,
  settles the request as unknown.
* A dialog that was read as answered "and then back on the screen is still a decision" (`state.rs` 10384), but its doorbell
  has been dropped (4033) and the gate keeps the card as rung: an open card that is misread when it would ring never rings.
  `CardRings` excepts it.
* Between the withdrawal of a phone's token and the closing of its queue, a phone that registers again
  has its new doorbell drained with the old. Two workers of one phone may overlap after that, so
  order is promised per queue. A doorbell whose run's row could not be read may ring again, by design.

Limits met on the way that have no run of their own: a keyboard's `turn/start` may overtake an
admitted phone turn on its way to the app-server, which then joins the two; the terminal of an
earlier turn that reaches a leg late clears the answered mark of a turn started by a connection
opened since (the exception `late` in `KnownBusy`); a late hook that carries the uid of a deleted run creates
the run anew with seqs from 1, below the watermarks other sockets still hold.

## 8. What is not modelled

Payloads, wording, logging and layout throughout. In the broker: the upgrade handshake, the pause of the
daemon socket, initialisation and binary frames, and the choice between the app-server's
announcement and the broker's own notice of a head. In the event stream: authentication and
revocation, history pages, source ids, transcript cursors, the terminal. In held approvals: deleted
sessions, Codex runs, payload hashes, the events that announce a hold, and two hooks of one
request before either is in the log. In push: the relay sender, doorbells for the end of a turn, and payloads; several phones, which share only the count.
The parts listed in `PROJECT.json` as not modelled are there with their reasons:
either planned (section 2), or pure I/O and presentation.
