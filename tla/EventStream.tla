----------------------------- MODULE EventStream -----------------------------
(* The daemon's event log on its way to the phones: publishers that append to  *)
(* the store and then broadcast, the bounded broadcast ring, and one loop per  *)
(* phone socket that follows sessions by a watermark and replays the log in    *)
(* pages when it is behind.                                                    *)
(*                                                                             *)
(* Source: mac/ccd/src/ws_server.rs (the socket), state.rs (ingest, the        *)
(* publish gate, deletion), store.rs (sequence numbers, reads), db.rs (store   *)
(* calls run on a blocking pool and cannot be cancelled).                      *)
(*                                                                             *)
(* Sequence numbers of a session are 1, 2, 3, ...; the log of a session is     *)
(* therefore its length, and a page of it is an interval. Payloads, markers    *)
(* (seq 0), earlier-history pages and the push gate's record of deliveries     *)
(* are left out.                                                               *)
EXTENDS Integers, Sequences, FiniteSets

CONSTANTS
  Sessions,           \* session uids
  Links,              \* publishers whose task may be aborted: Codex links
  Tailers,            \* publishers that are never aborted: transcripts, hooks
  Conns,              \* phone sockets
  BROADCAST_CAPACITY, \* slots of the broadcast ring
  REPLAY_PAGE,        \* events per page of a replay
  MaxBatch,           \* bound: events of one transcript scan
  MaxSeq,             \* bound: events of one session
  MaxOrphans          \* bound: abandoned store calls of one session

ASSUME BoundsAssumption ==
  /\ BROADCAST_CAPACITY \in Nat \ {0}
  /\ REPLAY_PAGE \in Nat \ {0}
  /\ MaxBatch \in Nat \ {0}
  /\ MaxSeq \in Nat
  /\ MaxOrphans \in Nat

ASSUME SessionsAssumption == IsFiniteSet(Sessions)

ASSUME PublishersAssumption == Links \cap Tailers = {}

VARIABLES
  log,      \* [Sessions -> Nat]: events of a session in the store
  deleted,  \* sessions whose rows are gone (their log is never read again)
  job,      \* what each publisher is in the middle of
  orphans,  \* [Sessions -> Nat]: store calls whose caller was aborted
  lost,     \* history: committed seqs nobody will broadcast
  ring,     \* every event broadcast so far; the last few are still held
  open,     \* the sockets that are connected
  pos,      \* [Conns -> Nat]: index in ring of the next event to receive
  wm,       \* [Conns -> [Sessions -> Int]]: watermarks, None when not subscribed
  queue,    \* [Conns -> Seq(Sessions)]: Backlog.sessions
  page,     \* [Conns -> interval]: Backlog.page
  base,     \* history: after_seq of the current subscription
  sent      \* history: seqs sent under the current subscription, in order

storeVars == <<log, deleted, orphans, lost>>
phoneVars == <<open, pos, wm, queue, page, base, sent>>
vars == <<log, deleted, job, orphans, lost, ring, open, pos, wm, queue, page, base, sent>>

-----------------------------------------------------------------------------
Publishers == Links \cup Tailers
None == -1
Idle == [at |-> "idle"]
Jobs == {Idle} \cup [at : {"submitted", "committed"}, s : Sessions, lo : Nat, hi : Nat]
NoPage == [lo |-> 1, hi |-> 0]
IsEmpty(p) == p.lo > p.hi

Elements(q) == {q[i] : i \in 1..Len(q)}
Once(q) == \A i, j \in 1..Len(q) : q[i] = q[j] => i = j
Replaying(c, s) == s \in Elements(queue[c])
Front(c, s) == queue[c] # <<>> /\ Head(queue[c]) = s
Subscribed(c, s) == wm[c][s] # None

Init ==
  /\ log = [s \in Sessions |-> 0]
  /\ deleted = {}
  /\ job = [p \in Publishers |-> Idle]
  /\ orphans = [s \in Sessions |-> 0]
  /\ lost = [s \in Sessions |-> {}]
  /\ ring = <<>>
  /\ open = {}
  /\ pos = [c \in Conns |-> 1]
  /\ wm = [c \in Conns |-> [s \in Sessions |-> None]]
  /\ queue = [c \in Conns |-> <<>>]
  /\ page = [c \in Conns |-> NoPage]
  /\ base = [c \in Conns |-> [s \in Sessions |-> 0]]
  /\ sent = [c \in Conns |-> [s \in Sessions |-> <<>>]]

-----------------------------------------------------------------------------
(* Publishers: append and broadcast inside the session's publish gate.         *)

\* Slip: append and broadcast without the publish gate.
GateFree_Slip(s) == s \in Sessions

GateFree(s) == \A p \in Publishers : job[p].at # "idle" => job[p].s # s

Ingest(p, s) ==
  /\ job[p].at = "idle"
  /\ GateFree(s)
  /\ job' = [job EXCEPT ![p] = [at |-> "submitted", s |-> s, lo |-> 0, hi |-> 0]]
  /\ UNCHANGED <<storeVars, ring, phoneVars>>

BatchOf(p) == IF p \in Links THEN 1..1 ELSE 1..MaxBatch

\* The transaction commits; events already filed under their source id are not
\* counted in n.
Commit(p, n) ==
  LET s == job[p].s IN
  /\ job[p].at = "submitted"
  /\ s \notin deleted
  /\ log[s] + n <= MaxSeq
  /\ log' = [log EXCEPT ![s] = @ + n]
  /\ job' = [job EXCEPT ![p] = [at |-> "committed", s |-> s,
                                lo |-> log[s] + 1, hi |-> log[s] + n]]
  /\ UNCHANGED <<deleted, orphans, lost, ring, phoneVars>>

\* Slip: an event the store refused is broadcast all the same.
Refused_Slip(p) ==
  LET s == job[p].s IN
  /\ job[p].at = "submitted"
  /\ job' = [job EXCEPT ![p] = [at |-> "committed", s |-> s, lo |-> log[s] + 1, hi |-> log[s] + 1]]
  /\ UNCHANGED <<storeVars, ring, phoneVars>>

\* The session is gone, every event is a duplicate, or the store failed.
Refused(p) ==
  /\ job[p].at = "submitted"
  /\ job' = [job EXCEPT ![p] = Idle]
  /\ UNCHANGED <<storeVars, ring, phoneVars>>

Publish(p) ==
  /\ job[p].at = "committed"
  /\ ring' = Append(ring, [s |-> job[p].s, seq |-> job[p].lo])
  /\ job' = [job EXCEPT ![p] = IF job[p].lo = job[p].hi THEN Idle
                               ELSE [job[p] EXCEPT !.lo = @ + 1]]
  /\ UNCHANGED <<storeVars, phoneVars>>

\* The publisher's task is aborted at its await. The gate is released; the store
\* call runs on (orphans) or has already committed.
Abort(p) ==
  LET s == job[p].s IN
  /\ p \in Links
  /\ job' = [job EXCEPT ![p] = Idle]
  /\ \/ /\ job[p].at = "submitted"
        /\ orphans[s] < MaxOrphans
        /\ orphans' = [orphans EXCEPT ![s] = @ + 1]
        /\ lost' = lost
     \/ /\ job[p].at = "committed"
        /\ lost' = [lost EXCEPT ![s] = @ \cup job[p].lo..job[p].hi]
        /\ orphans' = orphans
  /\ UNCHANGED <<log, deleted, ring, phoneVars>>

OrphanCommits(s) ==
  /\ orphans[s] > 0
  /\ orphans' = [orphans EXCEPT ![s] = @ - 1]
  /\ \/ /\ s \notin deleted
        /\ log[s] < MaxSeq
        /\ log' = [log EXCEPT ![s] = @ + 1]
        /\ lost' = [lost EXCEPT ![s] = @ \cup {log[s] + 1}]
     \/ UNCHANGED <<log, lost>>
  /\ UNCHANGED <<deleted, job, ring, phoneVars>>

\* An operator prunes ended runs.
Prune(s) ==
  /\ deleted' = deleted \cup {s}
  /\ UNCHANGED <<log, orphans, lost, job, ring, phoneVars>>

-----------------------------------------------------------------------------
(* A phone's socket.                                                           *)

\* The receiver exists from the moment the socket opens: it starts at the tail.
Connect(c) ==
  /\ c \notin open
  /\ open' = open \cup {c}
  /\ pos' = [pos EXCEPT ![c] = Len(ring) + 1]
  /\ UNCHANGED <<storeVars, job, ring, wm, queue, page, base, sent>>

\* The phone leaves, is revoked, or a send to it fails.
Close(c) ==
  /\ c \in open
  /\ open' = open \ {c}
  /\ pos' = [pos EXCEPT ![c] = 1]
  /\ wm' = [wm EXCEPT ![c] = [s \in Sessions |-> None]]
  /\ queue' = [queue EXCEPT ![c] = <<>>]
  /\ page' = [page EXCEPT ![c] = NoPage]
  /\ base' = [base EXCEPT ![c] = [s \in Sessions |-> 0]]
  /\ sent' = [sent EXCEPT ![c] = [s \in Sessions |-> <<>>]]
  /\ UNCHANGED <<storeVars, job, ring>>

\* Backlog::begin: a page already buffered for the front session was read from
\* a watermark that no longer counts.
Begin(c, s) ==
  /\ queue' = [queue EXCEPT ![c] = IF Replaying(c, s) THEN @ ELSE Append(@, s)]
  /\ page' = [page EXCEPT ![c] = IF Front(c, s) THEN NoPage ELSE @]

SetWatermark(c, s, n) ==
  /\ wm' = [wm EXCEPT ![c][s] = n]
  /\ base' = [base EXCEPT ![c][s] = IF n = None THEN 0 ELSE n]
  /\ sent' = [sent EXCEPT ![c][s] = <<>>]

Subscribe(c, s, after_seq) ==
  /\ c \in open
  /\ s \notin deleted
  /\ SetWatermark(c, s, after_seq)
  /\ Begin(c, s)
  /\ UNCHANGED <<storeVars, job, ring, open, pos>>

Unsubscribe(c, s) ==
  /\ c \in open
  /\ Subscribed(c, s)
  /\ SetWatermark(c, s, None)
  /\ UNCHANGED <<storeVars, job, ring, open, pos, queue, page>>

\* A queue without s, which it holds at most once.
Without(q, s) ==
  IF s \notin Elements(q) THEN q
  ELSE LET at == CHOOSE i \in 1..Len(q) : q[i] = s
       IN  [i \in 1..(Len(q) - 1) |-> IF i < at THEN q[i] ELSE q[i + 1]]

DropSession(c, s) ==
  /\ queue' = [queue EXCEPT ![c] = Without(@, s)]
  /\ page' = [page EXCEPT ![c] = IF Front(c, s) THEN NoPage ELSE @]

\* delete_session, when the row is really gone afterwards.
DeleteSession(c, s) ==
  /\ c \in open
  /\ deleted' = deleted \cup {s}
  /\ SetWatermark(c, s, None)
  /\ DropSession(c, s)
  /\ UNCHANGED <<log, orphans, lost, job, ring, open, pos>>

\* One Event frame written to the socket.
Send(c, s, seq) ==
  /\ wm' = [wm EXCEPT ![c][s] = seq]
  /\ sent' = [sent EXCEPT ![c][s] = Append(@, seq)]
  /\ base' = base

Silent == UNCHANGED <<wm, base, sent>>

\* The arms of Backlog::step for the session at the front.
StepUnsubscribed(c, s) ==
  /\ Front(c, s)
  /\ ~ Subscribed(c, s)
  /\ page' = [page EXCEPT ![c] = NoPage]
  /\ queue' = [queue EXCEPT ![c] = Tail(@)]
  /\ Silent

Popped(p) == IF p.lo = p.hi THEN NoPage ELSE [p EXCEPT !.lo = @ + 1]

StepSends(c, s) ==
  /\ Front(c, s)
  /\ Subscribed(c, s)
  /\ ~ IsEmpty(page[c])
  /\ page' = [page EXCEPT ![c] = Popped(@)]
  /\ IF page[c].lo > wm[c][s] THEN Send(c, s, page[c].lo) ELSE Silent
  /\ UNCHANGED queue

EventsAfter(s, after_seq) ==
  LET end == IF log[s] < after_seq + REPLAY_PAGE THEN log[s] ELSE after_seq + REPLAY_PAGE
  IN  IF s \in deleted \/ end <= after_seq THEN NoPage
      ELSE [lo |-> after_seq + 1, hi |-> end]

StepReads(c, s) ==
  LET read == EventsAfter(s, wm[c][s]) IN
  /\ Front(c, s)
  /\ Subscribed(c, s)
  /\ IsEmpty(page[c])
  /\ IF IsEmpty(read)
     THEN queue' = [queue EXCEPT ![c] = Tail(@)] /\ UNCHANGED page
     ELSE page' = [page EXCEPT ![c] = read] /\ UNCHANGED queue
  /\ Silent

Step(c) ==
  /\ c \in open
  /\ \E s \in Sessions : StepUnsubscribed(c, s) \/ StepSends(c, s) \/ StepReads(c, s)
  /\ UNCHANGED <<storeVars, job, ring, open, pos>>

Oldest == IF Len(ring) > BROADCAST_CAPACITY THEN Len(ring) - BROADCAST_CAPACITY + 1 ELSE 1

\* Slip: anything above the watermark is delivered.
LiveDelivery_Slip(seq, watermark) == IF seq > watermark THEN "Deliver" ELSE "AlreadySent"

LiveDelivery(seq, watermark) ==
  IF seq = watermark + 1 THEN "Deliver"
  ELSE IF seq < watermark + 1 THEN "AlreadySent" ELSE "Gap"

\* Slip: a gap is announced, and nothing is replayed.
Hear_Slip(c, s, seq) ==
  /\ IF Subscribed(c, s) /\ LiveDelivery(seq, wm[c][s]) = "Deliver"
     THEN Send(c, s, seq) ELSE Silent
  /\ UNCHANGED <<queue, page>>

\* What the broadcast arm does with an event, by its distance to the watermark.
Hear(c, s, seq) ==
  \/ /\ ~ Subscribed(c, s) \/ LiveDelivery(seq, wm[c][s]) = "AlreadySent"
     /\ Silent
     /\ UNCHANGED <<queue, page>>
  \/ /\ Subscribed(c, s)
     /\ LiveDelivery(seq, wm[c][s]) = "Deliver"
     /\ Send(c, s, seq)
     /\ UNCHANGED <<queue, page>>
  \/ /\ Subscribed(c, s)
     /\ LiveDelivery(seq, wm[c][s]) = "Gap"
     /\ IF Replaying(c, s) THEN UNCHANGED <<queue, page>> ELSE Begin(c, s)
     /\ Silent

Receive(c) ==
  /\ c \in open
  /\ pos[c] \in Oldest..Len(ring)
  /\ Hear(c, ring[pos[c]].s, ring[pos[c]].seq)
  /\ pos' = [pos EXCEPT ![c] = @ + 1]
  /\ UNCHANGED <<storeVars, job, ring, open>>

\* The orders in which the watermark table may be walked.
Orders(S) ==
  {f \in [1..Cardinality(S) -> S] : Once(f) /\ \A x \in S : \E i \in DOMAIN f : f[i] = x}

\* Slip: lag is announced, and nothing is replayed.
BeginAll_Slip(c) == c \in open /\ UNCHANGED <<queue, page>>

BeginAll(c) ==
  LET all == {s \in Sessions : Subscribed(c, s)} IN
  /\ \E order \in Orders(all \ Elements(queue[c])) :
       queue' = [queue EXCEPT ![c] = @ \o order]
  /\ page' = [page EXCEPT ![c] = IF \E s \in all : Front(c, s) THEN NoPage ELSE @]

\* The ring has overwritten what this socket had not received.
Lagged(c) ==
  /\ c \in open
  /\ pos[c] < Oldest
  /\ pos' = [pos EXCEPT ![c] = Oldest]
  /\ BeginAll(c)
  /\ Silent
  /\ UNCHANGED <<storeVars, job, ring, open>>

-----------------------------------------------------------------------------
\* The daemon dies and starts again: only the store survives.
Crash ==
  /\ job' = [p \in Publishers |-> Idle]
  /\ orphans' = [s \in Sessions |-> 0]
  /\ lost' = [s \in Sessions |-> {}]
  /\ ring' = <<>>
  /\ open' = {}
  /\ pos' = [c \in Conns |-> 1]
  /\ wm' = [c \in Conns |-> [s \in Sessions |-> None]]
  /\ queue' = [c \in Conns |-> <<>>]
  /\ page' = [c \in Conns |-> NoPage]
  /\ base' = [c \in Conns |-> [s \in Sessions |-> 0]]
  /\ sent' = [c \in Conns |-> [s \in Sessions |-> <<>>]]
  /\ UNCHANGED <<log, deleted>>

Next ==
  \/ \E p \in Publishers, s \in Sessions : Ingest(p, s)
  \/ \E p \in Publishers : \E n \in BatchOf(p) : Commit(p, n)
  \/ \E p \in Publishers : Refused(p) \/ Publish(p) \/ Abort(p)
  \/ \E s \in Sessions : OrphanCommits(s) \/ Prune(s)
  \/ \E c \in Conns : Connect(c) \/ Close(c) \/ Step(c) \/ Receive(c) \/ Lagged(c)
  \/ \E c \in Conns, s \in Sessions : \E n \in 0..MaxSeq : Subscribe(c, s, n)
  \/ \E c \in Conns, s \in Sessions : Unsubscribe(c, s) \/ DeleteSession(c, s)
  \/ Crash

Spec == Init /\ [][Next]_vars

\* A socket's loop picks at random among its ready arms, so each of them is
\* served; a send ends or fails, and a failed one closes the socket.
Fairness ==
  \A c \in Conns : WF_vars(Step(c)) /\ WF_vars(Receive(c) \/ Lagged(c))

FairSpec == Spec /\ Fairness

-----------------------------------------------------------------------------
(* Properties                                                                  *)

\* Every variable has its type; a session is queued for replay at most once, a
\* page is held only for a session at the front, and a receiver is never past
\* the tail of the ring (Backlog, ws_server.rs).
TypeOK ==
  /\ log \in [Sessions -> Nat]
  /\ deleted \subseteq Sessions
  /\ job \in [Publishers -> Jobs]
  /\ orphans \in [Sessions -> Nat]
  /\ lost \in [Sessions -> SUBSET Nat]
  /\ ring \in Seq([s : Sessions, seq : Nat])
  /\ open \subseteq Conns
  /\ pos \in [Conns -> Nat \ {0}]
  /\ wm \in [Conns -> [Sessions -> Nat \cup {None}]]
  /\ queue \in [Conns -> Seq(Sessions)]
  /\ page \in [Conns -> [lo : Nat, hi : Nat]]
  /\ base \in [Conns -> [Sessions -> Nat]]
  /\ sent \in [Conns -> [Sessions -> Seq(Nat)]]
  /\ \A c \in Conns :
       /\ pos[c] <= Len(ring) + 1
       /\ Once(queue[c])
       /\ queue[c] = <<>> => IsEmpty(page[c])

\* What a subscription has been sent is every seq after the one it asked for,
\* once each, in order, up to its watermark: whatever mixes of live delivery,
\* replay, lag, re-subscription and deletion led there (the promise at the head
\* of ws_server.rs).
InOrder ==
  \A c \in Conns, s \in Sessions : Subscribed(c, s) =>
    /\ base[c][s] + Len(sent[c][s]) = wm[c][s]
    /\ \A i \in 1..Len(sent[c][s]) : sent[c][s][i] = base[c][s] + i

Arriving(c, s, n) ==
  \/ Replaying(c, s)
  \/ \E i \in pos[c]..Len(ring) : ring[i] = [s |-> s, seq |-> n]
  \/ \E p \in Publishers : job[p].at = "committed" /\ job[p].s = s /\ n \in job[p].lo..job[p].hi

\* An event a socket has not been sent is still on its way to it: a replay of
\* the session is pending, or the event is ahead of the receiver or about to be
\* broadcast. The only exception is an event whose publisher was aborted between
\* its commit and its broadcast (Backlog's "nothing is lost by stepping").
NothingStranded ==
  \A c \in open, s \in Sessions \ deleted : Subscribed(c, s) =>
    \A n \in (wm[c][s] + 1)..log[s] : n \in lost[s] \/ Arriving(c, s, n)

\* A gap marker is sent only when the expected event will never be broadcast:
\* publication is in seq order per session, so neither lag nor replay nor
\* re-subscription is ever mistaken for a gap (the doc of gap_marker).
GapIsReal ==
  \A c \in open : pos[c] \in Oldest..Len(ring) =>
    LET s == ring[pos[c]].s
        seq == ring[pos[c]].seq
    IN  s \notin deleted /\ Subscribed(c, s) /\ ~ Replaying(c, s)
        /\ LiveDelivery(seq, wm[c][s]) = "Gap"
        => wm[c][s] + 1 \in lost[s]

Abstract == INSTANCE FollowedLog WITH Phones <- Conns, cursor <- wm

\* Every step of the publishers, the ring and the sockets is a step of the logs
\* and of the phones that follow them, or none: what a phone is sent is the next
\* event, and is in the store before it is sent.
RefinesFollowedLog == Abstract!Spec

Asks == \E c \in Conns, s \in Sessions : \E n \in 0..MaxSeq : Subscribe(c, s, n)
Broadcast(s, n) == \E i \in 1..Len(ring) : ring[i] = [s |-> s, seq |-> n]
Follows(c, s) == c \in open /\ s \notin deleted /\ Subscribed(c, s)

\* A phone that does not subscribe anew for ever is sent every event that was
\* broadcast, unless it leaves, unsubscribes or the session is deleted: lag and
\* gaps end in a replay and every replay ends (Backlog::step).
BroadcastReaches ==
  <>[][~ Asks]_vars =>
    \A c \in Conns, s \in Sessions : \A n \in 1..MaxSeq :
      (Follows(c, s) /\ wm[c][s] < n /\ Broadcast(s, n))
        ~> (~ Follows(c, s) \/ wm[c][s] >= n)
=============================================================================
