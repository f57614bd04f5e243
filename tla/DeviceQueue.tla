------------------------------ MODULE DeviceQueue ------------------------------
(* One phone's pushes on their way to Apple: its row in the registry, its      *)
(* queue, and the worker that posts one delivery at a time.                    *)
(*                                                                             *)
(* Source: mac/ccd/src/push_queue.rs; apns_sender.rs (enqueue, deliver_with,   *)
(* send, send_test, StoreRegistry); state.rs (the ordered end of dispatch_push,*)
(* register_push, revoke); store.rs (the token columns of devices).            *)
(*                                                                             *)
(* A delivery is a doorbell or a test push; a doorbell carries the place of    *)
(* its count among the counts. A phone that comes back has a new token; the    *)
(* host Apple really serves a token on is fixed by TrueHost. The bytes, the    *)
(* credential and the length of waits are left out.                            *)
EXTENDS Integers, Sequences, FiniteSets

CONSTANTS
  Bells,       \* doorbells, each the end of one dispatch_push
  Tests,       \* test pushes
  MaxTokens,   \* bound: registrations
  MaxQueues,   \* bound: queues made
  MaxWaiting,  \* MAX_WAITING
  MaxPanics    \* bound: workers that die

ASSUME QueueAssumption ==
  /\ MaxTokens \in Nat /\ MaxPanics \in Nat /\ MaxQueues \in Nat /\ MaxWaiting \in Nat \ {0}
  /\ IsFiniteSet(Bells) /\ Bells \cap Tests = {} /\ "none" \notin Bells \cup Tests

VARIABLES
  row,       \* the phone's row: its token or 0, the host claimed for it, revoked
  tokens,    \* how often the phone registered
  leaving,   \* how often the row lost its token with its queue still to be retired
  order,     \* the doorbell that holds ring_order, or NoBell
  counted,   \* how many doorbells have counted
  push,      \* each delivery on its way
  queue,     \* the queues, numbered as they are made: waiting, closed, a wake permit
  made,      \* how many queues were made
  current,   \* the queue in the sender's map, or 0
  retiring,  \* the queue retire is draining, holding the map, or 0
  worker,    \* what each queue's worker is doing, and the delivery it holds
  panics,    \* how many workers died
  last,      \* history: the count each worker last posted
  late,      \* history: how many doorbells each posted to the phone once revoked
  dead       \* history: Apple disowned, or the registry withdrew, the token last registered

rowVars == <<row, tokens, leaving, dead>>
mapVars == <<made, current, retiring>>
bellVars == <<order, counted>>
workVars == <<worker, panics, last, late>>
vars == <<rowVars, mapVars, bellVars, workVars, push, queue>>

-----------------------------------------------------------------------------
Deliveries == Bells \cup Tests
Queues == 1..MaxQueues
Hosts == {"sandbox", "production"}
NoBell == "none"
Other(h) == IF h = "sandbox" THEN "production" ELSE "sandbox"
TrueHost(t) == IF t % 2 = 1 THEN "sandbox" ELSE "production"
Idle == [at |-> "idle", token |-> 0, host |-> "sandbox", queue |-> 0, stamp |-> 0]
Done == [Idle EXCEPT !.at = "done"]
NoQueue == [waiting |-> <<>>, closed |-> FALSE, wake |-> FALSE]
Holding == {"check", "post", "sent", "recheck", "retry", "resent"}
BellsIn(q) == {k \in DOMAIN queue[q].waiting : queue[q].waiting[k] \in Bells}

\* A row without a token has no environment either.
Bare(revoked) == [token |-> 0, host |-> "none", revoked |-> revoked]

Init ==
  /\ row = Bare(FALSE) /\ tokens = 0 /\ leaving = 0
  /\ order = NoBell /\ counted = 0
  /\ push = [d \in Deliveries |-> Idle]
  /\ queue = [q \in Queues |-> NoQueue]
  /\ made = 0 /\ current = 0 /\ retiring = 0
  /\ worker = [q \in Queues |-> [at |-> "none", item |-> NoBell]]
  /\ panics = 0
  /\ last = [q \in Queues |-> 0] /\ late = [q \in Queues |-> 0]
  /\ dead = FALSE

-----------------------------------------------------------------------------
(* The registry.                                                               *)

\* register_push, set_push_token: a revoked phone is refused.
Register(h) ==
  /\ ~row.revoked /\ tokens < MaxTokens
  /\ tokens' = tokens + 1
  /\ row' = [row EXCEPT !.token = tokens + 1, !.host = h]
  /\ dead' = FALSE
  /\ UNCHANGED <<leaving, mapVars, bellVars, workVars, push, queue>>

\* Another row takes the token over, or revoke: the columns go, then the queue.
Withdraw(revoke) ==
  /\ IF revoke THEN ~row.revoked ELSE row.token # 0
  /\ row' = Bare(row.revoked \/ revoke)
  /\ dead' = (dead \/ row.token # 0)
  /\ leaving' = leaving + 1
  /\ UNCHANGED <<tokens, mapVars, bellVars, workVars, push, queue>>

\* push_target_for; a read that fails is a no.
Eligible == row.token # 0

\* Slip: the row is cleared whatever token it holds.
Forget_Slip(t) == row' = Bare(row.revoked)

\* clear_push_token: only the token Apple refused.
Forget(t) == row' = IF row.token = t THEN Bare(row.revoked) ELSE row

\* set_push_environment: only for the token that was corrected.
Correct(t, h) == row' = IF row.token = t THEN [row EXCEPT !.host = h] ELSE row

-----------------------------------------------------------------------------
(* Handing a delivery over.                                                    *)

\* Slip: a count is taken without ring_order.
CountBell_Slip(b) ==
  /\ push[b].at = "idle"
  /\ order' = b /\ counted' = counted + 1
  /\ push' = [push EXCEPT ![b].at = "counted", ![b].stamp = counted + 1]
  /\ UNCHANGED <<rowVars, mapVars, workVars, queue>>

\* The end of dispatch_push: ring_order, then the count.
CountBell(b) ==
  /\ push[b].at = "idle" /\ order = NoBell
  /\ order' = b /\ counted' = counted + 1
  /\ push' = [push EXCEPT ![b].at = "counted", ![b].stamp = counted + 1]
  /\ UNCHANGED <<rowVars, mapVars, workVars, queue>>

\* send and send_test: the targets, and whether this phone is one. A phone that saw the
\* event already, or a registry that cannot be read, leaves it out.
ReadTarget(d) ==
  /\ push[d].at = IF d \in Bells THEN "counted" ELSE "idle"
  /\ \/ /\ Eligible
        /\ push' = [push EXCEPT ![d].at = "target", ![d].token = row.token, ![d].host = row.host]
        /\ UNCHANGED order
     \/ /\ push' = [push EXCEPT ![d] = Done]
        /\ order' = IF order = d THEN NoBell ELSE order
  /\ UNCHANGED <<rowVars, counted, mapVars, workVars, queue>>

\* queue_for, under the map's lock: the queue, or a fresh one with its worker.
QueueFor(d) ==
  /\ push[d].at = "target" /\ retiring = 0
  /\ IF current # 0 /\ ~queue[current].closed
     THEN push' = [push EXCEPT ![d].at = "handle", ![d].queue = current] /\ UNCHANGED <<made, current, worker>>
     ELSE /\ made < MaxQueues
          /\ made' = made + 1 /\ current' = made + 1
          /\ push' = [push EXCEPT ![d].at = "handle", ![d].queue = made + 1]
          /\ worker' = [worker EXCEPT ![made + 1].at = "top"]
  /\ UNCHANGED <<rowVars, bellVars, retiring, panics, last, late, queue>>

\* The first of some kind of delivery leaves its place.
Earliest(waiting, kind) ==
  CHOOSE k \in DOMAIN waiting : waiting[k] \in kind /\ \A j \in 1..k - 1 : waiting[j] \notin kind
Without(waiting, kind) ==
  LET k == Earliest(waiting, kind) IN
  IF \E j \in DOMAIN waiting : waiting[j] \in kind
  THEN SubSeq(waiting, 1, k - 1) \o SubSeq(waiting, k + 1, Len(waiting)) ELSE waiting

\* One doorbell waits, the newest; a full queue gives up its oldest test.
Coalesced(d, waiting) == IF d \in Bells THEN Without(waiting, Bells) ELSE waiting
Trimmed(waiting) == IF Len(waiting) >= MaxWaiting THEN Without(waiting, Tests) ELSE waiting

\* The deliveries of s are over: a test among them is answered.
Settled(p, s) == [d \in Deliveries |-> IF d \in s THEN Done ELSE p[d]]
Members(s) == {s[k] : k \in DOMAIN s}

File(d, q) ==
  LET was == queue[q].waiting
      now == Append(Trimmed(Coalesced(d, was)), d)
  IN  /\ queue' = [queue EXCEPT ![q].waiting = now, ![q].wake = TRUE]
      /\ push' = Settled([push EXCEPT ![d].at = "filed"], Members(was) \ Members(now))

\* Slip: the queue handed out is taken for open.
Push_Slip(d) ==
  /\ push[d].at = "handle"
  /\ File(d, push[d].queue)
  /\ order' = IF order = d THEN NoBell ELSE order
  /\ UNCHANGED <<rowVars, counted, mapVars, workVars>>

\* DeviceQueue::push, whole under the lock of waiting; the doorbell's send then ends.
Push(d) ==
  /\ push[d].at = "handle"
  /\ IF queue[push[d].queue].closed
     THEN push' = [push EXCEPT ![d] = Done] /\ UNCHANGED queue
     ELSE File(d, push[d].queue)
  /\ order' = IF order = d THEN NoBell ELSE order
  /\ UNCHANGED <<rowVars, counted, mapVars, workVars>>

-----------------------------------------------------------------------------
(* Closing a queue: the flag, then the drain under the lock of waiting.        *)

Drain(q) ==
  /\ queue' = [queue EXCEPT ![q].waiting = <<>>, ![q].wake = TRUE]
  /\ push' = Settled(push, Members(queue[q].waiting))

\* retire: out of the map, flagged.
Retire ==
  /\ leaving > 0 /\ retiring = 0
  /\ leaving' = leaving - 1
  /\ IF current = 0 THEN UNCHANGED <<queue, current, retiring>>
     ELSE /\ queue' = [queue EXCEPT ![current].closed = TRUE]
          /\ retiring' = current /\ current' = 0
  /\ UNCHANGED <<row, tokens, dead, made, bellVars, workVars, push>>

RetireDrains ==
  /\ retiring # 0
  /\ Drain(retiring)
  /\ retiring' = 0
  /\ UNCHANGED <<rowVars, made, current, bellVars, workVars>>

-----------------------------------------------------------------------------
(* serve_with and deliver_with: the worker.                                    *)

Works(q, a) == worker' = [worker EXCEPT ![q].at = a]
WorkOnly == UNCHANGED <<mapVars, bellVars, tokens, leaving, panics>>

\* The attempt is over: a test is answered, and the worker goes on or closes the queue.
Finish(q, next) ==
  /\ push' = Settled(push, {worker[q].item})
  /\ worker' = [worker EXCEPT ![q] = [at |-> next, item |-> NoBell]]

Top(q) ==
  /\ worker[q].at = "top"
  /\ Works(q, IF queue[q].closed THEN "ended" ELSE "take")
  /\ WorkOnly /\ UNCHANGED <<row, dead, push, queue, last, late>>

Take(q) ==
  /\ worker[q].at = "take"
  /\ IF queue[q].waiting = <<>> THEN Works(q, "park") /\ UNCHANGED queue
     ELSE LET d == Head(queue[q].waiting) IN
          /\ queue' = [queue EXCEPT ![q].waiting = Tail(@)]
          /\ worker' = [worker EXCEPT ![q] = [at |-> IF d \in Bells THEN "check" ELSE "post", item |-> d]]
  /\ WorkOnly /\ UNCHANGED <<row, dead, push, last, late>>

Woken(q) ==
  /\ worker[q].at = "park" /\ queue[q].wake
  /\ queue' = [queue EXCEPT ![q].wake = FALSE]
  /\ Works(q, "top")
  /\ WorkOnly /\ UNCHANGED <<row, dead, push, last, late>>

\* still_authorized, before the first post.
Authorize(q) ==
  /\ worker[q].at = "check"
  /\ \/ Eligible /\ Works(q, "post") /\ UNCHANGED push
     \/ Finish(q, "top")
  /\ WorkOnly /\ UNCHANGED <<row, dead, queue, last, late>>

\* The request is handed to Apple.
Post(q) ==
  LET d == worker[q].item IN
  /\ worker[q].at \in {"post", "retry"}
  /\ Works(q, IF worker[q].at = "post" THEN "sent" ELSE "resent")
  /\ last' = IF d \in Bells THEN [last EXCEPT ![q] = push[d].stamp] ELSE last
  /\ late' = IF d \in Bells /\ row.revoked THEN [late EXCEPT ![q] = @ + 1] ELSE late
  /\ WorkOnly /\ UNCHANGED <<row, dead, push, queue>>

PostedTo(q) ==
  LET d == worker[q].item IN IF worker[q].at = "sent" THEN push[d].host ELSE Other(push[d].host)

\* Apple takes it; the host that was not the claimed one is remembered.
Accepted(q) ==
  LET d == worker[q].item IN
  /\ worker[q].at \in {"sent", "resent"} /\ PostedTo(q) = TrueHost(push[d].token)
  /\ IF worker[q].at = "resent" THEN Correct(push[d].token, PostedTo(q)) ELSE UNCHANGED row
  /\ Finish(q, "top")
  /\ WorkOnly /\ UNCHANGED <<dead, queue, last, late>>

\* 410: the token is forgotten, and if it was the phone's the queue is closed; a row that
\* cannot be written stays.
Disowned(q) ==
  LET t == push[worker[q].item].token IN
  /\ worker[q].at \in {"sent", "resent"}
  /\ dead' = (dead \/ t = tokens)
  /\ \/ Forget(t) /\ Finish(q, IF row.token = t THEN "closing" ELSE "top")
     \/ UNCHANGED row /\ Finish(q, "top")
  /\ WorkOnly /\ UNCHANGED <<queue, last, late>>

\* BadDeviceToken from the first host.
WrongHost(q) ==
  /\ worker[q].at = "sent"
  /\ Works(q, "recheck")
  /\ WorkOnly /\ UNCHANGED <<row, dead, push, queue, last, late>>

\* Slip: the other host is tried unasked.
Recheck_Slip(q) ==
  /\ worker[q].at = "recheck"
  /\ Works(q, "retry")
  /\ WorkOnly /\ UNCHANGED <<row, dead, push, queue, last, late>>

\* The second post is a second authorization, for a doorbell.
Recheck(q) ==
  /\ worker[q].at = "recheck"
  /\ \/ (worker[q].item \in Tests \/ Eligible) /\ Works(q, "retry") /\ UNCHANGED push
     \/ worker[q].item \in Bells /\ Finish(q, "top")
  /\ WorkOnly /\ UNCHANGED <<row, dead, queue, last, late>>

\* Any other refusal, a post that fails, or the delivery's deadline.
Failed(q) ==
  /\ worker[q].at \in {"sent", "recheck", "resent"}
  /\ Finish(q, "top")
  /\ WorkOnly /\ UNCHANGED <<row, dead, queue, last, late>>

\* The worker closes its own queue and returns.
Close(q) ==
  /\ worker[q].at = "closing"
  /\ queue' = [queue EXCEPT ![q].closed = TRUE]
  /\ Works(q, "draining")
  /\ WorkOnly /\ UNCHANGED <<row, dead, push, last, late>>

CloseDrains(q) ==
  /\ worker[q].at = "draining"
  /\ Drain(q)
  /\ Works(q, "ended")
  /\ WorkOnly /\ UNCHANGED <<row, dead, last, late>>

\* keep_running: a worker that dies takes its delivery with it, and another starts.
Panic(q) ==
  /\ worker[q].at \in Holding /\ panics < MaxPanics
  /\ panics' = panics + 1
  /\ Finish(q, "top")
  /\ UNCHANGED <<rowVars, mapVars, bellVars, queue, last, late>>

-----------------------------------------------------------------------------
WorkerStep(q) ==
  \/ Top(q) \/ Take(q) \/ Woken(q) \/ Authorize(q) \/ Post(q) \/ Accepted(q) \/ Disowned(q)
  \/ WrongHost(q) \/ Recheck(q) \/ Failed(q) \/ Close(q) \/ CloseDrains(q)

Next ==
  \/ \E h \in Hosts : Register(h)
  \/ \E revoke \in BOOLEAN : Withdraw(revoke)
  \/ \E b \in Bells : CountBell(b)
  \/ \E d \in Deliveries : ReadTarget(d) \/ QueueFor(d) \/ Push(d)
  \/ Retire \/ RetireDrains
  \/ \E q \in Queues : WorkerStep(q) \/ Panic(q)

Spec == Init /\ [][Next]_vars

-----------------------------------------------------------------------------
(* Properties.                                                                 *)

\* The type of every variable.
TypeOK ==
  /\ row \in [token : 0..tokens, host : Hosts \cup {"none"}, revoked : BOOLEAN]
  /\ tokens \in 0..MaxTokens /\ leaving \in Nat
  /\ order \in Bells \cup {NoBell} /\ counted \in 0..Cardinality(Bells)
  /\ push \in [Deliveries -> [at : {"idle", "counted", "target", "handle", "filed", "done"}, token : 0..tokens,
                              host : Hosts, queue : 0..made, stamp : 0..counted]]
  /\ queue \in [Queues -> [waiting : Seq(Deliveries), closed : BOOLEAN, wake : BOOLEAN]]
  /\ made \in 0..MaxQueues /\ current \in 0..made /\ retiring \in 0..made
  /\ worker \in [Queues -> [at : {"none", "top", "take", "park", "closing", "draining", "ended"} \cup Holding,
                            item : Deliveries \cup {NoBell}]]
  /\ panics \in 0..MaxPanics /\ dead \in BOOLEAN
  /\ last \in [Queues -> 0..counted] /\ late \in [Queues -> Nat]

\* A closed queue that has been drained stays empty (push, close).
ClosedIsEmpty ==
  \A q \in Queues : queue[q].closed /\ retiring # q /\ worker[q].at # "draining" => queue[q].waiting = <<>>

\* One doorbell waits, and no more tests than MAX_WAITING (push).
QueuesAreShort ==
  \A q \in Queues : /\ \A j, k \in BellsIn(q) : j = k
                    /\ Len(queue[q].waiting) <= MaxWaiting + (IF BellsIn(q) = {} THEN 0 ELSE 1)

\* A phone stays registered until it is withdrawn or Apple disowns the very token it last
\* registered (clear_push_token): a late refusal of an earlier one changes nothing.
RefusedIsTheOne == row.token = 0 /\ tokens > 0 => dead

\* The device's row and queues are whole: the parts above.
DeviceOK == TypeOK /\ ClosedIsEmpty /\ QueuesAreShort /\ RefusedIsTheOne

\* Doorbells are posted in the order they were counted (ring_order, push, serve_with): a
\* queue's worker never posts an older count after a newer one. Two queues of one phone,
\* the earlier retired, are not ordered.
NeverOlder == [][\A q \in Queues : last'[q] >= last[q]]_vars

\* A revoked phone is rung at most once more by each worker (still_authorized): by the post
\* that was authorized before the revocation, and never by its retry. A test push, which
\* asks no such question, is not counted.
LateOnce == \A q \in Queues : late[q] <= 1

\* No work sleeps (push, close, serve_with): a delivery that was filed is held by a
\* worker, or waits in a queue that is being drained or whose worker is up or has a
\* permit to wake on; and the worker of a closed queue is not left parked.
NoWorkSleeps ==
  LET Up(q) == worker[q].at \notin {"park", "ended"} \/ (worker[q].at = "park" /\ queue[q].wake) IN
  /\ \A d \in Deliveries : push[d].at = "filed" => \E q \in Queues :
       \/ worker[q].item = d
       \/ d \in Members(queue[q].waiting) /\ (Up(q) \/ retiring = q)
  /\ \A q \in Queues : queue[q].closed => worker[q].at = "ended" \/ Up(q) \/ retiring = q
=============================================================================
