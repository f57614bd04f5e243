--------------------------- MODULE EventStream_proofs ---------------------------
(* Theorems about the event stream, for any sessions, publishers, sockets,     *)
(* ring and page sizes. The inductive invariant relates three things: what a   *)
(* socket has buffered to its watermark (PageFits), publication order to the   *)
(* store (InSeqOrder), and what a socket lacks to what is on its way to it     *)
(* (NothingStranded).  The refinement of FollowedLog needs one more, that a    *)
(* buffered page holds events of the store (PageStored).                       *)
EXTENDS EventStream, TLAPS, FiniteSetTheorems

USE BoundsAssumption, SessionsAssumption

\* A buffered page continues what the front session has been sent.
PageFits ==
  \A c \in Conns, s \in Sessions :
    Front(c, s) /\ Subscribed(c, s) /\ ~ IsEmpty(page[c]) => page[c].lo <= wm[c][s] + 1

\* The ring holds every session's events in seq order, a publisher's next ones
\* follow them, and no two publishers are inside one session's gate.
InSeqOrder ==
  /\ \A i \in 1..Len(ring) : ring[i].seq <= log[ring[i].s]
  /\ \A i, j \in 1..Len(ring) : i < j /\ ring[i].s = ring[j].s => ring[i].seq < ring[j].seq
  /\ \A p \in Publishers : job[p].at = "committed" =>
       /\ job[p].lo <= job[p].hi
       /\ job[p].hi <= log[job[p].s]
       /\ \A i \in 1..Len(ring) : ring[i].s = job[p].s => ring[i].seq < job[p].lo
  /\ \A p, q \in Publishers :
       job[p].at # "idle" /\ job[q].at # "idle" /\ job[p].s = job[q].s => p = q

\* A socket that is not connected follows nothing.
ClosedFollowsNothing == \A c \in Conns \ open, s \in Sessions : ~ Subscribed(c, s)

-----------------------------------------------------------------------------
\* Queues of sessions.
LEMMA AppendQueue ==
  ASSUME NEW q \in Seq(Sessions), Once(q), NEW s \in Sessions, s \notin Elements(q)
  PROVE  /\ Append(q, s) \in Seq(Sessions)
         /\ Once(Append(q, s))
         /\ Elements(q) \subseteq Elements(Append(q, s)) /\ s \in Elements(Append(q, s))
         /\ Append(q, s) # <<>>
         /\ q # <<>> => Head(Append(q, s)) = Head(q)
<1> DEFINE r == Append(q, s)
<1>1. /\ r \in Seq(Sessions) /\ Len(r) = Len(q) + 1 /\ r[Len(q) + 1] = s
      /\ \A i \in 1..Len(q) : r[i] = q[i]
  OBVIOUS
<1>2. Once(r)
  BY <1>1 DEF Once, Elements
<1>3. Elements(q) \subseteq Elements(r) /\ s \in Elements(r)
  BY <1>1 DEF Elements
<1> QED BY <1>1, <1>2, <1>3

LEMMA TailQueue ==
  ASSUME NEW q \in Seq(Sessions), Once(q), q # <<>>
  PROVE  /\ Tail(q) \in Seq(Sessions)
         /\ Once(Tail(q))
         /\ Elements(q) \subseteq Elements(Tail(q)) \cup {Head(q)}
<1>1. /\ Tail(q) \in Seq(Sessions) /\ Len(Tail(q)) = Len(q) - 1
      /\ \A i \in 1..(Len(q) - 1) : Tail(q)[i] = q[i + 1]
      /\ Head(q) = q[1] /\ Len(q) \in Nat /\ Len(q) > 0
  OBVIOUS
<1>2. Once(Tail(q))
  BY <1>1 DEF Once
<1>3. ASSUME NEW i \in 1..Len(q) PROVE q[i] \in Elements(Tail(q)) \cup {Head(q)}
  <2>1. CASE i = 1
    BY <1>1, <2>1
  <2>2. CASE i # 1
    <3>1. i - 1 \in 1..Len(Tail(q)) /\ Tail(q)[i - 1] = q[i]
      BY <1>1, <2>2
    <3> QED BY <3>1 DEF Elements
  <2> QED BY <2>1, <2>2
<1> QED BY <1>1, <1>2, <1>3 DEF Elements

LEMMA WithoutQueue ==
  ASSUME NEW q \in Seq(Sessions), Once(q), NEW s \in Sessions
  PROVE  /\ Without(q, s) \in Seq(Sessions)
         /\ Once(Without(q, s))
         /\ Elements(q) \subseteq Elements(Without(q, s)) \cup {s}
         /\ Without(q, s) # <<>> /\ Head(q) # s => q # <<>> /\ Head(Without(q, s)) = Head(q)
         /\ Without(q, s) = <<>> /\ q # <<>> => Head(q) = s
<1>1. CASE s \notin Elements(q)
  BY <1>1 DEF Without
<1>2. CASE s \in Elements(q)
  <2> DEFINE at == CHOOSE i \in 1..Len(q) : q[i] = s
             r == [i \in 1..(Len(q) - 1) |-> IF i < at THEN q[i] ELSE q[i + 1]]
  <2>1. at \in 1..Len(q) /\ q[at] = s
    BY <1>2 DEF Elements
  <2>2. Without(q, s) = r
    BY <1>2 DEF Without
  <2> HIDE DEF at
  <2>3. /\ r \in Seq(Sessions) /\ Len(r) = Len(q) - 1 /\ Len(q) \in Nat
        /\ \A i \in 1..(Len(q) - 1) : r[i] = IF i < at THEN q[i] ELSE q[i + 1]
    BY <2>1
  <2> HIDE DEF r
  <2>4. Once(r)
    BY <2>1, <2>3 DEF Once
  <2>5. ASSUME NEW i \in 1..Len(q) PROVE q[i] \in Elements(r) \cup {s}
    <3>1. CASE i < at
      <4>1. i \in 1..Len(r) /\ r[i] = q[i]
        BY <2>1, <2>3, <3>1
      <4> QED BY <4>1 DEF Elements
    <3>2. CASE i > at
      <4>1. i - 1 \in 1..Len(r) /\ r[i - 1] = q[i]
        BY <2>1, <2>3, <3>2
      <4> QED BY <4>1 DEF Elements
    <3> QED BY <2>1, <3>1, <3>2
  <2>6. Elements(q) \subseteq Elements(r) \cup {s}
    BY <2>5 DEF Elements
  <2>7. r # <<>> /\ Head(q) # s => q # <<>> /\ Head(r) = Head(q)
    BY <2>1, <2>3
  <2>8. r = <<>> /\ q # <<>> => Head(q) = s
    <3> SUFFICES ASSUME r = <<>>, q # <<>> PROVE Head(q) = s
      OBVIOUS
    <3>1. Len(r) = 0
      OBVIOUS
    <3>2. Len(q) = 1
      BY <2>3, <3>1
    <3>3. at = 1
      BY <2>1, <3>2
    <3> QED BY <2>1, <3>3
  <2> QED BY <2>2, <2>3, <2>4, <2>6, <2>7, <2>8
<1> QED BY <1>1, <1>2

LEMMA ConcatQueue ==
  ASSUME NEW q \in Seq(Sessions), Once(q), NEW all \in SUBSET Sessions,
         NEW order \in Orders(all \ Elements(q))
  PROVE  /\ q \o order \in Seq(Sessions)
         /\ Once(q \o order)
         /\ Elements(q) \subseteq Elements(q \o order) /\ all \subseteq Elements(q \o order)
         /\ q # <<>> => q \o order # <<>> /\ Head(q \o order) = Head(q)
<1> DEFINE S == all \ Elements(q)
           r == q \o order
<1>1. IsFiniteSet(S) /\ Cardinality(S) \in Nat
  BY FS_Subset, FS_CardinalityType
<1>2. /\ order \in Seq(Sessions) /\ Len(order) = Cardinality(S)
      /\ \A i \in 1..Len(order) : order[i] \in S
      /\ Once(order) /\ \A x \in S : \E i \in 1..Len(order) : order[i] = x
  <2>1. order \in [1..Cardinality(S) -> S] /\ Once(order)
        /\ \A x \in S : \E i \in DOMAIN order : order[i] = x
    BY DEF Orders
  <2> HIDE DEF S
  <2>2. order \in Seq(S) /\ Len(order) = Cardinality(S) /\ DOMAIN order = 1..Len(order)
    BY <1>1, <2>1
  <2>3. S \subseteq Sessions
    BY DEF S
  <2>4. order \in Seq(Sessions)
    BY <1>1, <2>1, <2>3
  <2> QED BY <2>1, <2>2, <2>4
<1> HIDE DEF S
<1>3. /\ r \in Seq(Sessions) /\ Len(r) = Len(q) + Len(order)
      /\ \A i \in 1..Len(q) : r[i] = q[i]
      /\ \A i \in 1..Len(order) : r[Len(q) + i] = order[i]
      /\ \A i \in 1..Len(r) : i > Len(q) => i - Len(q) \in 1..Len(order) /\ r[i] = order[i - Len(q)]
  BY <1>2
<1> HIDE DEF r
<1>4. Once(r)
  <2> SUFFICES ASSUME NEW i \in 1..Len(r), NEW j \in 1..Len(r), r[i] = r[j] PROVE i = j
    BY DEF Once
  <2>1. \A k \in 1..Len(q) : q[k] \notin S
    BY DEF S, Elements
  <2>2. CASE i <= Len(q) /\ j <= Len(q)
    BY <1>3, <2>2 DEF Once
  <2>3. CASE i > Len(q) /\ j > Len(q)
    BY <1>2, <1>3, <2>3 DEF Once
  <2>4. CASE i <= Len(q) /\ j > Len(q)
    <3>1. r[i] \notin S
      BY <1>3, <2>1, <2>4
    <3>2. r[j] \in S
      BY <1>2, <1>3, <2>4
    <3> QED BY <3>1, <3>2
  <2>5. CASE i > Len(q) /\ j <= Len(q)
    <3>1. r[j] \notin S
      BY <1>3, <2>1, <2>5
    <3>2. r[i] \in S
      BY <1>2, <1>3, <2>5
    <3> QED BY <3>1, <3>2
  <2> QED BY <1>2, <1>3, <2>2, <2>3, <2>4, <2>5
<1>5. Elements(q) \subseteq Elements(r)
  BY <1>2, <1>3 DEF Elements
<1>6. ASSUME NEW x \in all, x \notin Elements(q) PROVE x \in Elements(r)
  <2>1. PICK i \in 1..Len(order) : order[i] = x
    BY <1>2, <1>6 DEF S
  <2>2. Len(q) + i \in 1..Len(r) /\ r[Len(q) + i] = x
    BY <1>2, <1>3, <2>1
  <2> QED BY <2>2 DEF Elements
<1>7. q # <<>> => r # <<>> /\ Head(r) = Head(q)
  BY <1>2, <1>3
<1> QED BY <1>3, <1>4, <1>5, <1>6, <1>7 DEF r

-----------------------------------------------------------------------------
\* What a step of socket c leaves true of the queues and pages; drop are the
\* sessions it may take off c's queue.
Kept(c, drop) ==
  /\ queue' \in [Conns -> Seq(Sessions)]
  /\ page' \in [Conns -> [lo : Nat, hi : Nat]]
  /\ \A d \in Conns \ {c} : queue'[d] = queue[d] /\ page'[d] = page[d]
  /\ Once(queue'[c])
  /\ queue'[c] = <<>> => IsEmpty(page'[c])
  /\ Elements(queue[c]) \subseteq Elements(queue'[c]) \cup drop

\* A page held afterwards was held before, for the same session, not in gone.
SamePage(c, gone) ==
  queue'[c] # <<>> /\ ~ IsEmpty(page'[c]) =>
    /\ queue[c] # <<>> /\ Head(queue'[c]) = Head(queue[c])
    /\ page'[c] = page[c]
    /\ Head(queue[c]) \notin gone

\* The parts of the type invariant about socket c.
LEMMA SocketType ==
  ASSUME TypeOK, NEW c \in Conns
  PROVE  /\ queue \in [Conns -> Seq(Sessions)] /\ queue[c] \in Seq(Sessions) /\ Once(queue[c])
         /\ page \in [Conns -> [lo : Nat, hi : Nat]] /\ page[c] \in [lo : Nat, hi : Nat]
         /\ NoPage \in [lo : Nat, hi : Nat] /\ IsEmpty(NoPage)
         /\ queue[c] = <<>> => IsEmpty(page[c])
  BY DEF TypeOK, NoPage, IsEmpty

LEMMA BeginKeeps ==
  ASSUME TypeOK, NEW c \in Conns, NEW s \in Sessions, Begin(c, s)
  PROVE  Kept(c, {}) /\ SamePage(c, {s}) /\ s \in Elements(queue'[c])
<1> USE SocketType
<1>1. CASE Replaying(c, s)
  <2>1. queue' = queue /\ queue[c] # <<>>
    BY <1>1 DEF Begin, Replaying, Elements
  <2>2. page' = [page EXCEPT ![c] = IF Front(c, s) THEN NoPage ELSE page[c]]
    BY DEF Begin
  <2> QED BY <1>1, <2>1, <2>2 DEF Kept, SamePage, Replaying, Front
<1>2. CASE ~ Replaying(c, s)
  <2>1. queue' = [queue EXCEPT ![c] = Append(queue[c], s)] /\ s \notin Elements(queue[c])
    BY <1>2 DEF Begin, Replaying
  <2>2. queue'[c] = Append(queue[c], s)
    BY <2>1
  <2>3. /\ queue'[c] \in Seq(Sessions) /\ Once(queue'[c]) /\ queue'[c] # <<>>
        /\ Elements(queue[c]) \subseteq Elements(queue'[c]) /\ s \in Elements(queue'[c])
        /\ queue[c] # <<>> => Head(queue'[c]) = Head(queue[c])
    BY <2>1, <2>2, AppendQueue
  <2>4. ~ Front(c, s)
    <3>1. queue[c] # <<>> => Head(queue[c]) \in Elements(queue[c])
      BY DEF Elements
    <3> QED BY <2>1, <3>1 DEF Front
  <2>5. page' = page
    BY <2>4 DEF Begin
  <2> QED BY <2>1, <2>3, <2>4, <2>5 DEF Kept, SamePage, Front
<1> QED BY <1>1, <1>2

LEMMA DropKeeps ==
  ASSUME TypeOK, NEW c \in Conns, NEW s \in Sessions, DropSession(c, s)
  PROVE  Kept(c, {s}) /\ SamePage(c, {s})
<1> USE SocketType
<1>1. queue' = [queue EXCEPT ![c] = Without(queue[c], s)]
      /\ page' = [page EXCEPT ![c] = IF Front(c, s) THEN NoPage ELSE page[c]]
  BY DEF DropSession
<1>2. queue'[c] = Without(queue[c], s) /\ page'[c] = IF Front(c, s) THEN NoPage ELSE page[c]
  BY <1>1
<1>3. /\ queue'[c] \in Seq(Sessions) /\ Once(queue'[c])
      /\ Elements(queue[c]) \subseteq Elements(queue'[c]) \cup {s}
      /\ queue'[c] # <<>> /\ Head(queue[c]) # s => queue[c] # <<>> /\ Head(queue'[c]) = Head(queue[c])
      /\ queue'[c] = <<>> /\ queue[c] # <<>> => Head(queue[c]) = s
  <2> DEFINE q == queue[c]
  <2>1. q \in Seq(Sessions) /\ Once(q)
    OBVIOUS
  <2> HIDE DEF q
  <2>2. /\ Without(q, s) \in Seq(Sessions) /\ Once(Without(q, s))
        /\ Elements(q) \subseteq Elements(Without(q, s)) \cup {s}
        /\ Without(q, s) # <<>> /\ Head(q) # s => q # <<>> /\ Head(Without(q, s)) = Head(q)
        /\ Without(q, s) = <<>> /\ q # <<>> => Head(q) = s
    BY <2>1, WithoutQueue
  <2> QED BY <1>2, <2>2 DEF q
<1>4. queue'[c] # <<>> => queue[c] # <<>>
  <2>1. queue[c] = <<>> => Elements(queue[c]) = {}
    BY DEF Elements
  <2> QED BY <1>2, <2>1 DEF Without
<1>5. queue'[c] = <<>> => IsEmpty(page'[c])
  BY <1>2, <1>3 DEF Front
<1>6. SamePage(c, {s})
  BY <1>2, <1>3, <1>4 DEF SamePage, Front
<1> QED BY <1>1, <1>3, <1>5, <1>6 DEF Kept

LEMMA BeginAllKeeps ==
  ASSUME TypeOK, NEW c \in Conns, BeginAll(c)
  PROVE  /\ Kept(c, {}) /\ SamePage(c, {s \in Sessions : Subscribed(c, s)})
         /\ \A s \in Sessions : Subscribed(c, s) => s \in Elements(queue'[c])
<1> USE SocketType
<1> DEFINE all == {s \in Sessions : Subscribed(c, s)}
<1>1. PICK order \in Orders(all \ Elements(queue[c])) : queue' = [queue EXCEPT ![c] = queue[c] \o order]
  BY DEF BeginAll
<1>2. page' = [page EXCEPT ![c] = IF \E s \in all : Front(c, s) THEN NoPage ELSE page[c]]
  BY DEF BeginAll
<1>3. queue'[c] = queue[c] \o order /\ all \in SUBSET Sessions
  BY <1>1
<1>4. \A s \in all : Subscribed(c, s)
  OBVIOUS
<1>5. \A s \in Sessions : Subscribed(c, s) => s \in all
  OBVIOUS
<1> HIDE DEF all
<1>6. /\ queue'[c] \in Seq(Sessions) /\ Once(queue'[c])
      /\ Elements(queue[c]) \subseteq Elements(queue'[c]) /\ all \subseteq Elements(queue'[c])
      /\ queue[c] # <<>> => queue'[c] # <<>> /\ Head(queue'[c]) = Head(queue[c])
  BY <1>1, <1>3, ConcatQueue
<1>7. Kept(c, {})
  BY <1>1, <1>2, <1>6 DEF Kept
<1>8. SamePage(c, all)
  BY <1>2, <1>6 DEF SamePage, Front
<1> QED BY <1>5, <1>6, <1>7, <1>8 DEF all

LEMMA PopKeeps ==
  ASSUME TypeOK, NEW c \in Conns, queue[c] # <<>>, NEW s, s = Head(queue[c]),
         queue' = [queue EXCEPT ![c] = Tail(queue[c])],
         page' = [page EXCEPT ![c] = NoPage] \/ (UNCHANGED page /\ IsEmpty(page[c]))
  PROVE  Kept(c, {s}) /\ IsEmpty(page'[c])
<1> USE SocketType
<1>1. queue'[c] = Tail(queue[c]) /\ IsEmpty(page'[c]) /\ page' \in [Conns -> [lo : Nat, hi : Nat]]
      /\ \A d \in Conns \ {c} : page'[d] = page[d]
  OBVIOUS
<1>2. /\ queue'[c] \in Seq(Sessions) /\ Once(queue'[c])
      /\ Elements(queue[c]) \subseteq Elements(queue'[c]) \cup {s}
  BY <1>1, TailQueue
<1> QED BY <1>1, <1>2 DEF Kept

\* One cell of a table with a row per socket.
LEMMA SetCell ==
  ASSUME NEW V, NEW A \in [Conns -> [Sessions -> V]], NEW c \in Conns, NEW s \in Sessions, NEW v \in V
  PROVE  /\ [A EXCEPT ![c][s] = v] \in [Conns -> [Sessions -> V]]
         /\ \A d \in Conns, x \in Sessions :
              [A EXCEPT ![c][s] = v][d][x] = IF d = c /\ x = s THEN v ELSE A[d][x]
<1> DEFINE B == [A EXCEPT ![c] = [A[c] EXCEPT ![s] = v]]
<1>1. A[c] \in [Sessions -> V] /\ [A[c] EXCEPT ![s] = v] \in [Sessions -> V]
  OBVIOUS
<1>2. [A EXCEPT ![c][s] = v] = B
  OBVIOUS
<1>3. B \in [Conns -> [Sessions -> V]]
  BY <1>1
<1>4. ASSUME NEW d \in Conns, NEW x \in Sessions PROVE B[d][x] = IF d = c /\ x = s THEN v ELSE A[d][x]
  BY <1>1
<1> QED BY <1>2, <1>3, <1>4

FollowTypes ==
  /\ wm \in [Conns -> [Sessions -> Nat \cup {None}]]
  /\ base \in [Conns -> [Sessions -> Nat]]
  /\ sent \in [Conns -> [Sessions -> Seq(Nat)]]

\* A step changes what socket c knows of session s and of nothing else.
Only(c, s, w, b, t) ==
  \A d \in Conns, x \in Sessions :
    /\ wm'[d][x] = IF d = c /\ x = s THEN w ELSE wm[d][x]
    /\ base'[d][x] = IF d = c /\ x = s THEN b ELSE base[d][x]
    /\ sent'[d][x] = IF d = c /\ x = s THEN t ELSE sent[d][x]

LEMMA WatermarkSet ==
  ASSUME TypeOK, NEW c \in Conns, NEW s \in Sessions, NEW n \in Nat \cup {None}, SetWatermark(c, s, n)
  PROVE  FollowTypes' /\ Only(c, s, n, IF n = None THEN 0 ELSE n, <<>>)
<1> DEFINE b == IF n = None THEN 0 ELSE n
<1>1. b \in Nat /\ <<>> \in Seq(Nat) /\ FollowTypes
  BY DEF TypeOK, FollowTypes, None
<1>2. wm' = [wm EXCEPT ![c][s] = n] /\ base' = [base EXCEPT ![c][s] = b]
      /\ sent' = [sent EXCEPT ![c][s] = <<>>]
  BY DEF SetWatermark
<1> HIDE DEF b
<1>3. wm' \in [Conns -> [Sessions -> Nat \cup {None}]]
      /\ \A d \in Conns, x \in Sessions : wm'[d][x] = IF d = c /\ x = s THEN n ELSE wm[d][x]
  BY <1>1, <1>2, SetCell DEF FollowTypes
<1>4. base' \in [Conns -> [Sessions -> Nat]]
      /\ \A d \in Conns, x \in Sessions : base'[d][x] = IF d = c /\ x = s THEN b ELSE base[d][x]
  BY <1>1, <1>2, SetCell DEF FollowTypes
<1>5. sent' \in [Conns -> [Sessions -> Seq(Nat)]]
      /\ \A d \in Conns, x \in Sessions : sent'[d][x] = IF d = c /\ x = s THEN <<>> ELSE sent[d][x]
  BY <1>1, <1>2, SetCell DEF FollowTypes
<1> QED BY <1>3, <1>4, <1>5 DEF FollowTypes, Only, b

LEMMA SendSets ==
  ASSUME TypeOK, NEW c \in Conns, NEW s \in Sessions, NEW n \in Nat, Send(c, s, n)
  PROVE  FollowTypes' /\ Only(c, s, n, base[c][s], Append(sent[c][s], n))
<1> DEFINE t == Append(sent[c][s], n)
<1>1. t \in Seq(Nat) /\ FollowTypes
  BY DEF TypeOK, FollowTypes
<1>2. wm' = [wm EXCEPT ![c][s] = n] /\ base' = base /\ sent' = [sent EXCEPT ![c][s] = t]
  BY DEF Send
<1> HIDE DEF t
<1>3. wm' \in [Conns -> [Sessions -> Nat \cup {None}]]
      /\ \A d \in Conns, x \in Sessions : wm'[d][x] = IF d = c /\ x = s THEN n ELSE wm[d][x]
  BY <1>1, <1>2, SetCell DEF FollowTypes
<1>4. sent' \in [Conns -> [Sessions -> Seq(Nat)]]
      /\ \A d \in Conns, x \in Sessions : sent'[d][x] = IF d = c /\ x = s THEN t ELSE sent[d][x]
  BY <1>1, <1>2, SetCell DEF FollowTypes
<1> QED BY <1>1, <1>2, <1>3, <1>4 DEF FollowTypes, Only, t

-----------------------------------------------------------------------------
\* Type correctness.
LEMMA PoppedType ==
  ASSUME NEW p \in [lo : Nat, hi : Nat], p.lo <= p.hi
  PROVE  /\ Popped(p) \in [lo : Nat, hi : Nat]
         /\ ~ IsEmpty(Popped(p)) => Popped(p).lo = p.lo + 1
<1>1. [p EXCEPT !.lo = @ + 1] \in [lo : Nat, hi : Nat] /\ [p EXCEPT !.lo = @ + 1].lo = p.lo + 1
  OBVIOUS
<1>2. NoPage \in [lo : Nat, hi : Nat] /\ IsEmpty(NoPage)
  BY DEF NoPage, IsEmpty
<1> QED BY <1>1, <1>2 DEF Popped

LEMMA SendsKeeps ==
  ASSUME TypeOK, NEW c \in Conns, NEW s \in Sessions, StepSends(c, s)
  PROVE  Kept(c, {}) /\ FollowTypes' /\ queue' = queue
<1> USE SocketType
<1>1. queue[c] # <<>> /\ page[c].lo <= page[c].hi /\ page[c].lo \in Nat /\ page[c].hi \in Nat
  BY DEF StepSends, Front, IsEmpty
<1>2. Popped(page[c]) \in [lo : Nat, hi : Nat]
  BY <1>1, PoppedType
<1>3. page' = [page EXCEPT ![c] = Popped(page[c])] /\ queue' = queue
  BY DEF StepSends
<1>4. Kept(c, {})
  BY <1>1, <1>2, <1>3 DEF Kept
<1>5. FollowTypes'
  <2>1. CASE Send(c, s, page[c].lo)
    BY <1>1, <2>1, SendSets
  <2>2. CASE Silent
    BY <2>2 DEF Silent, TypeOK, FollowTypes
  <2> QED BY <2>1, <2>2 DEF StepSends
<1> QED BY <1>3, <1>4, <1>5

LEMMA PageRead ==
  ASSUME TypeOK, NEW s \in Sessions, NEW n \in Nat
  PROVE  /\ EventsAfter(s, n) \in [lo : Nat, hi : Nat]
         /\ ~ IsEmpty(EventsAfter(s, n)) => /\ EventsAfter(s, n).lo = n + 1
                                            /\ EventsAfter(s, n).hi <= log[s]
         /\ IsEmpty(EventsAfter(s, n)) /\ s \notin deleted => log[s] <= n
<1> DEFINE end == IF log[s] < n + REPLAY_PAGE THEN log[s] ELSE n + REPLAY_PAGE
<1>1. end \in Nat /\ log[s] \in Nat /\ end <= log[s] /\ (end <= n => log[s] <= n)
  BY BoundsAssumption DEF TypeOK
<1>2. EventsAfter(s, n) = IF s \in deleted \/ end <= n THEN NoPage ELSE [lo |-> n + 1, hi |-> end]
  BY DEF EventsAfter
<1> HIDE DEF end
<1> QED BY <1>1, <1>2 DEF NoPage, IsEmpty

LEMMA ReadsKeeps ==
  ASSUME TypeOK, NEW c \in Conns, NEW s \in Sessions, StepReads(c, s)
  PROVE  /\ Kept(c, {s}) /\ FollowTypes' /\ UNCHANGED <<wm, base, sent>>
         /\ \/ Kept(c, {}) /\ queue' = queue /\ page'[c].lo = wm[c][s] + 1
            \/ s \notin deleted => log[s] <= wm[c][s]
         /\ queue' = queue => page'[c].lo = wm[c][s] + 1
         /\ queue' # queue => IsEmpty(page'[c])
<1> USE SocketType
<1>1. wm[c][s] \in Nat /\ UNCHANGED <<wm, base, sent>> /\ FollowTypes'
  BY DEF StepReads, Subscribed, TypeOK, Silent, FollowTypes
<1>2. queue[c] # <<>> /\ s = Head(queue[c]) /\ IsEmpty(page[c])
  BY DEF StepReads, Front
<1> DEFINE read == EventsAfter(s, wm[c][s])
<1>3. /\ read \in [lo : Nat, hi : Nat]
      /\ ~ IsEmpty(read) => read.lo = wm[c][s] + 1
      /\ IsEmpty(read) /\ s \notin deleted => log[s] <= wm[c][s]
  BY <1>1, PageRead
<1>4. IF IsEmpty(read) THEN queue' = [queue EXCEPT ![c] = Tail(queue[c])] /\ UNCHANGED page
      ELSE page' = [page EXCEPT ![c] = read] /\ UNCHANGED queue
  BY DEF StepReads
<1> HIDE DEF read
<1>5. CASE IsEmpty(read)
  <2>1. Kept(c, {s}) /\ IsEmpty(page'[c])
    BY <1>2, <1>4, <1>5, PopKeeps
  <2>2. queue' # queue
    BY <1>2, <1>4, <1>5
  <2> QED BY <1>1, <1>3, <1>5, <2>1, <2>2
<1>6. CASE ~ IsEmpty(read)
  <2>1. Kept(c, {}) /\ Kept(c, {s}) /\ page'[c] = read /\ queue' = queue
    BY <1>2, <1>3, <1>4, <1>6 DEF Kept
  <2> QED BY <1>1, <1>3, <1>6, <2>1
<1> QED BY <1>5, <1>6

\* A step of one socket is typed when its parts are.
LEMMA SocketStepType ==
  ASSUME TypeOK, NEW c \in Conns, NEW drop, Kept(c, drop), FollowTypes',
         log' = log, deleted' \subseteq Sessions, UNCHANGED <<orphans, lost, job, ring>>,
         open' \subseteq Conns, pos' \in [Conns -> Nat \ {0}],
         \A d \in Conns : pos'[d] <= Len(ring) + 1
  PROVE  TypeOK'
<1>1. ASSUME NEW d \in Conns
      PROVE  Once(queue'[d]) /\ (queue'[d] = <<>> => IsEmpty(page'[d]))
  <2>1. CASE d = c
    BY <2>1 DEF Kept
  <2>2. CASE d # c
    BY <2>2 DEF Kept, TypeOK
  <2> QED BY <2>1, <2>2
<1> QED BY <1>1 DEF TypeOK, FollowTypes, Kept

LEMMA TypeInit == Init => TypeOK
<1> SUFFICES ASSUME Init PROVE TypeOK
  OBVIOUS
<1>1. Idle \in Jobs /\ NoPage \in [lo : Nat, hi : Nat] /\ IsEmpty(NoPage)
  BY DEF Idle, Jobs, NoPage, IsEmpty
<1>2. Once(<<>>) /\ <<>> \in Seq(Sessions) /\ <<>> \in Seq(Nat) /\ Len(<<>>) = 0
      /\ <<>> \in Seq([s : Sessions, seq : Nat])
  BY DEF Once
<1>3. pos \in [Conns -> Nat \ {0}] /\ \A c \in Conns : pos[c] <= Len(ring) + 1
  BY <1>2 DEF Init
<1> QED BY <1>1, <1>2, <1>3 DEF Init, TypeOK, None

\* The publishers' steps keep the types of what they write.
LEMMA PublisherType ==
  ASSUME TypeOK, NEW p \in Publishers, job[p].at # "idle"
  PROVE  /\ job[p] \in [at : {"submitted", "committed"}, s : Sessions, lo : Nat, hi : Nat]
         /\ job[p].s \in Sessions /\ log[job[p].s] \in Nat
  BY DEF TypeOK, Jobs, Idle

LEMMA StoreStepType ==
  ASSUME TypeOK, UNCHANGED phoneVars,
         \/ \E p \in Publishers, s \in Sessions : Ingest(p, s)
         \/ \E p \in Publishers : \E n \in BatchOf(p) : Commit(p, n)
         \/ \E p \in Publishers : Refused(p) \/ Publish(p) \/ Abort(p)
         \/ \E s \in Sessions : OrphanCommits(s) \/ Prune(s)
  PROVE  TypeOK'
<1>0. UNCHANGED <<open, pos, wm, queue, page, base, sent>>
  BY DEF phoneVars
<1>1. Idle \in Jobs /\ job \in [Publishers -> Jobs]
  BY DEF Idle, Jobs, TypeOK
<1>2. ASSUME NEW p \in Publishers, NEW s \in Sessions, Ingest(p, s) PROVE TypeOK'
  <2>1. [at |-> "submitted", s |-> s, lo |-> 0, hi |-> 0] \in Jobs
    BY DEF Jobs
  <2>2. job' \in [Publishers -> Jobs]
    BY <1>1, <1>2, <2>1 DEF Ingest
  <2> QED BY <1>0, <1>2, <2>2 DEF Ingest, storeVars, TypeOK
<1>3. ASSUME NEW p \in Publishers, NEW n \in BatchOf(p), Commit(p, n) PROVE TypeOK'
  <2>1. n \in Nat
    BY DEF BatchOf
  <2>2. job[p].s \in Sessions /\ log[job[p].s] \in Nat
    BY <1>3, PublisherType DEF Commit
  <2>3. [at |-> "committed", s |-> job[p].s, lo |-> log[job[p].s] + 1, hi |-> log[job[p].s] + n] \in Jobs
    BY <2>1, <2>2 DEF Jobs
  <2>4. job' \in [Publishers -> Jobs]
    BY <1>1, <1>3, <2>3 DEF Commit
  <2>5. log' \in [Sessions -> Nat]
    BY <1>3, <2>1, <2>2 DEF Commit, TypeOK
  <2> QED BY <1>0, <1>3, <2>4, <2>5 DEF Commit, TypeOK
<1>4. ASSUME NEW p \in Publishers, Refused(p) PROVE TypeOK'
  <2>1. job' \in [Publishers -> Jobs]
    BY <1>1, <1>4 DEF Refused
  <2> QED BY <1>0, <1>4, <2>1 DEF Refused, storeVars, TypeOK
<1>5. ASSUME NEW p \in Publishers, Publish(p) PROVE TypeOK'
  <2>1. job[p] \in [at : {"submitted", "committed"}, s : Sessions, lo : Nat, hi : Nat]
    BY <1>5, PublisherType DEF Publish
  <2>2. [job[p] EXCEPT !.lo = @ + 1] \in Jobs
    BY <2>1 DEF Jobs
  <2>3. job' \in [Publishers -> Jobs]
    BY <1>1, <1>5, <2>2 DEF Publish
  <2>4. [s |-> job[p].s, seq |-> job[p].lo] \in [s : Sessions, seq : Nat]
    BY <2>1
  <2>5. ring' \in Seq([s : Sessions, seq : Nat]) /\ Len(ring') = Len(ring) + 1 /\ Len(ring) \in Nat
    BY <1>5, <2>4 DEF Publish, TypeOK
  <2>6. \A c \in Conns : pos[c] <= Len(ring') + 1
    BY <2>5 DEF TypeOK
  <2> QED BY <1>0, <1>5, <2>3, <2>5, <2>6 DEF Publish, storeVars, TypeOK
<1>6. ASSUME NEW p \in Publishers, Abort(p) PROVE TypeOK'
  <2>1. job[p] \in [at : {"submitted", "committed"}, s : Sessions, lo : Nat, hi : Nat]
    BY <1>6, PublisherType DEF Abort
  <2>2. job' \in [Publishers -> Jobs]
    BY <1>1, <1>6 DEF Abort
  <2>3. orphans' \in [Sessions -> Nat]
    <3>1. orphans \in [Sessions -> Nat] /\ job[p].s \in Sessions /\ orphans[job[p].s] + 1 \in Nat
      BY <2>1 DEF TypeOK
    <3>2. orphans' = orphans \/ orphans' = [orphans EXCEPT ![job[p].s] = orphans[job[p].s] + 1]
      BY <1>6 DEF Abort
    <3> QED BY <3>1, <3>2
  <2>4. job[p].lo..job[p].hi \subseteq Nat
    BY <2>1
  <2>5. lost' \in [Sessions -> SUBSET Nat]
    <3>1. lost \in [Sessions -> SUBSET Nat] /\ job[p].s \in Sessions
      BY <2>1 DEF TypeOK
    <3>2. lost[job[p].s] \cup job[p].lo..job[p].hi \in SUBSET Nat
      BY <2>4, <3>1
    <3>3. lost' = lost \/ lost' = [lost EXCEPT ![job[p].s] = lost[job[p].s] \cup job[p].lo..job[p].hi]
      BY <1>6 DEF Abort
    <3> QED BY <3>1, <3>2, <3>3
  <2> QED BY <1>0, <1>6, <2>2, <2>3, <2>5 DEF Abort, TypeOK
<1>7. ASSUME NEW s \in Sessions, OrphanCommits(s) PROVE TypeOK'
  <2>1. log[s] \in Nat /\ orphans[s] \in Nat /\ orphans[s] > 0
    BY <1>7 DEF OrphanCommits, TypeOK
  <2>2. orphans' \in [Sessions -> Nat] /\ log' \in [Sessions -> Nat] /\ lost' \in [Sessions -> SUBSET Nat]
    <3>1. orphans \in [Sessions -> Nat] /\ log \in [Sessions -> Nat] /\ lost \in [Sessions -> SUBSET Nat]
      BY DEF TypeOK
    <3>2. orphans' = [orphans EXCEPT ![s] = orphans[s] - 1] /\ orphans[s] - 1 \in Nat
      BY <1>7, <2>1 DEF OrphanCommits
    <3>3. log' = log \/ log' = [log EXCEPT ![s] = log[s] + 1]
      BY <1>7 DEF OrphanCommits
    <3>4. lost' = lost \/ lost' = [lost EXCEPT ![s] = lost[s] \cup {log[s] + 1}]
      BY <1>7 DEF OrphanCommits
    <3>5. lost[s] \cup {log[s] + 1} \in SUBSET Nat
      BY <2>1, <3>1
    <3>6. orphans' \in [Sessions -> Nat]
      BY <3>1, <3>2
    <3>7. log' \in [Sessions -> Nat]
      BY <2>1, <3>1, <3>3
    <3>8. lost' \in [Sessions -> SUBSET Nat]
      BY <3>1, <3>4, <3>5
    <3> QED BY <3>6, <3>7, <3>8
  <2> QED BY <1>0, <1>7, <2>2 DEF OrphanCommits, TypeOK
<1>8. ASSUME NEW s \in Sessions, Prune(s) PROVE TypeOK'
  BY <1>0, <1>8 DEF Prune, TypeOK
<1> QED BY <1>2, <1>3, <1>4, <1>5, <1>6, <1>7, <1>8

\* A socket's steps, in the shape the invariants need: which session's queue
\* entry may go, that the store is left alone, and where the receiver stands.
LEMMA HearType ==
  ASSUME TypeOK, NEW c \in Conns, NEW s \in Sessions, NEW n \in Nat, Hear(c, s, n)
  PROVE  Kept(c, {}) /\ FollowTypes' /\ SamePage(c, {})
<1> USE SocketType
<1>1. UNCHANGED <<queue, page>> => Kept(c, {}) /\ SamePage(c, {})
  BY DEF Kept, SamePage
<1>2. Silent => FollowTypes'
  BY DEF Silent, TypeOK, FollowTypes
<1>3. Begin(c, s) => Kept(c, {}) /\ SamePage(c, {})
  BY BeginKeeps DEF SamePage
<1>4. Send(c, s, n) => FollowTypes'
  BY SendSets
<1> QED BY <1>1, <1>2, <1>3, <1>4 DEF Hear

LEMMA RingElement ==
  ASSUME TypeOK, NEW i \in 1..Len(ring)
  PROVE  ring[i] \in [s : Sessions, seq : Nat] /\ ring[i].s \in Sessions /\ ring[i].seq \in Nat
<1> DEFINE Events == [s : Sessions, seq : Nat]
<1>1. ring \in Seq(Events)
  BY DEF TypeOK
<1> HIDE DEF Events
<1>2. ring[i] \in Events
  BY <1>1
<1> QED BY <1>2 DEF Events

LEMMA OldestType ==
  ASSUME TypeOK
  PROVE  Oldest \in Nat \ {0} /\ Oldest <= Len(ring) + 1
<1>1. Len(ring) \in Nat
  BY DEF TypeOK
<1> QED BY <1>1 DEF Oldest

LEMMA TypeStep == TypeOK /\ [Next]_vars => TypeOK'
<1> SUFFICES ASSUME TypeOK, [Next]_vars PROVE TypeOK'
  OBVIOUS
<1> USE SocketType
<1>0. Len(ring) \in Nat /\ pos \in [Conns -> Nat \ {0}] /\ open \subseteq Conns /\ deleted \subseteq Sessions
      /\ \A d \in Conns : pos[d] <= Len(ring) + 1
  BY DEF TypeOK
<1>1. CASE \/ \E p \in Publishers, s \in Sessions : Ingest(p, s)
           \/ \E p \in Publishers : \E n \in BatchOf(p) : Commit(p, n)
           \/ \E p \in Publishers : Refused(p) \/ Publish(p) \/ Abort(p)
           \/ \E s \in Sessions : OrphanCommits(s) \/ Prune(s)
  <2>1. UNCHANGED phoneVars
    BY <1>1 DEF Ingest, Commit, Refused, Publish, Abort, OrphanCommits, Prune
  <2> QED BY <1>1, <2>1, StoreStepType
<1>2. ASSUME NEW c \in Conns, Connect(c) PROVE TypeOK'
  <2>1. Kept(c, {}) /\ FollowTypes'
    BY <1>2 DEF Connect, Kept, FollowTypes, TypeOK
  <2>2. pos' \in [Conns -> Nat \ {0}] /\ \A d \in Conns : pos'[d] <= Len(ring) + 1
    BY <1>0, <1>2 DEF Connect
  <2> QED BY <1>0, <1>2, <2>1, <2>2, SocketStepType DEF Connect, storeVars
<1>3. ASSUME NEW c \in Conns, Close(c) PROVE TypeOK'
  <2>1. <<>> \in Seq(Sessions) /\ <<>> \in Seq(Nat) /\ Once(<<>>) /\ None \in Nat \cup {None}
    BY DEF Once
  <2>2. queue' \in [Conns -> Seq(Sessions)] /\ queue'[c] = <<>>
        /\ \A d \in Conns \ {c} : queue'[d] = queue[d]
    BY <1>3, <2>1 DEF Close
  <2>3. page' \in [Conns -> [lo : Nat, hi : Nat]] /\ IsEmpty(page'[c])
        /\ \A d \in Conns \ {c} : page'[d] = page[d]
    BY <1>3 DEF Close
  <2>4. Kept(c, Elements(queue[c]))
    BY <2>1, <2>2, <2>3 DEF Kept
  <2>5. FollowTypes'
    BY <1>3, <2>1 DEF Close, FollowTypes, TypeOK
  <2>6. pos' \in [Conns -> Nat \ {0}] /\ \A d \in Conns : pos'[d] <= Len(ring) + 1
    BY <1>0, <1>3 DEF Close
  <2> QED BY <1>0, <1>3, <2>4, <2>5, <2>6, SocketStepType DEF Close, storeVars
<1>4. ASSUME NEW c \in Conns, Step(c) PROVE TypeOK'
  <2>1. PICK s \in Sessions : StepUnsubscribed(c, s) \/ StepSends(c, s) \/ StepReads(c, s)
    BY <1>4 DEF Step
  <2>2. Kept(c, {s}) /\ FollowTypes'
    <3>1. CASE StepUnsubscribed(c, s)
      <4>1. FollowTypes'
        BY <3>1 DEF StepUnsubscribed, Silent, TypeOK, FollowTypes
      <4>2. queue[c] # <<>> /\ s = Head(queue[c])
        BY <3>1 DEF StepUnsubscribed, Front
      <4> QED BY <3>1, <4>1, <4>2, PopKeeps DEF StepUnsubscribed
    <3>2. CASE StepSends(c, s)
      BY <3>2, SendsKeeps DEF Kept
    <3>3. CASE StepReads(c, s)
      BY <3>3, ReadsKeeps
    <3> QED BY <2>1, <3>1, <3>2, <3>3
  <2> QED BY <1>0, <1>4, <2>2, SocketStepType DEF Step, storeVars
<1>5. ASSUME NEW c \in Conns, Receive(c) PROVE TypeOK'
  <2>1. pos[c] \in 1..Len(ring) /\ ring[pos[c]] \in [s : Sessions, seq : Nat]
    <3>1. pos[c] \in Oldest..Len(ring) /\ Oldest \in Nat \ {0}
      BY <1>5, OldestType DEF Receive
    <3>2. pos[c] \in 1..Len(ring)
      BY <1>0, <3>1
    <3> QED BY <3>2, RingElement
  <2>2. Kept(c, {}) /\ FollowTypes'
    BY <1>5, <2>1, HearType DEF Receive
  <2>3. pos' \in [Conns -> Nat \ {0}] /\ \A d \in Conns : pos'[d] <= Len(ring) + 1
    BY <1>0, <1>5, <2>1, SMTT(40) DEF Receive
  <2> QED BY <1>0, <1>5, <2>2, <2>3, SocketStepType DEF Receive, storeVars
<1>6. ASSUME NEW c \in Conns, Lagged(c) PROVE TypeOK'
  <2>1. Kept(c, {}) /\ FollowTypes'
    BY <1>6, BeginAllKeeps DEF Lagged, Silent, TypeOK, FollowTypes
  <2>2. pos' \in [Conns -> Nat \ {0}] /\ \A d \in Conns : pos'[d] <= Len(ring) + 1
    BY <1>0, <1>6, OldestType DEF Lagged
  <2> QED BY <1>0, <1>6, <2>1, <2>2, SocketStepType DEF Lagged, storeVars
<1>7. ASSUME NEW c \in Conns, NEW s \in Sessions, NEW n \in 0..MaxSeq, Subscribe(c, s, n) PROVE TypeOK'
  <2>1. Kept(c, {}) /\ FollowTypes'
    <3>1. n \in Nat \cup {None}
      OBVIOUS
    <3>2. SetWatermark(c, s, n) /\ Begin(c, s)
      BY <1>7 DEF Subscribe
    <3> QED BY <3>1, <3>2, BeginKeeps, WatermarkSet
  <2> QED BY <1>0, <1>7, <2>1, SocketStepType DEF Subscribe, storeVars
<1>8. ASSUME NEW c \in Conns, NEW s \in Sessions, Unsubscribe(c, s) PROVE TypeOK'
  <2>1. Kept(c, {})
    BY <1>8 DEF Unsubscribe, Kept
  <2>2. FollowTypes'
    BY <1>8, WatermarkSet DEF Unsubscribe
  <2> QED BY <1>0, <1>8, <2>1, <2>2, SocketStepType DEF Unsubscribe, storeVars
<1>9. ASSUME NEW c \in Conns, NEW s \in Sessions, DeleteSession(c, s) PROVE TypeOK'
  <2>1. Kept(c, {s}) /\ FollowTypes'
    BY <1>9, DropKeeps, WatermarkSet DEF DeleteSession
  <2> QED BY <1>0, <1>9, <2>1, SocketStepType DEF DeleteSession
<1>10. CASE Crash
  <2>1. Idle \in Jobs /\ NoPage \in [lo : Nat, hi : Nat] /\ IsEmpty(NoPage) /\ Once(<<>>)
    BY DEF Idle, Jobs, NoPage, IsEmpty, Once
  <2>2. pos' \in [Conns -> Nat \ {0}] /\ \A c \in Conns : pos'[c] <= Len(ring') + 1
    BY <1>10 DEF Crash
  <2> QED BY <1>10, <2>1, <2>2 DEF Crash, TypeOK, None
<1>11. CASE UNCHANGED vars
  BY <1>11 DEF vars, TypeOK
<1> QED BY <1>1, <1>2, <1>3, <1>4, <1>5, <1>6, <1>7, <1>8, <1>9, <1>10, <1>11 DEF Next

\* Every variable of the stream keeps its type, no session is queued twice, and
\* no page is held for an empty queue (Backlog, ws_server.rs).
THEOREM TypeCorrect == Spec => []TypeOK
<1>1. Init => TypeOK
  BY TypeInit
<1>2. TypeOK /\ [Next]_vars => TypeOK'
  BY TypeStep
<1> QED BY <1>1, <1>2, PTL DEF Spec

-----------------------------------------------------------------------------
\* Every subscription is sent its events once each and in order. The buffered
\* page is what needs the strengthening: it must never start past the successor
\* of the watermark, or sending it would skip events.
LEMMA PageFitsFrom ==
  ASSUME TypeOK, PageFits, NEW c \in Conns, NEW drop, Kept(c, drop),
         \A d \in Conns \ {c} : \A x \in Sessions : wm'[d][x] = wm[d][x],
         \A x \in Sessions : Front(c, x)' /\ Subscribed(c, x)' /\ ~ IsEmpty(page'[c]) =>
                               page'[c].lo <= wm'[c][x] + 1
  PROVE  PageFits'
<1> SUFFICES ASSUME NEW d \in Conns, NEW x \in Sessions,
                    Front(d, x)', Subscribed(d, x)', ~ IsEmpty(page'[d])
             PROVE  page'[d].lo <= wm'[d][x] + 1
  BY DEF PageFits
<1>1. CASE d = c
  BY <1>1
<1>2. CASE d # c
  <2>1. queue'[d] = queue[d] /\ page'[d] = page[d] /\ wm'[d][x] = wm[d][x]
    BY <1>2 DEF Kept
  <2>2. Front(d, x) /\ Subscribed(d, x) /\ ~ IsEmpty(page[d])
    BY <2>1 DEF Front, Subscribed
  <2> QED BY <2>1, <2>2 DEF PageFits
<1> QED BY <1>1, <1>2

\* The page was there before, and the watermark of its session has not fallen.
LEMMA SamePageFits ==
  ASSUME TypeOK, PageFits, NEW c \in Conns, NEW drop, Kept(c, drop), NEW gone, SamePage(c, gone),
         \A d \in Conns \ {c} : \A x \in Sessions : wm'[d][x] = wm[d][x],
         FollowTypes',
         \A x \in Sessions \ gone : wm'[c][x] # None => wm[c][x] # None /\ wm[c][x] <= wm'[c][x]
  PROVE  PageFits'
<1>1. ASSUME NEW x \in Sessions, Front(c, x)', Subscribed(c, x)', ~ IsEmpty(page'[c])
      PROVE  page'[c].lo <= wm'[c][x] + 1
  <2>1. queue[c] # <<>> /\ Head(queue[c]) = x /\ page'[c] = page[c] /\ x \notin gone
    BY <1>1 DEF SamePage, Front
  <2>2. wm'[c][x] # None /\ wm[c][x] # None /\ wm[c][x] <= wm'[c][x]
    BY <1>1, <2>1 DEF Subscribed
  <2>3. page[c].lo <= wm[c][x] + 1
    BY <1>1, <2>1, <2>2 DEF PageFits, Front, Subscribed
  <2>4. wm[c][x] \in Nat /\ wm'[c][x] \in Nat /\ page[c].lo \in Nat
    BY <2>2 DEF TypeOK, FollowTypes
  <2> QED BY <2>1, <2>2, <2>3, <2>4, SMTT(40)
<1> QED BY <1>1, PageFitsFrom

LEMMA InOrderSend ==
  ASSUME TypeOK, InOrder, NEW c \in Conns, NEW s \in Sessions, NEW n \in Nat,
         Subscribed(c, s), n = wm[c][s] + 1, Only(c, s, n, base[c][s], Append(sent[c][s], n))
  PROVE  InOrder'
<1> SUFFICES ASSUME NEW d \in Conns, NEW x \in Sessions, wm'[d][x] # None
             PROVE  /\ base'[d][x] + Len(sent'[d][x]) = wm'[d][x]
                    /\ \A i \in 1..Len(sent'[d][x]) : sent'[d][x][i] = base'[d][x] + i
  BY DEF InOrder, Subscribed
<1>1. CASE d = c /\ x = s
  <2> DEFINE t == sent[c][s]
             b == base[c][s]
  <2>1. t \in Seq(Nat) /\ b \in Nat /\ wm[c][s] \in Nat
    BY DEF TypeOK, Subscribed
  <2>2. b + Len(t) = wm[c][s] /\ \A i \in 1..Len(t) : t[i] = b + i
    BY DEF InOrder
  <2>3. wm'[d][x] = n /\ base'[d][x] = b /\ sent'[d][x] = Append(t, n)
    BY <1>1 DEF Only
  <2> HIDE DEF t, b
  <2> QED BY <2>1, <2>2, <2>3
<1>2. CASE ~(d = c /\ x = s)
  BY <1>2 DEF Only, InOrder, Subscribed
<1> QED BY <1>1, <1>2

LEMMA InOrderSet ==
  ASSUME TypeOK, InOrder, NEW c \in Conns, NEW s \in Sessions, NEW n \in Nat \cup {None},
         SetWatermark(c, s, n)
  PROVE  InOrder'
<1>1. Only(c, s, n, IF n = None THEN 0 ELSE n, <<>>)
  BY WatermarkSet
<1> SUFFICES ASSUME NEW d \in Conns, NEW x \in Sessions, wm'[d][x] # None
             PROVE  /\ base'[d][x] + Len(sent'[d][x]) = wm'[d][x]
                    /\ \A i \in 1..Len(sent'[d][x]) : sent'[d][x][i] = base'[d][x] + i
  BY DEF InOrder, Subscribed
<1>2. CASE d = c /\ x = s
  <2>1. wm'[d][x] = n /\ base'[d][x] = n /\ sent'[d][x] = <<>> /\ n \in Nat
    BY <1>1, <1>2 DEF Only
  <2> QED BY <2>1
<1>3. CASE ~(d = c /\ x = s)
  BY <1>1, <1>3 DEF Only, InOrder, Subscribed
<1> QED BY <1>2, <1>3

LEMMA InOrderSame ==
  ASSUME InOrder, UNCHANGED <<wm, base, sent>>
  PROVE  InOrder'
  BY DEF InOrder, Subscribed

\* What a heard event does to the watermark.
LEMMA HearSends ==
  ASSUME TypeOK, NEW c \in Conns, NEW s \in Sessions, NEW n \in Nat, Hear(c, s, n)
  PROVE  \/ UNCHANGED <<wm, base, sent>>
         \/ Subscribed(c, s) /\ n = wm[c][s] + 1 /\ Send(c, s, n)
<1>1. wm[c][s] \in Nat \cup {None}
  BY DEF TypeOK
<1>2. LiveDelivery(n, wm[c][s]) = "Deliver" => n = wm[c][s] + 1
  BY <1>1 DEF LiveDelivery
<1> QED BY <1>2 DEF Hear, Silent

LEMMA OrderStep == TypeOK /\ TypeOK' /\ PageFits /\ InOrder /\ [Next]_vars => PageFits' /\ InOrder'
<1> SUFFICES ASSUME TypeOK, TypeOK', PageFits, InOrder, [Next]_vars PROVE PageFits' /\ InOrder'
  OBVIOUS
<1> USE SocketType
<1>0. FollowTypes' /\ FollowTypes
  BY DEF TypeOK, FollowTypes
<1>1. CASE UNCHANGED <<wm, queue, page, base, sent>>
  <2>1. PageFits'
    BY <1>1 DEF PageFits, Front, Subscribed
  <2> QED BY <1>1, <2>1, InOrderSame
<1>2. ASSUME NEW c \in Conns, Close(c) PROVE PageFits' /\ InOrder'
  <2>1. /\ \A d \in Conns, x \in Sessions :
             wm'[d][x] = (IF d = c THEN None ELSE wm[d][x])
             /\ (d # c => /\ base'[d][x] = base[d][x] /\ sent'[d][x] = sent[d][x]
                          /\ page'[d] = page[d] /\ queue'[d] = queue[d])
    BY <1>2, <1>0 DEF Close, FollowTypes
  <2>2. PageFits'
    <3> SUFFICES ASSUME NEW d \in Conns, NEW x \in Sessions,
                        Front(d, x)', Subscribed(d, x)', ~ IsEmpty(page'[d])
                 PROVE  page'[d].lo <= wm'[d][x] + 1
      BY DEF PageFits
    <3>1. d # c
      BY <2>1 DEF Subscribed
    <3> QED BY <2>1, <3>1 DEF PageFits, Front, Subscribed
  <2>3. InOrder'
    <3> SUFFICES ASSUME NEW d \in Conns, NEW x \in Sessions, wm'[d][x] # None
                 PROVE  /\ base'[d][x] + Len(sent'[d][x]) = wm'[d][x]
                        /\ \A i \in 1..Len(sent'[d][x]) : sent'[d][x][i] = base'[d][x] + i
      BY DEF InOrder, Subscribed
    <3>1. d # c
      BY <2>1
    <3>2. wm'[d][x] = wm[d][x] /\ base'[d][x] = base[d][x] /\ sent'[d][x] = sent[d][x]
      BY <2>1, <3>1
    <3> QED BY <3>2 DEF InOrder, Subscribed
  <2> QED BY <2>2, <2>3
<1>3. ASSUME NEW c \in Conns, Step(c) PROVE PageFits' /\ InOrder'
  <2>1. PICK s \in Sessions : StepUnsubscribed(c, s) \/ StepSends(c, s) \/ StepReads(c, s)
    BY <1>3 DEF Step
  <2>2. CASE StepUnsubscribed(c, s)
    <3>1. Kept(c, {s}) /\ IsEmpty(page'[c]) /\ UNCHANGED <<wm, base, sent>>
      BY <2>2, PopKeeps DEF StepUnsubscribed, Front, Silent
    <3> QED BY <3>1, PageFitsFrom, InOrderSame
  <2>3. CASE StepSends(c, s)
    <3>1. Kept(c, {}) /\ queue' = queue /\ Front(c, s) /\ Subscribed(c, s) /\ ~ IsEmpty(page[c])
      BY <2>3, SendsKeeps DEF StepSends
    <3>2. page[c].lo <= wm[c][s] + 1 /\ page[c].lo \in Nat /\ wm[c][s] \in Nat /\ page[c].hi \in Nat
      <4>1. wm[c][s] \in Nat
        BY <3>1 DEF Subscribed, TypeOK
      <4>2. page[c].lo <= wm[c][s] + 1
        BY <3>1 DEF PageFits
      <4> QED BY <4>1, <4>2
    <3>3. page'[c] = Popped(page[c]) /\ page[c].lo <= page[c].hi
      BY <2>3, <3>1, <3>2 DEF StepSends, IsEmpty
    <3>4. ~ IsEmpty(page'[c]) => page'[c].lo = page[c].lo + 1
      BY <3>3, PoppedType
    <3>5. CASE page[c].lo > wm[c][s]
      <4>1. Send(c, s, page[c].lo) /\ page[c].lo = wm[c][s] + 1
        BY <2>3, <3>2, <3>5 DEF StepSends
      <4>2. Only(c, s, page[c].lo, base[c][s], Append(sent[c][s], page[c].lo))
        BY <3>2, <4>1, SendSets
      <4>3. InOrder'
        BY <3>1, <3>2, <4>1, <4>2, InOrderSend
      <4>4. \A d \in Conns \ {c} : \A x \in Sessions : wm'[d][x] = wm[d][x]
        BY <4>2 DEF Only
      <4>5. \A x \in Sessions : Front(c, x)' => x = s
        BY <3>1 DEF Front
      <4>6. wm'[c][s] = page[c].lo
        BY <4>2 DEF Only
      <4>7. PageFits'
        BY <3>1, <3>2, <3>4, <4>4, <4>5, <4>6, PageFitsFrom
      <4> QED BY <4>3, <4>7
    <3>6. CASE ~(page[c].lo > wm[c][s])
      <4>1. UNCHANGED <<wm, base, sent>>
        BY <2>3, <3>6 DEF StepSends, Silent
      <4>2. \A x \in Sessions : Front(c, x)' => x = s
        BY <3>1 DEF Front
      <4>3. ~ IsEmpty(page'[c]) => page'[c].lo <= wm'[c][s] + 1
        BY <3>2, <3>4, <3>6, <4>1
      <4> QED BY <3>1, <4>1, <4>2, <4>3, PageFitsFrom, InOrderSame
    <3> QED BY <3>5, <3>6
  <2>4. CASE StepReads(c, s)
    <3>1. /\ Kept(c, {s}) /\ UNCHANGED <<wm, base, sent>> /\ Front(c, s)
          /\ queue' = queue => page'[c].lo = wm[c][s] + 1
          /\ queue' # queue => IsEmpty(page'[c])
      BY <2>4, ReadsKeeps DEF StepReads
    <3>2. ASSUME NEW x \in Sessions, Front(c, x)', Subscribed(c, x)', ~ IsEmpty(page'[c])
          PROVE  page'[c].lo <= wm'[c][x] + 1
      <4>1. queue' = queue /\ x = s /\ wm'[c][x] = wm[c][s]
        BY <3>1, <3>2 DEF Front
      <4>2. wm[c][s] \in Nat
        BY <2>4 DEF StepReads, Subscribed, TypeOK
      <4> QED BY <3>1, <4>1, <4>2
    <3> QED BY <3>1, <3>2, PageFitsFrom, InOrderSame
  <2> QED BY <2>1, <2>2, <2>3, <2>4
<1>4. ASSUME NEW c \in Conns, Receive(c) PROVE PageFits' /\ InOrder'
  <2> DEFINE s == ring[pos[c]].s
             n == ring[pos[c]].seq
  <2>1. s \in Sessions /\ n \in Nat /\ Hear(c, s, n)
    <3>1. pos[c] \in 1..Len(ring)
      BY <1>4, OldestType DEF Receive, TypeOK
    <3> QED BY <1>4, <3>1, RingElement DEF Receive
  <2> HIDE DEF s, n
  <2>2. Kept(c, {}) /\ SamePage(c, {})
    BY <2>1, HearType
  <2>3. CASE UNCHANGED <<wm, base, sent>>
    <3>1. \A x \in Sessions : wm'[c][x] # None => wm[c][x] # None /\ wm[c][x] <= wm'[c][x]
      <4>1. \A x \in Sessions : wm[c][x] \in Nat \cup {None}
        BY DEF TypeOK
      <4>2. wm' = wm
        BY <2>3
      <4>3. \A i \in Nat : i <= i
        OBVIOUS
      <4> QED BY <4>1, <4>2, <4>3
    <3> QED BY <1>0, <2>2, <2>3, <3>1, SamePageFits, InOrderSame
  <2>4. CASE Subscribed(c, s) /\ n = wm[c][s] + 1 /\ Send(c, s, n)
    <3>1. Only(c, s, n, base[c][s], Append(sent[c][s], n))
      BY <2>1, <2>4, SendSets
    <3>2. \A x \in Sessions : wm'[c][x] # None => wm[c][x] # None /\ wm[c][x] <= wm'[c][x]
      <4>1. \A x \in Sessions : wm[c][x] \in Nat \cup {None}
        BY DEF TypeOK
      <4> QED BY <2>1, <2>4, <3>1, <4>1, SMTT(40) DEF Only, Subscribed, None
    <3>3. \A d \in Conns \ {c} : \A x \in Sessions : wm'[d][x] = wm[d][x]
      BY <3>1 DEF Only
    <3>4. PageFits'
      BY <1>0, <2>2, <3>2, <3>3, SamePageFits
    <3> QED BY <2>1, <2>4, <3>1, <3>4, InOrderSend
  <2> QED BY <2>1, <2>3, <2>4, HearSends
<1>5. ASSUME NEW c \in Conns, Lagged(c) PROVE PageFits' /\ InOrder'
  <2>1. Kept(c, {}) /\ SamePage(c, {x \in Sessions : Subscribed(c, x)}) /\ UNCHANGED <<wm, base, sent>>
    BY <1>5, BeginAllKeeps DEF Lagged, Silent
  <2>2. \A x \in Sessions : wm'[c][x] # None => x \in {y \in Sessions : Subscribed(c, y)}
    BY <2>1 DEF Subscribed
  <2> QED BY <1>0, <2>1, <2>2, SamePageFits, InOrderSame
<1>6. ASSUME NEW c \in Conns, NEW s \in Sessions, NEW n \in Nat \cup {None}, NEW drop,
             SetWatermark(c, s, n), Kept(c, drop), SamePage(c, {s})
      PROVE  PageFits' /\ InOrder'
  <2>1. Only(c, s, n, IF n = None THEN 0 ELSE n, <<>>)
    BY <1>6, WatermarkSet
  <2>2. \A d \in Conns \ {c} : \A x \in Sessions : wm'[d][x] = wm[d][x]
    BY <2>1 DEF Only
  <2>3. \A x \in Sessions \ {s} : wm'[c][x] # None => wm[c][x] # None /\ wm[c][x] <= wm'[c][x]
    <3>1. \A x \in Sessions \ {s} : wm'[c][x] = wm[c][x] /\ wm[c][x] \in Nat \cup {None}
      BY <2>1 DEF Only, TypeOK
    <3> QED BY <3>1
  <2>4. PageFits'
    BY <1>0, <1>6, <2>2, <2>3, SamePageFits
  <2> QED BY <1>6, <2>4, InOrderSet
<1>7. ASSUME NEW c \in Conns, NEW s \in Sessions, NEW n \in 0..MaxSeq, Subscribe(c, s, n)
      PROVE  PageFits' /\ InOrder'
  <2>1. n \in Nat \cup {None} /\ SetWatermark(c, s, n) /\ Begin(c, s)
    BY <1>7 DEF Subscribe
  <2> QED BY <1>6, <2>1, BeginKeeps
<1>8. ASSUME NEW c \in Conns, NEW s \in Sessions, Unsubscribe(c, s) PROVE PageFits' /\ InOrder'
  <2>1. SetWatermark(c, s, None) /\ UNCHANGED <<queue, page>>
    BY <1>8 DEF Unsubscribe
  <2>2. Only(c, s, None, 0, <<>>)
    BY <2>1, WatermarkSet
  <2>3. PageFits'
    BY <2>1, <2>2, ZenonT(60) DEF PageFits, Front, Subscribed, Only
  <2> QED BY <2>1, <2>3, InOrderSet
<1>9. ASSUME NEW c \in Conns, NEW s \in Sessions, DeleteSession(c, s) PROVE PageFits' /\ InOrder'
  BY <1>6, <1>9, DropKeeps DEF DeleteSession
<1>10. CASE Crash
  BY <1>10 DEF Crash, PageFits, InOrder, Front, Subscribed
<1>11. CASE UNCHANGED vars
  BY <1>1, <1>11 DEF vars
<1>12. CASE \/ \E p \in Publishers, s \in Sessions : Ingest(p, s)
            \/ \E p \in Publishers : \E n \in BatchOf(p) : Commit(p, n)
            \/ \E p \in Publishers : Refused(p) \/ Publish(p) \/ Abort(p)
            \/ \E s \in Sessions : OrphanCommits(s) \/ Prune(s)
            \/ \E c \in Conns : Connect(c)
  BY <1>1, <1>12 DEF Ingest, Commit, Refused, Publish, Abort, OrphanCommits, Prune, Connect, phoneVars
<1> QED BY <1>2, <1>3, <1>4, <1>5, <1>7, <1>8, <1>9, <1>10, <1>11, <1>12 DEF Next

\* Whatever mix of live delivery, replay, lag, re-subscription, deletion and
\* restarts happened, a subscription has been sent exactly the seqs after the
\* one it asked for, once each and in order (module comment of ws_server.rs).
THEOREM InOrderHolds == Spec => []InOrder
<1>1. Init => PageFits /\ InOrder
  BY DEF Init, PageFits, InOrder, Front, Subscribed
<1>2. TypeOK /\ TypeOK' /\ PageFits /\ InOrder /\ [Next]_vars => PageFits' /\ InOrder'
  BY OrderStep
<1> QED BY <1>1, <1>2, TypeCorrect, PTL DEF Spec

-----------------------------------------------------------------------------
\* Publication order. The publish gate is what makes it inductive: at most one
\* publisher per session has events that are committed and not yet broadcast.
LEMMA SeqOrderStep == TypeOK /\ InSeqOrder /\ [Next]_vars => InSeqOrder'
<1> SUFFICES ASSUME TypeOK, InSeqOrder, [Next]_vars PROVE InSeqOrder'
  OBVIOUS
<1>0. /\ log \in [Sessions -> Nat] /\ job \in [Publishers -> Jobs] /\ Len(ring) \in Nat
      /\ ring \in Seq([s : Sessions, seq : Nat])
      /\ \A i \in 1..Len(ring) : ring[i].s \in Sessions /\ ring[i].seq \in Nat
  BY RingElement, SMTT(40) DEF TypeOK
<1>1. CASE UNCHANGED <<log, job, ring>>
  BY <1>1 DEF InSeqOrder
<1>2. ASSUME NEW p \in Publishers, NEW s \in Sessions, Ingest(p, s) PROVE InSeqOrder'
  <2>1. /\ \A q \in Publishers \ {p} : job'[q] = job[q] /\ (job[q].at # "idle" => job[q].s # s)
        /\ job'[p].at = "submitted" /\ job'[p].s = s
        /\ UNCHANGED <<log, ring>>
    BY <1>0, <1>2 DEF Ingest, GateFree, storeVars
  <2> QED BY <2>1 DEF InSeqOrder
<1>3. ASSUME NEW p \in Publishers, NEW n \in BatchOf(p), Commit(p, n) PROVE InSeqOrder'
  <2> DEFINE s == job[p].s
  <2>1. n \in Nat \ {0} /\ s \in Sessions /\ log[s] \in Nat /\ job[p].at = "submitted"
    BY <1>3, PublisherType DEF Commit, BatchOf
  <2>2. /\ \A q \in Publishers \ {p} : job'[q] = job[q]
        /\ job'[p].at = "committed" /\ job'[p].s = s /\ job'[p].lo = log[s] + 1 /\ job'[p].hi = log[s] + n
        /\ log'[s] = log[s] + n /\ \A x \in Sessions \ {s} : log'[x] = log[x]
        /\ ring' = ring
    BY <1>0, <1>3, <2>1 DEF Commit
  <2>3. \A x \in Sessions : log[x] \in Nat /\ log'[x] \in Nat /\ log[x] <= log'[x]
    BY <1>0, <2>1, <2>2
  <2>4. \A i \in 1..Len(ring) : ring[i].seq <= log'[ring[i].s]
    BY <1>0, <2>3 DEF InSeqOrder
  <2>5. ASSUME NEW q \in Publishers, job'[q].at = "committed"
        PROVE  /\ job'[q].lo <= job'[q].hi
               /\ job'[q].hi <= log'[job'[q].s]
               /\ \A i \in 1..Len(ring) : ring[i].s = job'[q].s => ring[i].seq < job'[q].lo
    <3>1. CASE q = p
      <4>1. job'[q].lo <= job'[q].hi /\ job'[q].hi <= log'[job'[q].s]
        BY <2>1, <2>2, <3>1
      <4>2. ASSUME NEW i \in 1..Len(ring), ring[i].s = job'[q].s PROVE ring[i].seq < job'[q].lo
        <5>1. ring[i].seq <= log[ring[i].s] /\ ring[i].s = s /\ ring[i].seq \in Nat
          BY <1>0, <2>2, <3>1, <4>2 DEF InSeqOrder
        <5> QED BY <2>1, <2>2, <3>1, <5>1
      <4> QED BY <4>1, <4>2
    <3>2. CASE q # p
      <4>1. job'[q] = job[q] /\ job[q] \in [at : {"submitted", "committed"}, s : Sessions, lo : Nat, hi : Nat]
        BY <2>2, <2>5, <3>2, PublisherType
      <4>2. job[q].s \in Sessions /\ job[q].hi \in Nat
        BY <4>1
      <4> QED BY <2>3, <2>5, <4>1, <4>2 DEF InSeqOrder
    <3> QED BY <3>1, <3>2
  <2>6. \A q, r \in Publishers :
          job'[q].at # "idle" /\ job'[r].at # "idle" /\ job'[q].s = job'[r].s => q = r
    BY <2>1, <2>2 DEF InSeqOrder
  <2> QED BY <2>2, <2>4, <2>5, <2>6 DEF InSeqOrder
<1>4. ASSUME NEW p \in Publishers, job' = [job EXCEPT ![p] = Idle], UNCHANGED <<log, ring>>
      PROVE  InSeqOrder'
  <2>1. job'[p].at = "idle" /\ \A q \in Publishers \ {p} : job'[q] = job[q]
    BY <1>0, <1>4 DEF Idle
  <2> QED BY <1>4, <2>1 DEF InSeqOrder
<1>5. ASSUME NEW p \in Publishers, Publish(p) PROVE InSeqOrder'
  <2> DEFINE s == job[p].s
             e == [s |-> job[p].s, seq |-> job[p].lo]
  <2>1. job[p].at = "committed" /\ s \in Sessions /\ job[p].lo \in Nat /\ job[p].hi \in Nat
        /\ job[p] \in [at : {"submitted", "committed"}, s : Sessions, lo : Nat, hi : Nat]
    BY <1>5, PublisherType DEF Publish
  <2>2. /\ Len(ring') = Len(ring) + 1 /\ ring'[Len(ring) + 1] = e
        /\ \A i \in 1..Len(ring) : ring'[i] = ring[i]
    BY <1>0, <1>5 DEF Publish
  <2>a. ASSUME NEW i \in 1..Len(ring')
        PROVE  \/ i \in 1..Len(ring) /\ ring'[i].s = ring[i].s /\ ring'[i].seq = ring[i].seq
               \/ i = Len(ring) + 1 /\ ring'[i].s = s /\ ring'[i].seq = job[p].lo
    <3>1. i \in 1..Len(ring) \/ i = Len(ring) + 1
      BY <1>0, <2>2
    <3> QED BY <2>2, <3>1
  <2>3. log' = log /\ \A q \in Publishers \ {p} : job'[q] = job[q]
    BY <1>0, <1>5 DEF Publish, storeVars
  <2>4. job'[p].at # "idle" => job'[p].at = "committed" /\ job'[p].s = s /\ job'[p].lo = job[p].lo + 1
                               /\ job'[p].hi = job[p].hi /\ job[p].lo # job[p].hi
    BY <1>0, <1>5, <2>1 DEF Publish, Idle
  <2>5. job[p].lo <= job[p].hi /\ job[p].hi <= log[s]
        /\ \A i \in 1..Len(ring) : ring[i].s = s => ring[i].seq < job[p].lo
    BY <2>1 DEF InSeqOrder
  <2>6. \A i \in 1..Len(ring') : ring'[i].seq <= log'[ring'[i].s]
    <3> SUFFICES ASSUME NEW i \in 1..Len(ring') PROVE ring'[i].seq <= log[ring'[i].s]
      BY <2>3
    <3>1. CASE i \in 1..Len(ring) /\ ring'[i].s = ring[i].s /\ ring'[i].seq = ring[i].seq
      BY <3>1 DEF InSeqOrder
    <3>2. CASE ring'[i].s = s /\ ring'[i].seq = job[p].lo
      BY <1>0, <2>1, <2>5, <3>2
    <3> QED BY <2>a, <3>1, <3>2
  <2>7. \A i, j \in 1..Len(ring') : i < j /\ ring'[i].s = ring'[j].s => ring'[i].seq < ring'[j].seq
    <3> SUFFICES ASSUME NEW i \in 1..Len(ring'), NEW j \in 1..Len(ring'), i < j, ring'[i].s = ring'[j].s
                 PROVE  ring'[i].seq < ring'[j].seq
      OBVIOUS
    <3>1. i \in 1..Len(ring) /\ ring'[i].s = ring[i].s /\ ring'[i].seq = ring[i].seq
      BY <1>0, <2>2, <2>a
    <3>2. CASE j \in 1..Len(ring) /\ ring'[j].s = ring[j].s /\ ring'[j].seq = ring[j].seq
      BY <3>1, <3>2 DEF InSeqOrder
    <3>3. CASE ring'[j].s = s /\ ring'[j].seq = job[p].lo
      BY <2>5, <3>1, <3>3
    <3> QED BY <2>a, <3>2, <3>3
  <2>8. ASSUME NEW q \in Publishers, job'[q].at = "committed"
        PROVE  /\ job'[q].lo <= job'[q].hi
               /\ job'[q].hi <= log'[job'[q].s]
               /\ \A i \in 1..Len(ring') : ring'[i].s = job'[q].s => ring'[i].seq < job'[q].lo
    <3>1. CASE q = p
      <4>1. job'[p].s = s /\ job'[p].lo = job[p].lo + 1 /\ job'[p].hi = job[p].hi /\ job[p].lo # job[p].hi
        BY <2>4, <2>8, <3>1
      <4>2. ASSUME NEW i \in 1..Len(ring'), ring'[i].s = s PROVE ring'[i].seq < job[p].lo + 1
        <5>1. CASE i \in 1..Len(ring) /\ ring'[i].s = ring[i].s /\ ring'[i].seq = ring[i].seq
          BY <1>0, <2>1, <2>5, <4>2, <5>1, SMTT(40)
        <5>2. CASE ring'[i].seq = job[p].lo
          BY <2>1, <5>2
        <5> QED BY <2>a, <5>1, <5>2
      <4>3. job[p].lo + 1 <= job[p].hi
        BY <2>1, <2>5, <4>1
      <4> QED BY <2>3, <2>5, <3>1, <4>1, <4>2, <4>3
    <3>2. CASE q # p
      <4>1. job'[q] = job[q] /\ job[q].at = "committed" /\ job[q].s # s
        BY <2>1, <2>3, <2>8, <3>2 DEF InSeqOrder
      <4>2. ASSUME NEW i \in 1..Len(ring'), ring'[i].s = job[q].s PROVE ring'[i].seq < job[q].lo
        <5>1. i \in 1..Len(ring) /\ ring'[i].s = ring[i].s /\ ring'[i].seq = ring[i].seq
          BY <2>a, <4>1, <4>2
        <5> QED BY <4>1, <4>2, <5>1 DEF InSeqOrder
      <4> QED BY <2>3, <4>1, <4>2 DEF InSeqOrder
    <3> QED BY <3>1, <3>2
  <2>9. \A q, r \in Publishers :
          job'[q].at # "idle" /\ job'[r].at # "idle" /\ job'[q].s = job'[r].s => q = r
    BY <2>1, <2>3, <2>4 DEF InSeqOrder
  <2> QED BY <2>6, <2>7, <2>8, <2>9 DEF InSeqOrder
<1>6. ASSUME NEW s \in Sessions, OrphanCommits(s) PROVE InSeqOrder'
  <2>1. UNCHANGED <<job, ring>> /\ \A x \in Sessions : log[x] \in Nat /\ log'[x] \in Nat /\ log[x] <= log'[x]
    <3>1. UNCHANGED <<job, ring>> /\ (log' = log \/ log' = [log EXCEPT ![s] = log[s] + 1])
      BY <1>6 DEF OrphanCommits
    <3> QED BY <1>0, <3>1
  <2>2. ASSUME NEW q \in Publishers, job[q].at = "committed" PROVE job[q].hi <= log'[job[q].s]
    <3>1. job[q].s \in Sessions /\ job[q].hi \in Nat
      BY <2>2, PublisherType
    <3> QED BY <2>1, <2>2, <3>1 DEF InSeqOrder
  <2>3. \A i \in 1..Len(ring) : ring[i].seq <= log'[ring[i].s]
    BY <1>0, <2>1 DEF InSeqOrder
  <2> QED BY <2>1, <2>2, <2>3 DEF InSeqOrder
<1>7. CASE Crash
  BY <1>7 DEF Crash, InSeqOrder, Idle
<1>8. ASSUME NEW p \in Publishers, Refused(p) \/ Abort(p) PROVE InSeqOrder'
  BY <1>4, <1>8 DEF Refused, Abort, storeVars
<1>9. CASE \/ \E s \in Sessions : Prune(s)
           \/ \E c \in Conns : Connect(c) \/ Close(c) \/ Step(c) \/ Receive(c) \/ Lagged(c)
           \/ \E c \in Conns, s \in Sessions : \E n \in 0..MaxSeq : Subscribe(c, s, n)
           \/ \E c \in Conns, s \in Sessions : Unsubscribe(c, s) \/ DeleteSession(c, s)
           \/ UNCHANGED vars
  BY <1>1, <1>9 DEF Prune, Connect, Close, Step, Receive, Lagged, Subscribe, Unsubscribe,
                    DeleteSession, vars, storeVars
<1> QED BY <1>2, <1>3, <1>5, <1>6, <1>7, <1>8, <1>9 DEF Next

LEMMA SeqOrderHolds == Spec => [](TypeOK /\ InSeqOrder)
<1>1. Init => InSeqOrder
  BY DEF Init, InSeqOrder, Idle
<1>2. TypeOK /\ InSeqOrder /\ [Next]_vars => InSeqOrder'
  BY SeqOrderStep
<1> QED BY <1>1, <1>2, TypeCorrect, PTL DEF Spec

-----------------------------------------------------------------------------
\* Nothing is stranded. One lemma for the publishers' steps, one for a socket's.
LEMMA StrandedStore ==
  ASSUME TypeOK, NothingStranded, UNCHANGED phoneVars, deleted \subseteq deleted',
         \A x \in Sessions : lost[x] \subseteq lost'[x],
         \A c \in open, x \in Sessions \ deleted' : Subscribed(c, x) =>
           \A n \in (wm[c][x] + 1)..log'[x] : n \notin lost'[x] =>
             \/ n \in 1..log[x] /\ Replaying(c, x)
             \/ n > log[x]
                /\ \E p \in Publishers : job'[p].at = "committed" /\ job'[p].s = x /\ n \in job'[p].lo..job'[p].hi
             \/ \E i \in pos[c]..Len(ring') : ring'[i] = [s |-> x, seq |-> n]
             \/ \E p \in Publishers : job'[p].at = "committed" /\ job'[p].s = x /\ n \in job'[p].lo..job'[p].hi
  PROVE  NothingStranded'
<1>1. UNCHANGED <<open, pos, wm, queue>>
  BY DEF phoneVars
<1> QED BY <1>1 DEF NothingStranded, Arriving, Subscribed, Replaying

LEMMA StrandedSocket ==
  ASSUME TypeOK, NothingStranded, NEW c \in Conns, NEW drop, Kept(c, drop),
         UNCHANGED <<log, lost, job, ring>>, deleted \subseteq deleted', open' \subseteq open \cup {c},
         \A d \in Conns \ {c} : pos'[d] = pos[d] /\ \A x \in Sessions : wm'[d][x] = wm[d][x],
         \A x \in Sessions \ deleted' : c \in open' /\ wm'[c][x] # None =>
           \A n \in (wm'[c][x] + 1)..log[x] : n \in lost[x] \/ Arriving(c, x, n)'
  PROVE  NothingStranded'
<1> SUFFICES ASSUME NEW d \in open', NEW x \in Sessions \ deleted', wm'[d][x] # None,
                    NEW n \in (wm'[d][x] + 1)..log[x], n \notin lost[x]
             PROVE  Arriving(d, x, n)'
  BY DEF NothingStranded, Subscribed
<1>1. CASE d = c
  BY <1>1
<1>2. CASE d # c
  <2>1. d \in open /\ d \in Conns /\ x \in Sessions \ deleted
    BY <1>2 DEF TypeOK
  <2>2. wm'[d][x] = wm[d][x] /\ pos'[d] = pos[d] /\ queue'[d] = queue[d]
    BY <1>2, <2>1 DEF Kept
  <2>3. Arriving(d, x, n)
    BY <2>1, <2>2 DEF NothingStranded, Subscribed
  <2> QED BY <2>2, <2>3 DEF Arriving, Replaying
<1> QED BY <1>1, <1>2

\* Where the receiver has not moved, only the queue entries in drop and the
\* watermark matter.
LEMMA StillArriving ==
  ASSUME NEW c \in Conns, NEW drop, Kept(c, drop), UNCHANGED <<job, ring>>, pos'[c] = pos[c],
         NEW x \in Sessions, x \notin drop, NEW n, Arriving(c, x, n)
  PROVE  Arriving(c, x, n)'
  BY DEF Arriving, Replaying, Kept

LEMMA StrandedStep ==
  TypeOK /\ TypeOK' /\ InSeqOrder /\ ClosedFollowsNothing /\ NothingStranded /\ [Next]_vars
    => NothingStranded'
<1> SUFFICES ASSUME TypeOK, TypeOK', InSeqOrder, ClosedFollowsNothing, NothingStranded, [Next]_vars
             PROVE  NothingStranded'
  OBVIOUS
<1> USE SocketType
<1>0. /\ log \in [Sessions -> Nat] /\ job \in [Publishers -> Jobs] /\ Len(ring) \in Nat
      /\ open \subseteq Conns /\ deleted \subseteq Sessions /\ pos \in [Conns -> Nat \ {0}]
      /\ \A c \in Conns, x \in Sessions : wm[c][x] \in Nat \cup {None}
  <2>1. /\ log \in [Sessions -> Nat] /\ job \in [Publishers -> Jobs]
        /\ open \subseteq Conns /\ deleted \subseteq Sessions /\ pos \in [Conns -> Nat \ {0}]
    BY DEF TypeOK
  <2>2. ring \in Seq([s : Sessions, seq : Nat])
    BY DEF TypeOK
  <2>3. wm \in [Conns -> [Sessions -> Nat \cup {None}]]
    BY DEF TypeOK
  <2>4. Len(ring) \in Nat
    BY <2>2
  <2>5. \A c \in Conns, x \in Sessions : wm[c][x] \in Nat \cup {None}
    BY <2>3
  <2> QED BY <2>1, <2>4, <2>5
<1>1. ASSUME NEW c \in open, NEW x \in Sessions \ deleted, Subscribed(c, x),
             NEW n \in (wm[c][x] + 1)..log[x], n \notin lost[x]
      PROVE  /\ n \in 1..log[x]
             /\ \/ Replaying(c, x)
                \/ \E i \in pos[c]..Len(ring) : ring[i] = [s |-> x, seq |-> n]
                \/ \E p \in Publishers : job[p].at = "committed" /\ job[p].s = x /\ n \in job[p].lo..job[p].hi
  <2>1. Arriving(c, x, n)
    BY <1>1 DEF NothingStranded
  <2>2. wm[c][x] \in Nat /\ log[x] \in Nat
    BY <1>0, <1>1 DEF Subscribed
  <2>3. n \in 1..log[x]
    BY <2>2
  <2> QED BY <2>1, <2>3 DEF Arriving
<1>2. CASE UNCHANGED vars
  BY <1>2 DEF vars, NothingStranded, Arriving, Replaying, Subscribed
<1>3. ASSUME NEW p \in Publishers, NEW s \in Sessions, Ingest(p, s) PROVE NothingStranded'
  <2>1. /\ UNCHANGED <<log, deleted, orphans, lost, ring>> /\ UNCHANGED phoneVars /\ job[p].at = "idle"
        /\ \A q \in Publishers \ {p} : job'[q] = job[q]
    BY <1>0, <1>3 DEF Ingest, storeVars
  <2> QED BY <1>1, <2>1, StrandedStore
<1>4. ASSUME NEW p \in Publishers, Refused(p) PROVE NothingStranded'
  <2>1. /\ UNCHANGED <<log, deleted, orphans, lost, ring>> /\ UNCHANGED phoneVars /\ job[p].at = "submitted"
        /\ \A q \in Publishers \ {p} : job'[q] = job[q]
    BY <1>0, <1>4 DEF Refused, storeVars
  <2> QED BY <1>1, <2>1, StrandedStore
<1>5. ASSUME NEW p \in Publishers, NEW k \in BatchOf(p), Commit(p, k) PROVE NothingStranded'
  <2> DEFINE s == job[p].s
  <2>1. k \in Nat \ {0} /\ s \in Sessions /\ log[s] \in Nat /\ job[p].at = "submitted"
    BY <1>5, PublisherType DEF Commit, BatchOf
  <2>2. /\ \A q \in Publishers \ {p} : job'[q] = job[q]
        /\ job'[p].at = "committed" /\ job'[p].s = s /\ job'[p].lo = log[s] + 1 /\ job'[p].hi = log[s] + k
        /\ log'[s] = log[s] + k /\ \A x \in Sessions \ {s} : log'[x] = log[x]
        /\ UNCHANGED <<deleted, lost, ring>> /\ UNCHANGED phoneVars
    BY <1>0, <1>5, <2>1 DEF Commit
  <2> HIDE DEF s
  <2>3. ASSUME NEW c \in open, NEW x \in Sessions \ deleted', Subscribed(c, x),
               NEW n \in (wm[c][x] + 1)..log'[x], n \notin lost'[x]
        PROVE  \/ n \in 1..log[x] /\ Replaying(c, x)
               \/ \E i \in pos[c]..Len(ring') : ring'[i] = [s |-> x, seq |-> n]
               \/ \E q \in Publishers : job'[q].at = "committed" /\ job'[q].s = x /\ n \in job'[q].lo..job'[q].hi
    <3>1. wm[c][x] \in Nat /\ log[x] \in Nat /\ x \in Sessions \ deleted
      BY <1>0, <2>2, <2>3 DEF Subscribed
    <3>2. CASE n <= log[x]
      <4>1. n \in (wm[c][x] + 1)..log[x] /\ n \notin lost[x]
        BY <2>2, <2>3, <3>1, <3>2
      <4> QED BY <1>1, <2>1, <2>2, <2>3, <3>1, <4>1, SMTT(40)
    <3>3. CASE n > log[x]
      <4>1. x = s
        BY <2>2, <3>1, <3>3
      <4>2. n \in job'[p].lo..job'[p].hi
        BY <2>1, <2>2, <3>1, <3>3, <4>1
      <4> QED BY <2>2, <4>1, <4>2
    <3> QED BY <3>1, <3>2, <3>3
  <2> QED BY <2>2, <2>3, StrandedStore
<1>6. ASSUME NEW p \in Publishers, Publish(p) PROVE NothingStranded'
  <2> DEFINE s == job[p].s
  <2>1. job[p].at = "committed" /\ s \in Sessions /\ job[p].lo \in Nat /\ job[p].hi \in Nat
        /\ job[p] \in [at : {"submitted", "committed"}, s : Sessions, lo : Nat, hi : Nat]
    BY <1>6, PublisherType DEF Publish
  <2>2. /\ Len(ring') = Len(ring) + 1 /\ ring'[Len(ring) + 1] = [s |-> s, seq |-> job[p].lo]
        /\ \A i \in 1..Len(ring) : ring'[i] = ring[i]
    <3>1. ring \in Seq([s : Sessions, seq : Nat])
      BY DEF TypeOK
    <3> QED BY <1>6, <3>1 DEF Publish
  <2>3. UNCHANGED <<log, deleted, lost>> /\ UNCHANGED phoneVars /\ \A q \in Publishers \ {p} : job'[q] = job[q]
    BY <1>0, <1>6 DEF Publish, storeVars
  <2>4. job[p].lo # job[p].hi => /\ job'[p].at = "committed" /\ job'[p].s = s
                                 /\ job'[p].lo = job[p].lo + 1 /\ job'[p].hi = job[p].hi
    BY <1>0, <1>6, <2>1 DEF Publish
  <2> HIDE DEF s
  <2>5. ASSUME NEW c \in open, NEW x \in Sessions \ deleted', Subscribed(c, x),
               NEW n \in (wm[c][x] + 1)..log'[x], n \notin lost'[x]
        PROVE  \/ n \in 1..log[x] /\ Replaying(c, x)
               \/ \E i \in pos[c]..Len(ring') : ring'[i] = [s |-> x, seq |-> n]
               \/ \E q \in Publishers : job'[q].at = "committed" /\ job'[q].s = x /\ n \in job'[q].lo..job'[q].hi
    <3>0. pos[c] \in Nat \ {0} /\ pos[c] <= Len(ring) + 1
      BY <1>0 DEF TypeOK
    <3>1. CASE Replaying(c, x)
      BY <1>1, <2>3, <2>5, <3>1
    <3>2. ASSUME NEW i \in pos[c]..Len(ring), ring[i] = [s |-> x, seq |-> n]
          PROVE  \E j \in pos[c]..Len(ring') : ring'[j] = [s |-> x, seq |-> n]
      <4>1. i \in pos[c]..Len(ring') /\ i \in 1..Len(ring)
        BY <1>0, <2>2, <3>0
      <4> QED BY <2>2, <3>2, <4>1
    <3>3. ASSUME NEW q \in Publishers, job[q].at = "committed", job[q].s = x, n \in job[q].lo..job[q].hi
          PROVE  \/ \E i \in pos[c]..Len(ring') : ring'[i] = [s |-> x, seq |-> n]
                 \/ \E r \in Publishers : job'[r].at = "committed" /\ job'[r].s = x /\ n \in job'[r].lo..job'[r].hi
      <4>1. CASE q # p
        BY <2>3, <3>3, <4>1
      <4>2. CASE q = p /\ n = job[p].lo
        <5>1. Len(ring) + 1 \in pos[c]..Len(ring') /\ x = s
          BY <1>0, <2>2, <3>0, <3>3, <4>2 DEF s
        <5> QED BY <2>2, <4>2, <5>1
      <4>3. CASE q = p /\ n # job[p].lo
        <5>1. job[p].lo # job[p].hi /\ n \in (job[p].lo + 1)..job[p].hi /\ x = s
          BY <2>1, <3>3, <4>3 DEF s
        <5> QED BY <2>4, <5>1
      <4> QED BY <4>1, <4>2, <4>3
    <3> QED BY <1>1, <2>3, <2>5, <3>1, <3>2, <3>3
  <2> QED BY <2>3, <2>5, StrandedStore
<1>7. ASSUME NEW p \in Publishers, Abort(p) PROVE NothingStranded'
  <2> DEFINE s == job[p].s
  <2>1. s \in Sessions /\ lost \in [Sessions -> SUBSET Nat]
    BY <1>7, PublisherType DEF Abort, TypeOK
  <2>2. UNCHANGED <<log, deleted, ring>> /\ UNCHANGED phoneVars /\ \A q \in Publishers \ {p} : job'[q] = job[q]
    BY <1>0, <1>7 DEF Abort
  <2>3. \/ job[p].at = "submitted" /\ lost' = lost
        \/ /\ lost'[s] = lost[s] \cup job[p].lo..job[p].hi
           /\ \A x \in Sessions \ {s} : lost'[x] = lost[x]
    BY <1>7, <2>1 DEF Abort
  <2>4. \A x \in Sessions : lost[x] \subseteq lost'[x]
    BY <2>3
  <2>5. ASSUME NEW c \in open, NEW x \in Sessions \ deleted', Subscribed(c, x),
               NEW n \in (wm[c][x] + 1)..log'[x], n \notin lost'[x]
        PROVE  \/ n \in 1..log[x] /\ Replaying(c, x)
               \/ \E i \in pos[c]..Len(ring') : ring'[i] = [s |-> x, seq |-> n]
               \/ \E q \in Publishers : job'[q].at = "committed" /\ job'[q].s = x /\ n \in job'[q].lo..job'[q].hi
    <3>1. ASSUME NEW q \in Publishers, job[q].at = "committed", job[q].s = x, n \in job[q].lo..job[q].hi
          PROVE  job'[q] = job[q]
      BY <2>2, <2>3, <2>5, <3>1
    <3> QED BY <1>1, <2>2, <2>4, <2>5, <3>1
  <2> QED BY <2>2, <2>4, <2>5, StrandedStore
<1>8. ASSUME NEW s \in Sessions, OrphanCommits(s) PROVE NothingStranded'
  <2>1. UNCHANGED <<deleted, job, ring>> /\ UNCHANGED phoneVars /\ lost \in [Sessions -> SUBSET Nat]
    BY <1>8 DEF OrphanCommits, TypeOK
  <2>2. \/ UNCHANGED <<log, lost>>
        \/ /\ log' = [log EXCEPT ![s] = log[s] + 1]
           /\ lost' = [lost EXCEPT ![s] = lost[s] \cup {log[s] + 1}]
    BY <1>8 DEF OrphanCommits
  <2>3. \A x \in Sessions : /\ lost[x] \subseteq lost'[x]
                            /\ log'[x] = log[x] \/ (log'[x] = log[x] + 1 /\ log[x] + 1 \in lost'[x])
    BY <1>0, <2>1, <2>2
  <2>4. ASSUME NEW c \in open, NEW x \in Sessions \ deleted', Subscribed(c, x),
               NEW n \in (wm[c][x] + 1)..log'[x], n \notin lost'[x]
        PROVE  n \in (wm[c][x] + 1)..log[x] /\ n \notin lost[x]
    <3>1. wm[c][x] \in Nat /\ log[x] \in Nat
      BY <1>0, <2>1, <2>4 DEF Subscribed
    <3> QED BY <2>3, <2>4, <3>1
  <2> QED BY <1>1, <2>1, <2>3, <2>4, StrandedStore
<1>9. ASSUME NEW s \in Sessions, Prune(s) PROVE NothingStranded'
  <2>1. UNCHANGED <<log, lost, job, ring>> /\ UNCHANGED phoneVars /\ deleted \subseteq deleted'
    BY <1>9 DEF Prune
  <2> QED BY <1>1, <2>1, StrandedStore
<1>10. ASSUME NEW c \in Conns, Connect(c) PROVE NothingStranded'
  <2>1. Kept(c, {}) /\ UNCHANGED <<log, lost, job, ring, deleted, wm>> /\ open' = open \cup {c}
    BY <1>10 DEF Connect, Kept, storeVars
  <2>2. \A d \in Conns \ {c} : pos'[d] = pos[d]
    BY <1>0, <1>10 DEF Connect
  <2>3. \A x \in Sessions : wm'[c][x] = None
    BY <1>10, <2>1 DEF ClosedFollowsNothing, Subscribed, Connect
  <2> QED BY <2>1, <2>2, <2>3, StrandedSocket
<1>11. ASSUME NEW c \in Conns, Close(c) PROVE NothingStranded'
  <2>1. ASSUME NEW d \in open', NEW x \in Sessions
        PROVE  /\ d \in open /\ wm'[d][x] = wm[d][x] /\ pos'[d] = pos[d] /\ queue'[d] = queue[d]
    <3>1. d \in Conns /\ d # c /\ d \in open
      BY <1>0, <1>11 DEF Close
    <3> QED BY <1>0, <1>11, <3>1 DEF Close, TypeOK
  <2>2. UNCHANGED <<log, lost, job, ring, deleted>>
    BY <1>11 DEF Close, storeVars
  <2> SUFFICES ASSUME NEW d \in open', NEW x \in Sessions \ deleted', wm'[d][x] # None,
                      NEW n \in (wm'[d][x] + 1)..log[x], n \notin lost[x]
               PROVE  Arriving(d, x, n)'
    BY <2>2 DEF NothingStranded, Subscribed
  <2>3. d \in open /\ x \in Sessions \ deleted /\ wm'[d][x] = wm[d][x] /\ pos'[d] = pos[d] /\ queue'[d] = queue[d]
    BY <2>1, <2>2
  <2>4. Arriving(d, x, n)
    BY <2>3 DEF NothingStranded, Subscribed
  <2> QED BY <2>2, <2>3, <2>4 DEF Arriving, Replaying
<1>12. ASSUME NEW c \in Conns, Step(c) PROVE NothingStranded'
  <2>1. PICK s \in Sessions : StepUnsubscribed(c, s) \/ StepSends(c, s) \/ StepReads(c, s)
    BY <1>12 DEF Step
  <2>2. UNCHANGED <<log, lost, job, ring, deleted, open, pos>> /\ c \in open
    BY <1>12 DEF Step, storeVars
  <2>3. CASE StepUnsubscribed(c, s)
    <3>1. Kept(c, {s}) /\ wm' = wm /\ wm[c][s] = None
      BY <2>3, PopKeeps DEF StepUnsubscribed, Front, Silent, Subscribed
    <3>2. ASSUME NEW x \in Sessions \ deleted', wm'[c][x] # None,
                 NEW n \in (wm'[c][x] + 1)..log[x], n \notin lost[x]
          PROVE  Arriving(c, x, n)'
      <4>1. x # s /\ Arriving(c, x, n)
        BY <2>2, <3>1, <3>2 DEF NothingStranded, Subscribed
      <4> QED BY <2>2, <3>1, <4>1, StillArriving, ZenonT(60)
    <3> QED BY <2>2, <3>1, <3>2, StrandedSocket
  <2>4. CASE StepSends(c, s)
    <3>1. Kept(c, {}) /\ queue' = queue /\ Front(c, s) /\ page[c].lo \in Nat
      BY <2>4, SendsKeeps DEF StepSends
    <3>2. \A d \in Conns, x \in Sessions : ~(d = c /\ x = s) => wm'[d][x] = wm[d][x]
      <4>1. CASE Send(c, s, page[c].lo)
        BY <3>1, <4>1, SendSets DEF Only
      <4>2. CASE Silent
        BY <4>2 DEF Silent
      <4> QED BY <2>4, <4>1, <4>2 DEF StepSends
    <3>3. Replaying(c, s)'
      BY <3>1 DEF Replaying, Front, Elements
    <3>4. ASSUME NEW x \in Sessions \ deleted', wm'[c][x] # None,
                 NEW n \in (wm'[c][x] + 1)..log[x], n \notin lost[x]
          PROVE  Arriving(c, x, n)'
      <4>1. CASE x = s
        BY <3>3, <4>1 DEF Arriving
      <4>2. CASE x # s
        <5>1. Arriving(c, x, n)
          BY <2>2, <3>2, <3>4, <4>2 DEF NothingStranded, Subscribed
        <5> QED BY <2>2, <3>1, <5>1, StillArriving
      <4> QED BY <4>1, <4>2
    <3> QED BY <2>2, <3>1, <3>2, <3>4, StrandedSocket
  <2>5. CASE StepReads(c, s)
    <3>1. Kept(c, {s}) /\ wm' = wm /\ (Kept(c, {}) \/ (s \notin deleted => log[s] <= wm[c][s]))
      BY <2>5, ReadsKeeps
    <3>2. ASSUME NEW x \in Sessions \ deleted', wm'[c][x] # None,
                 NEW n \in (wm'[c][x] + 1)..log[x], n \notin lost[x]
          PROVE  Arriving(c, x, n)'
      <4>1. Arriving(c, x, n)
        BY <2>2, <3>1, <3>2 DEF NothingStranded, Subscribed
      <4>2. x # s \/ Kept(c, {})
        <5>1. wm[c][x] \in Nat /\ log[x] \in Nat /\ wm'[c][x] = wm[c][x] /\ x \notin deleted
          BY <1>0, <2>2, <3>1, <3>2
        <5>2. ~(log[x] <= wm[c][x])
          BY <3>2, <5>1
        <5> QED BY <3>1, <5>1, <5>2
      <4>3. CASE x # s
        <5>1. x \notin {s} /\ x \in Sessions /\ pos'[c] = pos[c] /\ UNCHANGED <<job, ring>>
          BY <2>2, <4>3
        <5> QED BY <3>1, <4>1, <5>1, StillArriving
      <4>4. CASE Kept(c, {})
        <5>1. x \notin {} /\ x \in Sessions /\ pos'[c] = pos[c] /\ UNCHANGED <<job, ring>>
          BY <2>2
        <5> QED BY <4>1, <4>4, <5>1, StillArriving
      <4> QED BY <4>2, <4>3, <4>4
    <3> QED BY <2>2, <3>1, <3>2, StrandedSocket
  <2> QED BY <2>1, <2>3, <2>4, <2>5
<1>13. ASSUME NEW c \in Conns, Receive(c) PROVE NothingStranded'
  <2> DEFINE s == ring[pos[c]].s
             m == ring[pos[c]].seq
  <2>1. s \in Sessions /\ m \in Nat /\ Hear(c, s, m) /\ pos[c] \in 1..Len(ring)
    <3>1. pos[c] \in 1..Len(ring)
      BY <1>13, OldestType DEF Receive, TypeOK
    <3> QED BY <1>13, <3>1, RingElement DEF Receive
  <2>2. UNCHANGED <<log, lost, job, ring, deleted, open>> /\ c \in open
        /\ pos'[c] = pos[c] + 1 /\ \A d \in Conns \ {c} : pos'[d] = pos[d]
    BY <1>0, <1>13 DEF Receive, storeVars
  <2>3. \A x, n : ring[pos[c]] = [s |-> x, seq |-> n] => x = s /\ n = m
    OBVIOUS
  <2> HIDE DEF s, m
  <2>4. Kept(c, {})
    BY <2>1, HearType
  <2>5. /\ \A d \in Conns, x \in Sessions : ~(d = c /\ x = s) => wm'[d][x] = wm[d][x]
        /\ wm'[c][s] = wm[c][s] \/ (wm[c][s] # None /\ wm'[c][s] = m /\ m = wm[c][s] + 1)
    <3>1. CASE UNCHANGED <<wm, base, sent>>
      BY <3>1
    <3>2. CASE Subscribed(c, s) /\ m = wm[c][s] + 1 /\ Send(c, s, m)
      <4>1. Only(c, s, m, base[c][s], Append(sent[c][s], m))
        BY <2>1, <3>2, SendSets
      <4> QED BY <2>1, <3>2, <4>1 DEF Only, Subscribed
    <3> QED BY <2>1, <3>1, <3>2, HearSends
  <2>6. wm'[c][s] # None /\ wm'[c][s] < m => s \in Elements(queue'[c])
    <3> SUFFICES ASSUME wm'[c][s] # None, wm'[c][s] < m PROVE s \in Elements(queue'[c])
      OBVIOUS
    <3>1. wm'[c][s] = wm[c][s] /\ wm[c][s] \in Nat
      BY <1>0, <2>1, <2>5
    <3>2. Subscribed(c, s) /\ LiveDelivery(m, wm[c][s]) # "AlreadySent"
      BY <2>1, <3>1 DEF Subscribed, LiveDelivery
    <3>3. CASE Send(c, s, m)
      <4>1. Only(c, s, m, base[c][s], Append(sent[c][s], m))
        BY <2>1, <3>3, SendSets
      <4>2. wm'[c][s] = m
        BY <2>1, <4>1 DEF Only
      <4> QED BY <2>1, <4>2
    <3>4. CASE IF Replaying(c, s) THEN UNCHANGED <<queue, page>> ELSE Begin(c, s)
      <4>1. Replaying(c, s) => s \in Elements(queue'[c])
        BY <3>4 DEF Replaying
      <4>2. ~ Replaying(c, s) => s \in Elements(queue'[c])
        BY <2>1, <3>4, BeginKeeps
      <4> QED BY <4>1, <4>2
    <3> QED BY <2>1, <3>2, <3>3, <3>4 DEF Hear
  <2>7. ASSUME NEW x \in Sessions \ deleted', wm'[c][x] # None,
               NEW n \in (wm'[c][x] + 1)..log[x], n \notin lost[x]
        PROVE  Arriving(c, x, n)'
    <3>1. wm[c][x] \in Nat /\ wm'[c][x] \in Nat /\ wm[c][x] <= wm'[c][x] /\ log[x] \in Nat
      <4>1. wm[c][x] \in Nat \cup {None} /\ log[x] \in Nat
        BY <1>0
      <4>2. CASE x # s
        BY <2>5, <2>7, <4>1, <4>2
      <4>3. CASE x = s
        <5>1. CASE wm'[c][s] = wm[c][s]
          BY <2>7, <4>1, <4>3, <5>1
        <5>2. CASE wm[c][s] # None /\ wm'[c][s] = m /\ m = wm[c][s] + 1
          <6>1. wm[c][x] \in Nat
            BY <4>1, <4>3, <5>2
          <6> QED BY <2>1, <4>1, <4>3, <5>2, <6>1, SMTT(40)
        <5> QED BY <2>5, <5>1, <5>2
      <4> QED BY <4>2, <4>3
    <3>2. n \in (wm[c][x] + 1)..log[x] /\ n > wm'[c][x]
      BY <2>7, <3>1
    <3>3. Arriving(c, x, n)
      <4>1. Subscribed(c, x) /\ x \in Sessions \ deleted
        BY <2>2, <3>1 DEF Subscribed, None
      <4> QED BY <2>2, <2>7, <3>2, <4>1 DEF NothingStranded
    <3>4. CASE ring[pos[c]] = [s |-> x, seq |-> n]
      <4>1. x = s /\ n = m
        BY <2>3, <3>4
      <4>2. x \in Elements(queue'[c])
        BY <2>1, <2>6, <2>7, <3>1, <3>2, <4>1
      <4> QED BY <4>2 DEF Arriving, Replaying
    <3>5. CASE ring[pos[c]] # [s |-> x, seq |-> n]
      <4>1. CASE Replaying(c, x)
        BY <2>4, <4>1 DEF Arriving, Replaying, Kept
      <4>2. ASSUME NEW i \in pos[c]..Len(ring), ring[i] = [s |-> x, seq |-> n] PROVE Arriving(c, x, n)'
        <5>1. i \in pos'[c]..Len(ring')
          BY <1>0, <2>1, <2>2, <3>5, <4>2
        <5> QED BY <2>2, <4>2, <5>1 DEF Arriving
      <4>3. ASSUME NEW p \in Publishers, job[p].at = "committed", job[p].s = x, n \in job[p].lo..job[p].hi
            PROVE  Arriving(c, x, n)'
        BY <2>2, <4>3 DEF Arriving
      <4> QED BY <3>3, <4>1, <4>2, <4>3 DEF Arriving
    <3> QED BY <3>4, <3>5
  <2> QED BY <2>2, <2>4, <2>5, <2>7, StrandedSocket
<1>14. ASSUME NEW c \in Conns, Lagged(c) PROVE NothingStranded'
  <2>1. /\ Kept(c, {}) /\ UNCHANGED <<wm, log, lost, job, ring, deleted, open>>
        /\ \A x \in Sessions : Subscribed(c, x) => x \in Elements(queue'[c])
    BY <1>14, BeginAllKeeps DEF Lagged, Silent, storeVars
  <2>2. \A d \in Conns \ {c} : pos'[d] = pos[d]
    BY <1>0, <1>14 DEF Lagged
  <2>3. ASSUME NEW x \in Sessions, wm'[c][x] # None, NEW n PROVE Arriving(c, x, n)'
    BY <2>1, <2>3 DEF Arriving, Replaying, Subscribed
  <2> QED BY <2>1, <2>2, <2>3, StrandedSocket
<1>15. ASSUME NEW c \in Conns, NEW s \in Sessions, NEW k \in Nat \cup {None}, NEW drop, Kept(c, drop),
              drop \subseteq {s}, SetWatermark(c, s, k), UNCHANGED <<log, lost, job, ring, open, pos>>,
              deleted \subseteq deleted', c \in open,
              k = None \/ s \in Elements(queue'[c])
       PROVE  NothingStranded'
  <2>1. \A d \in Conns, x \in Sessions : wm'[d][x] = IF d = c /\ x = s THEN k ELSE wm[d][x]
    <3>1. Only(c, s, k, IF k = None THEN 0 ELSE k, <<>>)
      BY <1>15, WatermarkSet
    <3> QED BY <3>1 DEF Only
  <2>2. ASSUME NEW x \in Sessions \ deleted', wm'[c][x] # None,
               NEW n \in (wm'[c][x] + 1)..log[x], n \notin lost[x]
        PROVE  Arriving(c, x, n)'
    <3>1. CASE x = s
      BY <1>15, <2>1, <2>2, <3>1 DEF Arriving, Replaying
    <3>2. CASE x # s
      <4>1. wm'[c][x] = wm[c][x] /\ x \in Sessions \ deleted
        BY <1>15, <2>1, <3>2
      <4>2. Arriving(c, x, n)
        BY <1>15, <2>2, <4>1 DEF NothingStranded, Subscribed
      <4> QED BY <1>15, <3>2, <4>2, StillArriving
    <3> QED BY <3>1, <3>2
  <2>3. \A d \in Conns \ {c} : pos'[d] = pos[d] /\ \A x \in Sessions : wm'[d][x] = wm[d][x]
    BY <1>15, <2>1
  <2> QED BY <1>15, <2>2, <2>3, StrandedSocket
<1>16. ASSUME NEW c \in Conns, NEW s \in Sessions, NEW k \in 0..MaxSeq, Subscribe(c, s, k)
       PROVE  NothingStranded'
  <2>1. k \in Nat \cup {None} /\ SetWatermark(c, s, k) /\ Begin(c, s) /\ c \in open
        /\ UNCHANGED <<log, lost, job, ring, open, pos, deleted>>
    BY <1>16 DEF Subscribe, storeVars
  <2>2. Kept(c, {}) /\ s \in Elements(queue'[c])
    BY <2>1, BeginKeeps
  <2> QED BY <1>15, <2>1, <2>2
<1>17. ASSUME NEW c \in Conns, NEW s \in Sessions, Unsubscribe(c, s) PROVE NothingStranded'
  <2>1. SetWatermark(c, s, None) /\ Kept(c, {}) /\ c \in open
        /\ UNCHANGED <<log, lost, job, ring, open, pos, deleted>>
    BY <1>17 DEF Unsubscribe, Kept, storeVars
  <2> QED BY <1>15, <2>1
<1>18. ASSUME NEW c \in Conns, NEW s \in Sessions, DeleteSession(c, s) PROVE NothingStranded'
  <2>1. SetWatermark(c, s, None) /\ DropSession(c, s) /\ c \in open /\ deleted \subseteq deleted'
        /\ UNCHANGED <<log, lost, job, ring, open, pos>>
    BY <1>18 DEF DeleteSession
  <2>2. Kept(c, {s})
    BY <2>1, DropKeeps
  <2> QED BY <1>15, <2>1, <2>2
<1>19. CASE Crash
  BY <1>19 DEF Crash, NothingStranded
<1> QED BY <1>2, <1>3, <1>4, <1>5, <1>6, <1>7, <1>8, <1>9, <1>10, <1>11, <1>12, <1>13, <1>14,
           <1>16, <1>17, <1>18, <1>19 DEF Next

LEMMA ClosedStep ==
  TypeOK /\ ClosedFollowsNothing /\ [Next]_vars => ClosedFollowsNothing'
<1> SUFFICES ASSUME TypeOK, ClosedFollowsNothing, [Next]_vars PROVE ClosedFollowsNothing'
  OBVIOUS
<1>0. wm \in [Conns -> [Sessions -> Nat \cup {None}]] /\ open \subseteq Conns
  BY DEF TypeOK
\* A step of an open socket changes only that socket's watermarks.
<1>1. ASSUME NEW c \in Conns, c \in open, UNCHANGED open,
             \A d \in Conns \ {c} : \A x \in Sessions : wm'[d][x] = wm[d][x]
      PROVE  ClosedFollowsNothing'
  BY <1>1 DEF ClosedFollowsNothing, Subscribed
<1>2. ASSUME UNCHANGED wm, open \subseteq open' PROVE ClosedFollowsNothing'
  BY <1>2 DEF ClosedFollowsNothing, Subscribed
<1>3. CASE UNCHANGED vars
  BY <1>2, <1>3 DEF vars
<1>4. CASE \/ \E p \in Publishers, s \in Sessions : Ingest(p, s)
           \/ \E p \in Publishers : \E n \in BatchOf(p) : Commit(p, n)
           \/ \E p \in Publishers : Refused(p) \/ Publish(p) \/ Abort(p)
           \/ \E s \in Sessions : OrphanCommits(s) \/ Prune(s)
           \/ \E c \in Conns : Connect(c) \/ Lagged(c)
  BY <1>2, <1>4 DEF Ingest, Commit, Refused, Publish, Abort, OrphanCommits, Prune, Connect, Lagged,
                    Silent, phoneVars
<1>5. ASSUME NEW c \in Conns, Close(c) PROVE ClosedFollowsNothing'
  <2> SUFFICES ASSUME NEW d \in Conns \ open', NEW x \in Sessions PROVE wm'[d][x] = None
    BY DEF ClosedFollowsNothing, Subscribed
  <2>1. wm' = [wm EXCEPT ![c] = [s \in Sessions |-> None]] /\ open' = open \ {c}
    BY <1>5 DEF Close
  <2>2. CASE d = c
    BY <1>0, <2>1, <2>2
  <2>3. CASE d # c
    BY <1>0, <2>1, <2>3 DEF ClosedFollowsNothing, Subscribed
  <2> QED BY <2>2, <2>3
<1>6. ASSUME NEW c \in Conns, NEW s \in Sessions, NEW m,
             wm' = wm \/ wm' = [wm EXCEPT ![c][s] = m], c \in open, UNCHANGED open
      PROVE  ClosedFollowsNothing'
  BY <1>0, <1>1, <1>6
<1>7. ASSUME NEW c \in Conns, Step(c) PROVE ClosedFollowsNothing'
  <2>1. PICK s \in Sessions : StepUnsubscribed(c, s) \/ StepSends(c, s) \/ StepReads(c, s)
    BY <1>7 DEF Step
  <2>2. wm' = wm \/ wm' = [wm EXCEPT ![c][s] = page[c].lo]
    BY <2>1 DEF StepUnsubscribed, StepSends, StepReads, Silent, Send
  <2> QED BY <1>6, <1>7, <2>2 DEF Step
<1>8. ASSUME NEW c \in Conns, Receive(c) PROVE ClosedFollowsNothing'
  <2> DEFINE s == ring[pos[c]].s
  <2>1. s \in Sessions /\ Hear(c, s, ring[pos[c]].seq)
    <3>1. pos[c] \in 1..Len(ring)
      BY <1>8, OldestType DEF Receive, TypeOK
    <3> QED BY <1>8, <3>1, RingElement DEF Receive
  <2>2. wm' = wm \/ wm' = [wm EXCEPT ![c][s] = ring[pos[c]].seq]
    BY <2>1 DEF Hear, Silent, Send
  <2>3. c \in open /\ UNCHANGED open
    BY <1>8 DEF Receive
  <2> HIDE DEF s
  <2> QED BY <1>6, <2>1, <2>2, <2>3
<1>9. ASSUME NEW c \in Conns, NEW s \in Sessions, NEW k \in 0..MaxSeq, Subscribe(c, s, k)
      PROVE  ClosedFollowsNothing'
  BY <1>6, <1>9 DEF Subscribe, SetWatermark
<1>10. ASSUME NEW c \in Conns, NEW s \in Sessions, Unsubscribe(c, s) \/ DeleteSession(c, s)
       PROVE  ClosedFollowsNothing'
  BY <1>6, <1>10 DEF Unsubscribe, DeleteSession, SetWatermark
<1>11. CASE Crash
  BY <1>11 DEF Crash, ClosedFollowsNothing, Subscribed
<1> QED BY <1>3, <1>4, <1>5, <1>7, <1>8, <1>9, <1>10, <1>11 DEF Next

\* What a socket has not been sent is always on its way to it, however commits,
\* broadcasts, lag, replay pages and subscriptions interleave (Backlog and the
\* broadcast arm of ws_server.rs): the only events that can be left behind are
\* the ones whose publisher was aborted before it broadcast them.
THEOREM NothingStrandedHolds == Spec => []NothingStranded
<1> DEFINE Inv == TypeOK /\ InSeqOrder /\ ClosedFollowsNothing /\ NothingStranded
<1>1. Init => ClosedFollowsNothing /\ NothingStranded
  BY DEF Init, ClosedFollowsNothing, NothingStranded, Subscribed
<1>2. TypeOK /\ ClosedFollowsNothing /\ [Next]_vars => ClosedFollowsNothing'
  BY ClosedStep
<1>3. TypeOK /\ TypeOK' /\ InSeqOrder /\ ClosedFollowsNothing /\ NothingStranded /\ [Next]_vars
        => NothingStranded'
  BY StrandedStep
<1> QED BY <1>1, <1>2, <1>3, SeqOrderHolds, PTL DEF Spec

LEMMA NoStrandNoFalseGap ==
  ASSUME TypeOK, InSeqOrder, NothingStranded
  PROVE  GapIsReal
<1> SUFFICES ASSUME NEW c \in open, pos[c] \in Oldest..Len(ring),
                    ring[pos[c]].s \notin deleted, Subscribed(c, ring[pos[c]].s),
                    ~ Replaying(c, ring[pos[c]].s),
                    LiveDelivery(ring[pos[c]].seq, wm[c][ring[pos[c]].s]) = "Gap"
             PROVE  wm[c][ring[pos[c]].s] + 1 \in lost[ring[pos[c]].s]
  BY DEF GapIsReal
<1> DEFINE s == ring[pos[c]].s
           m == ring[pos[c]].seq
           n == wm[c][s] + 1
<1>1. c \in Conns /\ pos[c] \in Nat \ {0} /\ Len(ring) \in Nat /\ pos[c] \in 1..Len(ring)
  <2>1. c \in Conns /\ pos \in [Conns -> Nat \ {0}] /\ ring \in Seq([s : Sessions, seq : Nat])
    BY DEF TypeOK
  <2>2. pos[c] \in Nat \ {0} /\ Len(ring) \in Nat
    BY <2>1
  <2> QED BY <2>1, <2>2, OldestType
<1>2. s \in Sessions /\ m \in Nat
  BY <1>1, RingElement
<1>3. wm[c][s] \in Nat /\ log[s] \in Nat
  <2>1. wm \in [Conns -> [Sessions -> Nat \cup {None}]] /\ log \in [Sessions -> Nat]
    BY DEF TypeOK
  <2>2. wm[c][s] \in Nat \cup {None} /\ log[s] \in Nat
    BY <1>1, <1>2, <2>1
  <2> QED BY <2>2 DEF Subscribed
<1>4. n < m /\ m <= log[s] /\ s \in Sessions \ deleted /\ Subscribed(c, s) /\ ~ Replaying(c, s)
  <2>1. m <= log[s]
    BY <1>1 DEF InSeqOrder
  <2>2. n < m
    <3>1. LiveDelivery(m, wm[c][s]) = "Gap"
      OBVIOUS
    <3> HIDE DEF s, m
    <3> QED BY <1>2, <1>3, <3>1 DEF LiveDelivery
  <2> QED BY <1>2, <2>1, <2>2
<1>5. \A i \in pos[c]..Len(ring) : ring[i].s = s => ring[i].seq >= m
  <2> SUFFICES ASSUME NEW i \in pos[c]..Len(ring), ring[i].s = s PROVE ring[i].seq >= m
    OBVIOUS
  <2>1. CASE i = pos[c]
    BY <1>2, <2>1
  <2>2. CASE i # pos[c]
    <3>1. i \in 1..Len(ring) /\ pos[c] < i
      BY <1>1, <2>2
    <3>2. m < ring[i].seq
      BY <1>1, <3>1 DEF InSeqOrder
    <3>3. ring[i].seq \in Nat
      BY <3>1, RingElement
    <3> QED BY <1>2, <3>2, <3>3
  <2> QED BY <2>1, <2>2
<1>6. \A p \in Publishers : job[p].at = "committed" /\ job[p].s = s => m < job[p].lo
  BY <1>1 DEF InSeqOrder
<1> HIDE DEF s, m
<1>7. n \in (wm[c][s] + 1)..log[s]
  BY <1>2, <1>3, <1>4
<1>8. n \in lost[s] \/ Arriving(c, s, n)
  BY <1>4, <1>7 DEF NothingStranded
<1>9. ~ Arriving(c, s, n)
  <2>1. ASSUME NEW i \in pos[c]..Len(ring), ring[i] = [s |-> s, seq |-> n] PROVE FALSE
    <3>1. ring[i].s = s /\ ring[i].seq = n
      BY <2>1
    <3> QED BY <1>2, <1>3, <1>4, <1>5, <3>1
  <2>2. ASSUME NEW p \in Publishers, job[p].at = "committed", job[p].s = s, n \in job[p].lo..job[p].hi
        PROVE  FALSE
    <3>1. job[p].lo \in Nat /\ job[p].hi \in Nat
      BY <2>2, PublisherType
    <3> QED BY <1>2, <1>3, <1>4, <1>6, <2>2, <3>1
  <2> QED BY <1>4, <2>1, <2>2 DEF Arriving
<1> QED BY <1>8, <1>9 DEF s

\* A gap marker (gap_marker, ws_server.rs) never lies: when the broadcast arm
\* meets an event above the one it expects, with no replay pending, the expected
\* one is in the store and will never be broadcast.
THEOREM GapIsRealHolds == Spec => []GapIsReal
<1>1. TypeOK /\ InSeqOrder /\ NothingStranded => GapIsReal
  BY NoStrandNoFalseGap
<1> QED BY <1>1, SeqOrderHolds, NothingStrandedHolds, PTL

-----------------------------------------------------------------------------
(* The refinement of the followed log.                                     *)

\* A buffered page holds events of the store.
PageStored ==
  \A c \in Conns, s \in Sessions : Front(c, s) /\ ~ IsEmpty(page[c]) => page[c].hi <= log[s]

\* The rows a log has are never taken from it.
LEMMA LogGrows ==
  ASSUME TypeOK, TypeOK', [Next]_vars, NEW s \in Sessions
  PROVE  /\ log[s] \in Nat /\ log'[s] \in Nat /\ log[s] <= log'[s]
<1>1. log[s] \in Nat /\ log'[s] \in Nat
  BY DEF TypeOK
<1>2. ASSUME NEW p \in Publishers, NEW n \in BatchOf(p), Commit(p, n) PROVE log[s] <= log'[s]
  <2>1. n \in Nat
    BY <1>2, BoundsAssumption DEF BatchOf
  <2>2. log' = [log EXCEPT ![job[p].s] = @ + n]
    BY <1>2 DEF Commit
  <2> QED BY <1>1, <2>1, <2>2 DEF TypeOK
<1>3. ASSUME NEW x \in Sessions, OrphanCommits(x) PROVE log[s] <= log'[s]
  <2>1. log' = log \/ log' = [log EXCEPT ![x] = @ + 1]
    BY <1>3 DEF OrphanCommits
  <2>2. ASSUME log' = [log EXCEPT ![x] = @ + 1] PROVE log'[s] = IF s = x THEN log[s] + 1 ELSE log[s]
    BY <2>2 DEF TypeOK
  <2> QED BY <1>1, <2>1, <2>2
<1>4. CASE UNCHANGED log
  BY <1>1, <1>4
<1>5. \/ \E p \in Publishers : \E n \in BatchOf(p) : Commit(p, n)
      \/ \E x \in Sessions : OrphanCommits(x)
      \/ UNCHANGED log
  BY DEF Next, vars, storeVars, Ingest, Refused, Publish, Abort, Prune, Connect, Close, Step, Receive, Lagged,
         Subscribe, Unsubscribe, DeleteSession, Crash
<1> QED BY <1>1, <1>2, <1>3, <1>4, <1>5

\* The page of one socket only is new, and it was read from the log or was there before.
LEMMA PageStoredFrom ==
  ASSUME TypeOK, TypeOK', PageStored, [Next]_vars, NEW c \in Conns,
         \A d \in Conns \ {c} : queue'[d] = queue[d] /\ page'[d] = page[d],
         \A x \in Sessions : Front(c, x)' /\ ~ IsEmpty(page'[c]) =>
           \/ Front(c, x) /\ ~ IsEmpty(page[c]) /\ page'[c].hi = page[c].hi
           \/ page'[c].hi <= log[x]
  PROVE  PageStored'
<1> SUFFICES ASSUME NEW d \in Conns, NEW x \in Sessions, Front(d, x)', ~ IsEmpty(page'[d])
             PROVE  page'[d].hi <= log'[x]
  BY DEF PageStored
<1>1. page'[d].hi <= log[x]
  <2>1. CASE d = c
    BY <2>1 DEF PageStored
  <2>2. CASE d # c
    BY <2>2 DEF PageStored, Front
  <2> QED BY <2>1, <2>2
<1>2. page'[d].hi \in Nat
  BY DEF TypeOK
<1> QED BY <1>1, <1>2, LogGrows

LEMMA PageStoredStep ==
  ASSUME TypeOK, TypeOK', PageStored, [Next]_vars
  PROVE  PageStored'
<1> USE SocketType
<1>1. CASE UNCHANGED <<queue, page>>
  <2> SUFFICES ASSUME NEW d \in Conns, NEW x \in Sessions, Front(d, x)', ~ IsEmpty(page'[d])
               PROVE  page'[d].hi <= log'[x]
    BY DEF PageStored
  <2>1. page'[d].hi \in Nat /\ page'[d].hi <= log[x]
    BY <1>1 DEF PageStored, Front, TypeOK
  <2> QED BY <2>1, LogGrows
<1>2. ASSUME NEW c \in Conns, NEW drop, Kept(c, drop), NEW gone, SamePage(c, gone) PROVE PageStored'
  <2>1. \A x \in Sessions : Front(c, x)' /\ ~ IsEmpty(page'[c]) =>
          Front(c, x) /\ ~ IsEmpty(page[c]) /\ page'[c].hi = page[c].hi
    BY <1>2 DEF SamePage, Front
  <2> QED BY <1>2, <2>1, PageStoredFrom DEF Kept
<1>3. ASSUME NEW c \in Conns, Close(c) PROVE PageStored'
  <2>1. IsEmpty(page'[c]) /\ \A d \in Conns \ {c} : queue'[d] = queue[d] /\ page'[d] = page[d]
    BY <1>3 DEF Close, NoPage, IsEmpty, TypeOK
  <2> QED BY <2>1, PageStoredFrom
<1>4. ASSUME NEW c \in Conns, Step(c) PROVE PageStored'
  <2>1. PICK s \in Sessions : StepUnsubscribed(c, s) \/ StepSends(c, s) \/ StepReads(c, s)
    BY <1>4 DEF Step
  <2>2. CASE StepUnsubscribed(c, s)
    <3>1. Kept(c, {s}) /\ IsEmpty(page'[c])
      BY <2>2, PopKeeps DEF StepUnsubscribed, Front
    <3> QED BY <3>1, PageStoredFrom DEF Kept
  <2>3. CASE StepSends(c, s)
    <3>1. Kept(c, {}) /\ queue' = queue /\ ~ IsEmpty(page[c])
      BY <2>3, SendsKeeps DEF StepSends
    <3>2. page'[c] = Popped(page[c])
      BY <2>3 DEF StepSends
    <3>3. ~ IsEmpty(page'[c]) => page'[c].hi = page[c].hi
      BY <3>2 DEF Popped, NoPage, IsEmpty
    <3> QED BY <3>1, <3>3, PageStoredFrom DEF Kept, Front
  <2>4. CASE StepReads(c, s)
    <3>1. Kept(c, {s}) /\ (queue' # queue => IsEmpty(page'[c]))
      BY <2>4, ReadsKeeps
    <3>2. wm[c][s] \in Nat /\ Front(c, s)
      BY <2>4 DEF StepReads, Subscribed, TypeOK
    <3>3. ~ IsEmpty(page'[c]) => queue' = queue /\ page'[c] = EventsAfter(s, wm[c][s])
      BY <2>4, <3>1 DEF StepReads
    <3>4. \A x \in Sessions : Front(c, x)' /\ ~ IsEmpty(page'[c]) => page'[c].hi <= log[x]
      BY <3>2, <3>3, PageRead DEF Front
    <3> QED BY <3>1, <3>4, PageStoredFrom DEF Kept
  <2> QED BY <2>1, <2>2, <2>3, <2>4
<1>5. ASSUME NEW c \in Conns, Receive(c) PROVE PageStored'
  <2>1. PICK s \in Sessions, n \in Nat : Hear(c, s, n)
    <3>1. pos[c] \in 1..Len(ring)
      BY <1>5, OldestType DEF Receive, TypeOK
    <3> QED BY <1>5, <3>1, RingElement DEF Receive
  <2> QED BY <1>2, <2>1, HearType
<1>6. ASSUME NEW c \in Conns, Lagged(c) PROVE PageStored'
  BY <1>2, <1>6, BeginAllKeeps DEF Lagged
<1>7. ASSUME NEW c \in Conns, NEW s \in Sessions, \E n \in 0..MaxSeq : Subscribe(c, s, n) PROVE PageStored'
  BY <1>2, <1>7, BeginKeeps DEF Subscribe
<1>8. ASSUME NEW c \in Conns, NEW s \in Sessions, DeleteSession(c, s) PROVE PageStored'
  BY <1>2, <1>8, DropKeeps DEF DeleteSession
<1>9. CASE Crash
  BY <1>9 DEF Crash, PageStored, Front
<1>10. CASE UNCHANGED vars
  BY <1>1, <1>10 DEF vars
<1>11. CASE \/ \E p \in Publishers, s \in Sessions : Ingest(p, s)
            \/ \E p \in Publishers : \E n \in BatchOf(p) : Commit(p, n)
            \/ \E p \in Publishers : Refused(p) \/ Publish(p) \/ Abort(p)
            \/ \E s \in Sessions : OrphanCommits(s) \/ Prune(s)
            \/ \E c \in Conns : Connect(c)
            \/ \E c \in Conns, s \in Sessions : Unsubscribe(c, s)
  BY <1>1, <1>11 DEF Ingest, Commit, Refused, Publish, Abort, OrphanCommits, Prune, Connect, Unsubscribe, phoneVars
<1> QED BY <1>3, <1>4, <1>5, <1>6, <1>7, <1>8, <1>9, <1>10, <1>11 DEF Next

\* A watermark that moves by one, to an event of the log.
LEMMA RefineSend ==
  ASSUME TypeOK, NEW c \in Conns, NEW s \in Sessions, Subscribed(c, s), Send(c, s, wm[c][s] + 1),
         wm[c][s] + 1 <= log[s], UNCHANGED <<log, deleted>>
  PROVE  Abstract!Deliver(c, s)
<1>1. wm[c][s] \in Nat /\ log[s] \in Nat
  BY DEF TypeOK, Subscribed
<1>2. wm' = [wm EXCEPT ![c][s] = @ + 1]
  BY DEF Send
<1>3. wm[c][s] < log[s]
  BY <1>1
<1> QED BY <1>2, <1>3 DEF Abstract!Deliver, Subscribed, Abstract!None, None

\* Some subscriptions end.
LEMMA RefineStop ==
  ASSUME TypeOK, TypeOK', NEW F \in SUBSET (Conns \X Sessions), log' = log,
         \A c \in Conns, s \in Sessions : wm'[c][s] = IF <<c, s>> \in F THEN None ELSE wm[c][s],
         deleted' = deleted \/ \E s \in Sessions : deleted' = deleted \cup {s}
  PROVE  Abstract!Next
<1>1. wm' = [c \in Conns |-> [s \in Sessions |-> IF <<c, s>> \in F THEN Abstract!None ELSE wm[c][s]]]
  <2> DEFINE g == [c \in Conns |-> [s \in Sessions |-> IF <<c, s>> \in F THEN Abstract!None ELSE wm[c][s]]]
  <2>1. wm' \in [Conns -> [Sessions -> Nat \cup {None}]]
    BY DEF TypeOK
  <2>2. \A c \in Conns : wm'[c] = g[c]
    BY <2>1 DEF Abstract!None, None
  <2> QED BY <2>1, <2>2
<1>2. Abstract!Stop(F)
  BY <1>1 DEF Abstract!Stop
<1> QED BY <1>2 DEF Abstract!Next

LEMMA RefineSet ==
  ASSUME TypeOK, TypeOK', NEW c \in Conns, NEW s \in Sessions, SetWatermark(c, s, None), log' = log,
         deleted' = deleted \/ deleted' = deleted \cup {s}
  PROVE  Abstract!Next
<1>1. Only(c, s, None, 0, <<>>)
  BY WatermarkSet
<1>2. {<<c, s>>} \in SUBSET (Conns \X Sessions)
  OBVIOUS
<1>3. \A d \in Conns, x \in Sessions : wm'[d][x] = IF <<d, x>> \in {<<c, s>>} THEN None ELSE wm[d][x]
  BY <1>1 DEF Only
<1> QED BY <1>2, <1>3, RefineStop

LEMMA RefineStep ==
  ASSUME TypeOK, TypeOK', PageFits, PageStored, InSeqOrder, [Next]_vars
  PROVE  Abstract!Next \/ UNCHANGED Abstract!vars
<1> USE SocketType
<1>1. CASE UNCHANGED <<log, deleted, wm>>
  BY <1>1 DEF Abstract!vars
<1>2. ASSUME NEW p \in Publishers, NEW n \in BatchOf(p), Commit(p, n) PROVE Abstract!Next
  <2> DEFINE s == job[p].s
  <2>1. s \in Sessions /\ s \notin deleted /\ log[s] \in Nat /\ n \in Nat \ {0}
    BY <1>2, PublisherType, BoundsAssumption DEF Commit, BatchOf
  <2>2. log' = [log EXCEPT ![s] = @ + n] /\ UNCHANGED <<deleted, wm>>
    BY <1>2 DEF Commit, phoneVars
  <2> HIDE DEF s
  <2>3. log'[s] = log[s] + n /\ log' = [log EXCEPT ![s] = log'[s]]
    BY <2>1, <2>2 DEF TypeOK
  <2>4. Abstract!Grow(s)
    BY <2>1, <2>2, <2>3 DEF Abstract!Grow
  <2> QED BY <2>1, <2>4 DEF Abstract!Next
<1>3. ASSUME NEW s \in Sessions, OrphanCommits(s) PROVE Abstract!Next \/ UNCHANGED Abstract!vars
  <2>1. UNCHANGED <<deleted, wm>>
    BY <1>3 DEF OrphanCommits, phoneVars
  <2>2. CASE log' = log
    BY <1>1, <2>1, <2>2
  <2>3. CASE log' # log
    <3>1. s \notin deleted /\ log' = [log EXCEPT ![s] = @ + 1]
      BY <1>3, <2>3 DEF OrphanCommits
    <3>2. log[s] \in Nat /\ log'[s] = log[s] + 1 /\ log' = [log EXCEPT ![s] = log'[s]]
      BY <3>1 DEF TypeOK
    <3>3. Abstract!Grow(s)
      BY <2>1, <3>1, <3>2 DEF Abstract!Grow
    <3> QED BY <3>3 DEF Abstract!Next
  <2> QED BY <2>2, <2>3
<1>4. ASSUME NEW s \in Sessions, Prune(s) PROVE Abstract!Next
  <2>1. log' = log /\ wm' = wm /\ deleted' = deleted \cup {s}
    BY <1>4 DEF Prune, phoneVars
  <2>2. {} \in SUBSET (Conns \X Sessions)
    OBVIOUS
  <2> QED BY <2>1, <2>2, RefineStop
<1>5. ASSUME NEW c \in Conns, Close(c) PROVE Abstract!Next
  <2>1. UNCHANGED <<log, deleted>> /\ wm' = [wm EXCEPT ![c] = [s \in Sessions |-> None]]
    BY <1>5 DEF Close, storeVars
  <2> DEFINE F == {c} \X Sessions
  <2>2. F \in SUBSET (Conns \X Sessions)
    OBVIOUS
  <2>3. \A d \in Conns, x \in Sessions : wm'[d][x] = IF <<d, x>> \in F THEN None ELSE wm[d][x]
    BY <2>1 DEF TypeOK
  <2> HIDE DEF F
  <2> QED BY <2>1, <2>2, <2>3, RefineStop
<1>6. ASSUME NEW c \in Conns, Step(c) PROVE Abstract!Next \/ UNCHANGED Abstract!vars
  <2>1. PICK s \in Sessions : StepUnsubscribed(c, s) \/ StepSends(c, s) \/ StepReads(c, s)
    BY <1>6 DEF Step
  <2>2. UNCHANGED <<log, deleted>>
    BY <1>6 DEF Step, storeVars
  <2>3. CASE UNCHANGED wm
    BY <1>1, <2>2, <2>3
  <2>4. CASE ~ UNCHANGED wm
    <3>1. StepSends(c, s) /\ page[c].lo > wm[c][s] /\ Send(c, s, page[c].lo)
      BY <2>1, <2>4 DEF StepUnsubscribed, StepReads, StepSends, Silent
    <3>2. Front(c, s) /\ Subscribed(c, s) /\ ~ IsEmpty(page[c])
      BY <3>1 DEF StepSends
    <3>3. wm[c][s] \in Nat /\ page[c].lo \in Nat /\ page[c].hi \in Nat /\ log[s] \in Nat
      <4>1. wm[c][s] \in Nat
        BY <3>2 DEF Subscribed, TypeOK
      <4>2. log[s] \in Nat
        BY DEF TypeOK
      <4> QED BY <4>1, <4>2
    <3>4. page[c].lo <= wm[c][s] + 1 /\ page[c].hi <= log[s]
      BY <3>2 DEF PageFits, PageStored
    <3>5. page[c].lo = wm[c][s] + 1 /\ wm[c][s] + 1 <= log[s]
      BY <3>1, <3>2, <3>3, <3>4 DEF IsEmpty
    <3>6. Abstract!Deliver(c, s)
      BY <2>2, <3>1, <3>2, <3>5, RefineSend
    <3> QED BY <3>6 DEF Abstract!Next
  <2> QED BY <2>3, <2>4
<1>7. ASSUME NEW c \in Conns, Receive(c) PROVE Abstract!Next \/ UNCHANGED Abstract!vars
  <2> DEFINE s == ring[pos[c]].s
             n == ring[pos[c]].seq
  <2>1. s \in Sessions /\ n \in Nat /\ Hear(c, s, n) /\ n <= log[s]
    <3>1. pos[c] \in 1..Len(ring)
      BY <1>7, OldestType DEF Receive, TypeOK
    <3> QED BY <1>7, <3>1, RingElement DEF Receive, InSeqOrder
  <2>2. UNCHANGED <<log, deleted>>
    BY <1>7 DEF Receive, storeVars
  <2> HIDE DEF s, n
  <2>3. CASE UNCHANGED wm
    BY <1>1, <2>2, <2>3
  <2>4. CASE ~ UNCHANGED wm
    <3>1. Subscribed(c, s) /\ n = wm[c][s] + 1 /\ Send(c, s, n)
      BY <2>1, <2>4, HearSends
    <3>2. Abstract!Deliver(c, s)
      BY <2>1, <2>2, <3>1, RefineSend
    <3> QED BY <2>1, <3>2 DEF Abstract!Next
  <2> QED BY <2>3, <2>4
<1>8. ASSUME NEW c \in Conns, NEW s \in Sessions, NEW n \in 0..MaxSeq, Subscribe(c, s, n) PROVE Abstract!Next
  <2>1. s \notin deleted /\ wm' = [wm EXCEPT ![c][s] = n] /\ UNCHANGED <<log, deleted>> /\ n \in Nat
    BY <1>8, BoundsAssumption DEF Subscribe, SetWatermark, storeVars
  <2>2. wm'[c][s] = n
    BY <2>1 DEF TypeOK
  <2>3. Abstract!Follow(c, s)
    BY <2>1, <2>2 DEF Abstract!Follow
  <2> QED BY <2>3 DEF Abstract!Next
<1>9. ASSUME NEW c \in Conns, NEW s \in Sessions, Unsubscribe(c, s) PROVE Abstract!Next
  BY <1>9, RefineSet DEF Unsubscribe, storeVars
<1>10. ASSUME NEW c \in Conns, NEW s \in Sessions, DeleteSession(c, s) PROVE Abstract!Next
  BY <1>10, RefineSet DEF DeleteSession
<1>11. ASSUME Crash PROVE Abstract!Next
  <2> DEFINE F == Conns \X Sessions
  <2>1. UNCHANGED <<log, deleted>> /\ F \in SUBSET (Conns \X Sessions)
    BY <1>11 DEF Crash
  <2>2. \A d \in Conns, x \in Sessions : wm'[d][x] = IF <<d, x>> \in F THEN None ELSE wm[d][x]
    BY <1>11 DEF Crash
  <2> HIDE DEF F
  <2> QED BY <2>1, <2>2, RefineStop
<1>12. CASE UNCHANGED vars
  BY <1>1, <1>12 DEF vars
<1>13. CASE \/ \E p \in Publishers, s \in Sessions : Ingest(p, s)
            \/ \E p \in Publishers : Refused(p) \/ Publish(p) \/ Abort(p)
            \/ \E c \in Conns : Connect(c) \/ Lagged(c)
  BY <1>1, <1>13 DEF Ingest, Refused, Publish, Abort, Connect, Lagged, Silent, phoneVars, storeVars
<1> QED BY <1>2, <1>3, <1>4, <1>5, <1>6, <1>7, <1>8, <1>9, <1>10, <1>11, <1>12, <1>13 DEF Next

\* The event stream implements the followed log (the head comment of ws_server.rs and the publish
\* gate of state.rs): over any publishers, aborted calls, rings and pages, and any number of
\* crashes, a phone is sent the next event of a session, and none that is not in the store.
THEOREM Refinement == Spec => RefinesFollowedLog
<1>1. Init => Abstract!Init /\ PageFits /\ PageStored
  BY DEF Init, Abstract!Init, PageFits, PageStored, Front, None, Abstract!None
<1>2. TypeOK /\ TypeOK' /\ PageFits /\ InOrder /\ [Next]_vars => PageFits'
  BY OrderStep
<1>3. TypeOK /\ TypeOK' /\ PageStored /\ [Next]_vars => PageStored'
  BY PageStoredStep
<1>4. TypeOK /\ TypeOK' /\ PageFits /\ PageStored /\ InSeqOrder /\ [Next]_vars
        => [Abstract!Next]_(Abstract!vars)
  BY RefineStep
<1> QED BY <1>1, <1>2, <1>3, <1>4, TypeCorrect, InOrderHolds, SeqOrderHolds, PTL
        DEF Spec, RefinesFollowedLog, Abstract!Spec
=============================================================================
