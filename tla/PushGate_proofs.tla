--------------------------- MODULE PushGate_proofs ---------------------------
(***************************************************************************)
(* Theorems about the gate, for any cards, notifications and bounds.       *)
(*                                                                         *)
(* Neither OneRing nor SeenNotRung is inductive.  Until the run is         *)
(* evicted they rest on the gate's tables: a card with a doorbell under    *)
(* way, or rung, is in rung, and the watermark is what the phone saw.      *)
(* The eviction empties the tables; from then on they rest on the ticket   *)
(* and on the row: a doorbell admitted before carries the epoch that       *)
(* moved, one admitted later finds no run, and the one that was past its   *)
(* last check holds ring_order.                                            *)
(***************************************************************************)
EXTENDS PushGate, TLAPS

Announces(r, c) == ring[r] # Free /\ ring[r].card = c

\* Doorbells are numbered as they are admitted.
Unused == \A r \in Rings : r > admitted => ring[r] = Free

\* Before the eviction: the tables know every doorbell and every frame.
BeforeInv ==
  deletion # "evicted" =>
    /\ wm = seen
    /\ \A c \in Cards : rang[c] > 0 => c \in rung
    /\ \A r \in Rings, c \in Cards : Announces(r, c) => c \in rung /\ rang[c] = 0
    /\ \A r, s \in Rings, c \in Cards : Announces(r, c) /\ Announces(s, c) => r = s

\* After it: a doorbell that read its run, and is past that, was admitted before; the one
\* past its last check has not been sent, nor has a twin.
AfterInv ==
  deletion = "evicted" =>
    \A r \in Rings : ring[r] # Free /\ ~ring[r].unread =>
      /\ ring[r].at \in {"order", "check", "count", "send"} => ring[r].evicted
      /\ ring[r].at \in {"count", "send"} /\ ring[r].card \in Cards => rang[ring[r].card] = 0

GateIInv == GateTypeOK /\ Unused /\ BeforeInv /\ AfterInv /\ OneRing

-----------------------------------------------------------------------------
(* Doorbells as records.                                                   *)

\* A doorbell is free, or under way at one of its stages.
LEMMA RingShape ==
  ASSUME NEW x \in {Free} \cup Ringing
  PROVE  /\ x # Free => x \in Ringing
         /\ x # Free <=> x.at \in Stages
         /\ x = Free => x.at = "free"
BY DEF Free, Ringing, Stages

\* r is still the doorbell it was, whatever its ticket says of progress.
Keeps(r) ==
  /\ ring'[r] = Free <=> ring[r] = Free
  /\ ring'[r].at = ring[r].at
  /\ ring[r] # Free => /\ ring'[r].card = ring[r].card /\ ring'[r].seq = ring[r].seq
                       /\ ring'[r].unread = ring[r].unread
                       /\ ring'[r].evicted = ring[r].evicted

\* Moving the progress epoch keeps every doorbell.
LEMMA MovedRing ==
  ASSUME ring \in [Rings -> {Free} \cup Ringing]
  PROVE  /\ Moved(ring) \in [Rings -> {Free} \cup Ringing]
         /\ \A r \in Rings : ring'[r] = Moved(ring)[r] => Keeps(r)
<1>1. ASSUME NEW r \in Rings
      PROVE  /\ Moved(ring)[r] \in {Free} \cup Ringing
             /\ ring'[r] = Moved(ring)[r] => Keeps(r)
  <2>1. CASE ring[r] = Free
    BY <2>1 DEF Moved, Keeps
  <2>2. CASE ring[r] # Free
    <3>1. ring[r] \in Ringing
      BY <2>2
    <3>2. Moved(ring)[r] = [ring[r] EXCEPT !.moved = TRUE]
      BY <2>2 DEF Moved
    <3>3. Moved(ring)[r] \in Ringing
      BY <3>1, <3>2 DEF Ringing
    <3>4. Moved(ring)[r] # Free
      BY <3>3, RingShape DEF Free, Ringing, Stages
    <3>5. /\ Moved(ring)[r].at = ring[r].at /\ Moved(ring)[r].card = ring[r].card
          /\ Moved(ring)[r].seq = ring[r].seq /\ Moved(ring)[r].unread = ring[r].unread
          /\ Moved(ring)[r].evicted = ring[r].evicted
      BY <3>1, <3>2 DEF Ringing
    <3> QED BY <2>2, <3>3, <3>4, <3>5 DEF Keeps
  <2> QED BY <2>1, <2>2
<1>2. Moved(ring) = [r \in Rings |-> Moved(ring)[r]]
  BY DEF Moved
<1> QED BY <1>1, <1>2

\* A doorbell moved on to stage a is the doorbell it was, there.
LEMMA RingTo ==
  ASSUME ring \in [Rings -> {Free} \cup Ringing], NEW r \in Rings, NEW a \in Stages,
         ring[r].at \in Stages, To(r, a)
  PROVE  /\ ring' \in [Rings -> {Free} \cup Ringing]
         /\ \A s \in Rings : s # r => ring'[s] = ring[s]
         /\ ring'[r] # Free /\ ring[r] # Free /\ ring'[r].at = a
         /\ ring'[r].card = ring[r].card /\ ring'[r].seq = ring[r].seq
         /\ ring'[r].unread = ring[r].unread /\ ring'[r].evicted = ring[r].evicted
<1>1. ring[r] \in Ringing /\ ring[r] # Free
  BY RingShape DEF Free, Stages
<1>2. ring' = [ring EXCEPT ![r] = [ring[r] EXCEPT !.at = a]]
  BY DEF To
<1>3. [ring[r] EXCEPT !.at = a] \in Ringing
  BY <1>1 DEF Ringing
<1>4. ring'[r] = [ring[r] EXCEPT !.at = a]
  BY <1>2
<1>5. ring'[r] # Free
  BY <1>3, <1>4, RingShape DEF Free, Ringing, Stages
<1>6. ring' \in [Rings -> {Free} \cup Ringing]
  BY <1>2, <1>3
<1> QED BY <1>1, <1>2, <1>3, <1>4, <1>5, <1>6 DEF Ringing

-----------------------------------------------------------------------------
(* The four ways a step treats the doorbells.                              *)

\* Whose ring_order is, and what the doorbells are.
RingType ==
  /\ ring \in [Rings -> {Free} \cup Ringing]
  /\ admitted \in 0..MaxRings /\ order \in 0..MaxRings /\ returns \in 0..MaxReturns
  /\ rang \in [Cards -> Nat]
  /\ \A r \in Rings : order = r <=> ring[r].at \in {"check", "count", "send"}

RingInv == RingType /\ Unused /\ BeforeInv /\ AfterInv /\ OneRing

\* The tables lose nothing and the run is not evicted.
TablesKept ==
  /\ deletion' = "evicted" <=> deletion = "evicted"
  /\ rung \subseteq rung'
  /\ wm = seen => wm' = seen'

\* Every doorbell is kept.
LEMMA AllKept ==
  ASSUME RingInv, TablesKept, ring' \in [Rings -> {Free} \cup Ringing], \A r \in Rings : Keeps(r),
         UNCHANGED <<admitted, order, returns, rang>>
  PROVE  RingInv'
<1>1. RingType'
  BY DEF RingInv, RingType, Keeps
<1>2. Unused'
  BY DEF RingInv, Unused, Keeps
<1>3. BeforeInv'
  BY DEF RingInv, BeforeInv, TablesKept, Announces, Keeps
<1>4. AfterInv'
  BY DEF RingInv, AfterInv, TablesKept, Keeps
<1>5. OneRing'
  BY DEF RingInv, OneRing
<1> QED BY <1>1, <1>2, <1>3, <1>4, <1>5 DEF RingInv

\* The doorbell is not the sender's yet, or waits for the lock already.
LEMMA OneMoves ==
  ASSUME RingInv, TablesKept, NEW r \in Rings, NEW x \in Ringing, ring[r] # Free,
         ring' = [ring EXCEPT ![r] = x],
         x.card = ring[r].card, x.evicted = ring[r].evicted,
         ring[r].unread => x.unread,
         order' \in 0..MaxRings,
         \A s \in Rings : s # r => (order' = s <=> order = s),
         order' = r <=> x.at \in {"check", "count", "send"},
         returns' \in 0..MaxReturns,
         deletion = "evicted" /\ ~x.unread =>
           /\ x.at \in {"order", "check", "count", "send"} => x.evicted
           /\ x.at \in {"count", "send"} => ring[r].at \in {"count", "send"},
         UNCHANGED <<admitted, rang>>
  PROVE  RingInv'
<1>0. /\ ring[r] \in Ringing /\ x # Free
      /\ ring'[r] = x /\ \A s \in Rings : s # r => ring'[s] = ring[s]
      /\ ring' \in [Rings -> {Free} \cup Ringing]
  BY RingShape DEF RingInv, RingType, Free, Ringing, Stages
<1>1. RingType'
  BY <1>0 DEF RingInv, RingType
<1>2. Unused'
  BY <1>0 DEF RingInv, Unused
<1>3. BeforeInv'
  BY <1>0 DEF RingInv, BeforeInv, TablesKept, Announces
<1>4. AfterInv'
  BY <1>0 DEF RingInv, AfterInv, TablesKept
<1>5. OneRing'
  BY DEF RingInv, OneRing
<1> QED BY <1>1, <1>2, <1>3, <1>4, <1>5 DEF RingInv

\* The doorbell ends, sent or not.
LEMMA OneEnds ==
  ASSUME RingInv, TablesKept, NEW r \in Rings, ring[r] # Free, Drop(r), Frees(r),
         \/ UNCHANGED rang
         \/ /\ ring[r].at = "send"
            /\ rang' = [c \in Cards |-> IF c # ring[r].card THEN rang[c]
                                        ELSE IF ring[r].unread THEN 1 ELSE rang[c] + 1],
         UNCHANGED <<admitted, returns>>
  PROVE  RingInv'
<1>0. /\ ring'[r] = Free /\ \A s \in Rings : s # r => ring'[s] = ring[s]
      /\ ring' \in [Rings -> {Free} \cup Ringing]
      /\ Free.at = "free" /\ ring[r] \in Ringing
  BY DEF RingInv, RingType, Drop, Free
<1>1. /\ order' = IF order = r THEN 0 ELSE order
      /\ order \in 0..MaxRings /\ 0 \in 0..MaxRings /\ 0 \notin Rings
  BY RingsAssumption DEF Frees, RingInv, RingType, Rings
<1>2. rang' \in [Cards -> Nat]
  BY DEF RingInv, RingType
<1>3. RingType'
  BY <1>0, <1>1, <1>2 DEF RingInv, RingType
<1>4. Unused'
  BY <1>0 DEF RingInv, Unused
<1>5. CASE UNCHANGED rang
  <2>1. BeforeInv'
    BY <1>0, <1>5 DEF RingInv, BeforeInv, TablesKept, Announces
  <2>2. AfterInv'
    BY <1>0, <1>5 DEF RingInv, AfterInv, TablesKept
  <2>3. OneRing'
    BY <1>5 DEF RingInv, OneRing
  <2> QED BY <1>3, <1>4, <2>1, <2>2, <2>3 DEF RingInv
<1>6. CASE /\ ring[r].at = "send"
           /\ rang' = [c \in Cards |-> IF c # ring[r].card THEN rang[c]
                                       ELSE IF ring[r].unread THEN 1 ELSE rang[c] + 1]
  <2>0. /\ \A c \in Cards : c # ring[r].card => rang'[c] = rang[c]
        /\ ring[r].card \in Cards => rang'[ring[r].card] = IF ring[r].unread THEN 1 ELSE rang[ring[r].card] + 1
    BY <1>6
  <2>1. ring[r].card \in Cards /\ ~ring[r].unread => rang[ring[r].card] = 0
    BY <1>6 DEF RingInv, BeforeInv, AfterInv, Announces
  <2>2. OneRing'
    BY <2>0, <2>1, <1>2 DEF RingInv, OneRing
  <2>3. order = r
    BY <1>6 DEF RingInv, RingType
  <2>4. AfterInv'
    <3>1. \A s \in Rings : s # r => ring[s].at \notin {"count", "send"}
      BY <2>3 DEF RingInv, RingType
    <3> QED BY <1>0, <3>1 DEF RingInv, AfterInv, TablesKept
  <2>5. BeforeInv'
    <3> SUFFICES ASSUME deletion' # "evicted" PROVE BeforeInv'
      BY DEF BeforeInv
    <3>0. deletion # "evicted"
      BY DEF TablesKept
    <3>1. wm' = seen'
      BY <3>0 DEF TablesKept, RingInv, BeforeInv
    <3>2. ASSUME NEW c \in Cards, rang'[c] > 0 PROVE c \in rung'
      BY <3>0, <3>2, <2>0, <1>0 DEF RingInv, BeforeInv, Announces, TablesKept
    <3>3. ASSUME NEW s \in Rings, NEW c \in Cards, Announces(s, c)' PROVE c \in rung' /\ rang'[c] = 0
      <4>1. s # r /\ Announces(s, c)
        BY <3>3, <1>0 DEF Announces
      <4>2. c # ring[r].card
        BY <4>1, <3>0, <1>0 DEF RingInv, BeforeInv, Announces
      <4> QED BY <4>1, <4>2, <3>0, <2>0 DEF RingInv, BeforeInv, TablesKept
    <3>4. ASSUME NEW s \in Rings, NEW u \in Rings, NEW c \in Cards, Announces(s, c)', Announces(u, c)'
          PROVE  s = u
      BY <3>0, <3>4, <1>0 DEF RingInv, BeforeInv, Announces
    <3> QED BY <3>1, <3>2, <3>3, <3>4 DEF BeforeInv
  <2> QED BY <1>3, <1>4, <2>2, <2>4, <2>5 DEF RingInv
<1> QED BY <1>5, <1>6

\* A doorbell for card c is admitted, and the tables have c from then on.
LEMMA OneAdmitted ==
  ASSUME RingInv, NEW c \in Cards \cup {NoCard}, NEW seq \in Nat, Admit(Moved(ring), c, seq),
         c \in Cards => c \notin rung /\ c \in rung',
         TablesKept, UNCHANGED <<order, returns, rang>>
  PROVE  RingInv'
<1> DEFINE x == [at |-> "grace", card |-> c, seq |-> seq, moved |-> FALSE, evicted |-> FALSE,
                 excluded |-> FALSE, unread |-> FALSE]
<1> PICK n : n = admitted + 1
  OBVIOUS
<1>0. n \in Rings /\ admitted' = n /\ n \in 0..MaxRings /\ admitted \in Nat
  BY RingsAssumption DEF Admit, RingInv, RingType, Rings
<1>1. x \in Ringing /\ x # Free
  BY DEF Ringing, Stages, Free
<1>2. Moved(ring) \in [Rings -> {Free} \cup Ringing]
  BY MovedRing DEF RingInv, RingType
<1>3. ring' = [Moved(ring) EXCEPT ![n] = x]
  BY DEF Admit
<1>4. /\ ring'[n] = x /\ ring' \in [Rings -> {Free} \cup Ringing]
      /\ \A r \in Rings : r # n => ring'[r] = Moved(ring)[r]
  BY <1>0, <1>1, <1>2, <1>3
<1>5. \A r \in Rings : r # n => Keeps(r)
  BY <1>4, MovedRing DEF RingInv, RingType
<1>6. ring[n] = Free /\ Free.at = "free"
  BY <1>0 DEF RingInv, Unused, Free
<1>7. x.at = "grace" /\ x.card = c /\ ~x.unread
  OBVIOUS
<1> HIDE DEF x
<1>8. RingType'
  BY <1>0, <1>4, <1>5, <1>6, <1>7 DEF RingInv, RingType, Keeps
<1>9. Unused'
  <2> SUFFICES ASSUME NEW r \in Rings, r > admitted' PROVE ring'[r] = Free
    BY DEF Unused
  <2>1. r # n /\ r > admitted
    BY <1>0 DEF Rings
  <2> QED BY <2>1, <1>5 DEF Keeps, RingInv, Unused
<1>10. BeforeInv'
  <2> SUFFICES ASSUME deletion' # "evicted" PROVE BeforeInv'
    BY DEF BeforeInv
  <2>0. deletion # "evicted"
    BY DEF TablesKept
  <2>1. \A r \in Rings, d \in Cards : r # n => (Announces(r, d)' <=> Announces(r, d))
    BY <1>5 DEF Announces, Keeps
  <2>2. \A d \in Cards : Announces(n, d)' => d = c
    BY <1>4, <1>7 DEF Announces
  <2>3. \A r \in Rings : ~(c \in Cards /\ Announces(r, c))
    BY <2>0 DEF RingInv, BeforeInv
  <2>4. c \in Cards => rang[c] = 0
    BY <2>0 DEF RingInv, BeforeInv, RingType
  <2>5. \A r \in Rings, d \in Cards : Announces(r, d)' => d \in rung' /\ rang'[d] = 0
    BY <2>0, <2>1, <2>2, <2>4 DEF RingInv, BeforeInv, TablesKept
  <2>6. \A r, s \in Rings, d \in Cards : Announces(r, d)' /\ Announces(s, d)' => r = s
    BY <2>0, <2>1, <2>2, <2>3 DEF RingInv, BeforeInv
  <2> QED BY <2>0, <2>5, <2>6 DEF RingInv, BeforeInv, TablesKept
<1>11. AfterInv'
  BY <1>4, <1>5, <1>7 DEF RingInv, AfterInv, TablesKept, Keeps
<1>12. OneRing'
  BY DEF RingInv, OneRing
<1> QED BY <1>8, <1>9, <1>10, <1>11, <1>12 DEF RingInv

-----------------------------------------------------------------------------
(* The rest of the type invariant.                                         *)

NoticeRec == [at : {"idle", "filed", "read", "done"}, kind : Quiet \cup {"prompt"}, seq : Nat,
              cards : SUBSET Cards]

DataType ==
  /\ filed \in Nat /\ wm \in 0..filed /\ seen \in 0..filed
  /\ card \in [Cards -> {"none", "filed", "stored", "open", "shut", "closed"}]
  /\ seqOf \in [Cards -> 0..filed]
  /\ taken \subseteq Cards \cup {NoCard}
  /\ notice \in [Notices -> NoticeRec]
  /\ ambient \in Quiet \cup {"none"}
  /\ rung \subseteq Cards
  /\ {prompted, ended} \subseteq BOOLEAN
  /\ deletion \in {"no", "checked", "gone", "evicted"}

\* The type invariant, apart.
LEMMA TypeParts == GateTypeOK <=> DataType /\ RingType
BY DEF GateTypeOK, DataType, RingType, NoticeRec

\* What the run and the gate keep has its type.
LEMMA DataStep ==
  ASSUME DataType, RingType, [GateNext]_vars
  PROVE  DataType'
<1>1. ASSUME NEW c \in Cards, CardFiled(c) PROVE DataType'
  <2>1. UNCHANGED <<wm, ambient, rung, prompted, notice, ended, deletion, seen>>
    BY <1>1 DEF CardFiled, gateVars
  <2>2. filed' = filed + 1 /\ filed \in Nat /\ 0..filed \subseteq 0..filed' /\ filed' \in 0..filed'
    BY <1>1 DEF CardFiled, DataType
  <2>3. seqOf' \in [Cards -> 0..filed']
    BY <1>1, <2>2 DEF CardFiled, DataType
  <2>4. card' \in [Cards -> {"none", "filed", "stored", "open", "shut", "closed"}] /\ taken' \subseteq Cards \cup {NoCard}
    BY <1>1 DEF CardFiled, DataType
  <2> QED BY <2>1, <2>2, <2>3, <2>4 DEF DataType
<1>2. ASSUME NEW c \in Cards, CardStored(c) \/ CardCloses(c) PROVE DataType'
  <2>1. UNCHANGED <<wm, ambient, rung, prompted, seqOf, notice, filed, ended, deletion, seen>>
    BY <1>2 DEF CardStored, CardCloses, gateVars, runVars
  <2>2. card' \in [Cards -> {"none", "filed", "stored", "open", "shut", "closed"}] /\ taken' \subseteq Cards \cup {NoCard}
    BY <1>2 DEF CardStored, CardCloses, DataType
  <2> QED BY <2>1, <2>2 DEF DataType
<1>3. ASSUME NEW c \in Cards, AdmitDecision(c) PROVE DataType'
  <2>1. UNCHANGED <<wm, seqOf, taken, notice, filed, ended, deletion, seen>>
    BY <1>3 DEF AdmitDecision, runVars
  <2>2. /\ card' \in [Cards -> {"none", "filed", "stored", "open", "shut", "closed"}]
        /\ ambient' = "none" /\ prompted' = TRUE /\ rung' \subseteq Cards
    BY <1>3 DEF AdmitDecision, DataType
  <2> QED BY <2>1, <2>2 DEF DataType
<1>4. ASSUME NoteProgress \/ RunEnds \/ DeleteChecks \/ DeleteRows PROVE DataType'
  <2>1. UNCHANGED <<wm, rung, prompted, cardVars, notice, filed, seen>> /\ ambient' \in {ambient, "none"}
        /\ ended' \in {ended, TRUE} /\ deletion' \in {deletion, "checked", "gone"}
    BY <1>4 DEF NoteProgress, RunEnds, DeleteChecks, DeleteRows, gateVars, runVars
  <2>2. ambient' \in Quiet \cup {"none"} /\ deletion' \in {"no", "checked", "gone", "evicted"}
    BY <2>1 DEF DataType
  <2>3. {prompted, ended'} \subseteq BOOLEAN
    BY <2>1, Zenon DEF DataType
  <2> QED BY <2>1, <2>2, <2>3 DEF DataType, cardVars
<1>5. ASSUME NEW seq \in wm + 1..filed, NoteDelivered(seq) PROVE DataType'
  <2>1. UNCHANGED <<ambient, rung, prompted, cardVars, notice, filed, ended, deletion>>
    BY <1>5 DEF NoteDelivered
  <2>2. wm' \in 0..filed /\ seen' \in 0..filed
    BY <1>5 DEF NoteDelivered, DataType
  <2> QED BY <2>1, <2>2 DEF DataType, cardVars
<1>6. ASSUME EvictSession PROVE DataType'
  <2>1. UNCHANGED <<cardVars, notice, filed, ended, seen>> /\ deletion' = "evicted"
        /\ ambient' = "none" /\ rung' = {} /\ prompted' = FALSE /\ wm' = 0
    BY <1>6 DEF EvictSession
  <2>2. wm' \in 0..filed /\ rung' \subseteq Cards
    BY <2>1 DEF DataType
  <2>3. {prompted', ended} \subseteq BOOLEAN
    BY <2>1, Zenon DEF DataType
  <2> QED BY <2>1, <2>2, <2>3 DEF DataType, cardVars
<1>7. ASSUME NEW n \in Notices, NEW k \in Quiet \cup {"prompt"}, NoticeFiled(n, k) PROVE DataType'
  <2>1. UNCHANGED <<wm, ambient, rung, prompted, cardVars, ended, deletion, seen>>
    BY <1>7 DEF NoticeFiled, gateVars
  <2>2. filed' = filed + 1 /\ filed \in Nat /\ 0..filed \subseteq 0..filed' /\ filed' \in Nat
    BY <1>7 DEF NoticeFiled, DataType
  <2>3. PICK x \in NoticeRec : notice' = [notice EXCEPT ![n] = x]
    <3>1. [at |-> IF k = "prompt" THEN "filed" ELSE "read", kind |-> k, seq |-> filed + 1, cards |-> {}]
            \in NoticeRec
      BY <2>2 DEF NoticeRec
    <3> QED BY <1>7, <3>1 DEF NoticeFiled
  <2>4. notice' \in [Notices -> NoticeRec]
    BY <2>3 DEF DataType
  <2> QED BY <2>1, <2>2, <2>4 DEF DataType, cardVars
<1>8. ASSUME NEW n \in Notices, NoticeReads(n) PROVE DataType'
  <2>1. UNCHANGED <<wm, ambient, rung, prompted, cardVars, filed, ended, deletion, seen>>
    BY <1>8 DEF NoticeReads, gateVars, runVars
  <2>2. notice[n] \in NoticeRec /\ Open \in SUBSET Cards
    BY DEF DataType, Open
  <2>3. [notice[n] EXCEPT !.at = "read", !.cards = Open] \in NoticeRec
    BY <2>2 DEF NoticeRec
  <2>4. notice' = [notice EXCEPT ![n] = [notice[n] EXCEPT !.at = "read", !.cards = Open]]
    BY <1>8, <2>2 DEF NoticeReads, DataType, NoticeRec
  <2>5. notice' \in [Notices -> NoticeRec]
    BY <2>3, <2>4 DEF DataType
  <2> QED BY <2>1, <2>5 DEF DataType, cardVars
<1>9. ASSUME NEW n \in Notices, NoticeAdmits(n) PROVE DataType'
  <2>1. UNCHANGED <<wm, cardVars, filed, ended, deletion, seen>>
    BY <1>9 DEF NoticeAdmits, runVars
  <2>2. notice[n] \in NoticeRec
    BY DEF DataType
  <2>3. [at |-> "done", kind |-> "prompt", seq |-> 0, cards |-> {}] \in NoticeRec
    BY DEF NoticeRec
  <2>4. notice' \in [Notices -> NoticeRec]
    BY <1>9, <2>3 DEF NoticeAdmits, DataType
  <2>5. ambient' \in Quiet \cup {"none"} /\ rung' \subseteq Cards /\ prompted' \in BOOLEAN
    <3>1. notice[n].cards \subseteq Cards /\ notice[n].kind \in Quiet \cup {"prompt"}
      BY <2>2 DEF NoticeRec
    <3> QED BY <1>9, <3>1 DEF NoticeAdmits, AdmitNotice, AdmitAmbient, DataType, Quiet
  <2> QED BY <2>1, <2>4, <2>5 DEF DataType, cardVars
<1>10. ASSUME NEW r \in Rings, RingStep(r) \/ LookHome(r) \/ OwnerBack(r) PROVE DataType'
  <2>1. UNCHANGED <<gateVars, card, seqOf, notice, runVars>>
    BY <1>10 DEF RingStep, GraceEnds, LookAway, LookHome, Screen, Row, Order, Check, Count, Sent, OwnerBack,
                 RingOnly, cardVars
  <2>2. taken' \subseteq Cards \cup {NoCard}
    <3>1. CASE Screen(r)
      BY <1>10, <3>1 DEF Screen, DataType, RingType, Ringing, Free
    <3>2. CASE ~Screen(r)
      BY <1>10, <3>2 DEF RingStep, GraceEnds, LookAway, LookHome, Row, Order, Check, Count, Sent, OwnerBack,
                         cardVars, DataType
    <3> QED BY <3>1, <3>2
  <2> QED BY <2>1, <2>2 DEF DataType, gateVars, runVars
<1>11. CASE UNCHANGED vars
  BY <1>11 DEF DataType, vars, gateVars, cardVars, runVars
<1> QED BY <1>1, <1>2, <1>3, <1>4, <1>5, <1>6, <1>7, <1>8, <1>9, <1>10, <1>11 DEF GateNext, RunStep

-----------------------------------------------------------------------------
(* The doorbells.                                                          *)

\* Every step keeps what is known of the doorbells.
LEMMA RingInvStep ==
  ASSUME DataType, RingInv, [GateNext]_vars
  PROVE  RingInv'
<1>0. ring \in [Rings -> {Free} \cup Ringing] /\ \A r \in Rings : ring[r] \in {Free} \cup Ringing
  BY DEF RingInv, RingType
<1>1. ASSUME UNCHANGED <<ring, admitted, order, returns, rang>>, TablesKept PROVE RingInv'
  BY <1>0, <1>1, AllKept DEF Keeps
<1>2. ASSUME NoRing(Moved(ring)), UNCHANGED <<order, returns, rang>>, TablesKept PROVE RingInv'
  <2>1. ring' = Moved(ring) /\ admitted' = admitted
    BY <1>2 DEF NoRing
  <2>2. ring' \in [Rings -> {Free} \cup Ringing] /\ \A r \in Rings : Keeps(r)
    BY <2>1, <1>0, MovedRing
  <2> QED BY <2>1, <2>2, <1>2, AllKept
<1>3. ASSUME NEW r \in Rings, NEW a \in Stages, ring[r].at \in Stages, To(r, a),
             deletion = "evicted" /\ ~ring[r].unread =>
               /\ a \in {"order", "check", "count", "send"} => ring[r].evicted
               /\ a \in {"count", "send"} => ring[r].at \in {"count", "send"},
             \/ order' = order /\ (a \in {"check", "count", "send"} <=> ring[r].at \in {"check", "count", "send"})
             \/ order = 0 /\ order' = r /\ a = "check"
             \/ order' = (IF order = r THEN 0 ELSE order) /\ a = "look",
             TablesKept, returns' \in 0..MaxReturns, UNCHANGED <<admitted, rang>>
      PROVE  RingInv'
  <2> DEFINE x == [ring[r] EXCEPT !.at = a]
  <2>1. ring[r] \in Ringing /\ ring[r] # Free
    BY <1>0, <1>3, RingShape DEF Free, Stages
  <2>2. x \in Ringing /\ x.at = a /\ x.card = ring[r].card /\ x.evicted = ring[r].evicted
        /\ x.unread = ring[r].unread
    BY <2>1, <1>3 DEF Ringing
  <2>3. ring' = [ring EXCEPT ![r] = x]
    BY <1>3 DEF To
  <2>4. /\ order \in 0..MaxRings /\ r \in 1..MaxRings /\ MaxRings \in Nat
        /\ order = r <=> ring[r].at \in {"check", "count", "send"}
    BY RingsAssumption DEF RingInv, RingType, Rings
  <2>5. /\ order' \in 0..MaxRings
        /\ \A s \in Rings : s # r => (order' = s <=> order = s)
        /\ order' = r <=> a \in {"check", "count", "send"}
    BY <1>3, <2>4 DEF Rings
  <2> HIDE DEF x
  <2> QED BY <1>3, <2>1, <2>2, <2>3, <2>5, OneMoves
<1>4. ASSUME NEW r \in Rings, RingOnly PROVE TablesKept /\ UNCHANGED <<admitted, rang>>
  BY <1>4 DEF RingOnly, TablesKept, gateVars, runVars
<1>5. returns \in 0..MaxReturns /\ (UNCHANGED returns => returns' \in 0..MaxReturns)
  BY DEF RingInv, RingType
<1>6. ASSUME NEW c \in Cards, AdmitDecision(c) PROVE RingInv'
  <2>1. TablesKept /\ c \in rung' /\ UNCHANGED <<order, returns, rang>>
    BY <1>6 DEF AdmitDecision, TablesKept, runVars
  <2>2. CASE c \in rung
    BY <1>2, <1>6, <2>1, <2>2 DEF AdmitDecision
  <2>3. CASE c \notin rung
    <3>1. Admit(Moved(ring), c, seqOf[c]) /\ seqOf[c] \in Nat
      BY <1>6, <2>3 DEF AdmitDecision, DataType
    <3> QED BY <2>1, <2>3, <3>1, OneAdmitted
  <2> QED BY <2>2, <2>3
<1>7. ASSUME NEW n \in Notices, NoticeAdmits(n) PROVE RingInv'
  <2>0. UNCHANGED <<order, returns, rang, wm, seen, deletion>>
    BY <1>7 DEF NoticeAdmits, runVars
  <2>1. notice[n].seq \in Nat /\ notice[n].cards \subseteq Cards
    BY DEF DataType, NoticeRec
  <2>2. ASSUME NEW class, AdmitAmbient(class, notice[n].seq) PROVE RingInv'
    <3>1. TablesKept
      BY <2>0, <2>2 DEF AdmitAmbient, TablesKept
    <3>2. CASE ambient = class
      BY <1>1, <2>0, <2>2, <3>1, <3>2 DEF AdmitAmbient, NoRing
    <3>3. CASE ambient # class
      <4>1. Admit(Moved(ring), NoCard, notice[n].seq)
        BY <2>2, <3>3 DEF AdmitAmbient
      <4>2. NoCard \notin Cards
        BY CardsAssumption DEF NoCard
      <4> QED BY <2>0, <2>1, <3>1, <4>1, <4>2, OneAdmitted
    <3> QED BY <3>2, <3>3
  <2>3. ASSUME AdmitNotice(n) PROVE RingInv'
    <3>1. CASE notice[n].cards \ rung # {}
      <4>1. PICK c \in notice[n].cards \ rung :
              rung' = rung \cup {c} /\ Admit(Moved(ring), c, notice[n].seq)
        BY <2>3, <3>1 DEF AdmitNotice
      <4>2. TablesKept /\ c \in Cards /\ c \notin rung /\ c \in rung'
        BY <2>0, <2>1, <4>1 DEF TablesKept
      <4> QED BY <2>0, <2>1, <4>1, <4>2, OneAdmitted
    <3>2. CASE notice[n].cards \ rung = {} /\ (notice[n].cards # {} \/ prompted)
      <4>1. NoRing(ring) /\ UNCHANGED rung
        BY <2>3, <3>2 DEF AdmitNotice
      <4> QED BY <1>1, <2>0, <4>1 DEF NoRing, TablesKept
    <3>3. CASE notice[n].cards \ rung = {} /\ ~(notice[n].cards # {} \/ prompted)
      BY <2>2, <2>3, <3>3 DEF AdmitNotice
    <3> QED BY <3>1, <3>2, <3>3
  <2> QED BY <1>7, <2>2, <2>3 DEF NoticeAdmits
<1>8. ASSUME NoteProgress PROVE RingInv'
  <2>1. TablesKept /\ NoRing(Moved(ring)) /\ UNCHANGED <<order, returns, rang>>
    BY <1>8 DEF NoteProgress, TablesKept, NoRing, runVars
  <2> QED BY <1>2, <2>1
<1>9. ASSUME NEW seq \in wm + 1..filed, NoteDelivered(seq) PROVE RingInv'
  <2>1. UNCHANGED <<deletion, rung, ringVars>> /\ wm' = seq /\ seen' = IF seq > seen THEN seq ELSE seen
    BY <1>9 DEF NoteDelivered
  <2>2. wm = seen => wm' = seen'
    BY <2>1 DEF DataType
  <2> QED BY <1>1, <2>1, <2>2 DEF TablesKept, ringVars
<1>10. ASSUME EvictSession PROVE RingInv'
  <2>1. /\ deletion = "gone" /\ deletion' = "evicted"
        /\ ring' = [r \in Rings |-> IF ring[r] = Free THEN Free ELSE [ring[r] EXCEPT !.evicted = TRUE]]
        /\ UNCHANGED <<admitted, order, returns, rang>>
    BY <1>10 DEF EvictSession
  <2>2. ASSUME NEW r \in Rings, ring[r] # Free
        PROVE  /\ ring'[r] \in Ringing /\ ring'[r] # Free /\ ring'[r].at = ring[r].at
               /\ ring'[r].card = ring[r].card /\ ring'[r].evicted
    <3>1. ring'[r] = [ring[r] EXCEPT !.evicted = TRUE] /\ ring[r] \in Ringing
      BY <2>1, <2>2, <1>0
    <3>2. ring'[r] \in Ringing
      BY <3>1 DEF Ringing
    <3>3. ring'[r] # Free
      BY <3>2 DEF Free, Ringing, Stages
    <3> QED BY <3>1, <3>2, <3>3 DEF Ringing
  <2>3. \A r \in Rings : ring[r] = Free => ring'[r] = Free
    BY <2>1
  <2>4. ring' \in [Rings -> {Free} \cup Ringing]
    BY <2>1, <2>2, <2>3
  <2>5. RingType'
    BY <2>1, <2>2, <2>3, <2>4 DEF RingInv, RingType
  <2>6. Unused'
    BY <2>1, <2>3 DEF RingInv, Unused
  <2>7. AfterInv'
    BY <2>1, <2>2, <2>3 DEF RingInv, BeforeInv, AfterInv, Announces
  <2>8. OneRing' /\ BeforeInv'
    BY <2>1 DEF RingInv, OneRing, BeforeInv
  <2> QED BY <2>5, <2>6, <2>7, <2>8 DEF RingInv
<1>11. ASSUME \/ \E c \in Cards : CardFiled(c) \/ CardStored(c) \/ CardCloses(c)
              \/ \E n \in Notices : NoticeReads(n) \/ \E k \in Quiet \cup {"prompt"} : NoticeFiled(n, k)
              \/ RunEnds \/ DeleteChecks \/ DeleteRows \/ UNCHANGED vars
       PROVE  RingInv'
  <2>1. UNCHANGED <<ringVars, wm, seen, rung>> /\ (deletion' = "evicted" <=> deletion = "evicted")
    BY <1>11 DEF CardFiled, CardStored, CardCloses, NoticeReads, NoticeFiled, RunEnds,
                 DeleteChecks, DeleteRows, vars, gateVars, runVars
  <2> QED BY <1>1, <2>1 DEF TablesKept, ringVars
<1>12. ASSUME NEW r \in Rings, RingStep(r) \/ LookHome(r) \/ OwnerBack(r) PROVE RingInv'
  <2>0. ring[r] # Free /\ ring[r].at \in Stages
    <3>1. ring[r].at \in Stages
      BY <1>12 DEF RingStep, GraceEnds, LookAway, LookHome, Screen, Row, Order, Check, Count, Sent, OwnerBack,
                   Stages
    <3> QED BY <3>1 DEF Free, Stages
  <2>1. ASSUME Drop(r), Frees(r), RingOnly, UNCHANGED returns PROVE RingInv'
    BY <1>4, <2>0, <2>1, OneEnds
  <2>2. ASSUME Drop(r), UNCHANGED order, RingOnly, UNCHANGED returns, ring[r].at \notin {"check", "count", "send"}
        PROVE  RingInv'
    BY <2>1, <2>2 DEF Frees, RingInv, RingType
  <2>3. CASE GraceEnds(r)
    BY <1>3, <1>4, <1>5, <2>3 DEF GraceEnds, Stages
  <2>4. CASE LookHome(r)
    BY <2>2, <2>4 DEF LookHome
  <2>5. CASE LookAway(r)
    <3> DEFINE a == IF Heeds(r) THEN "row" ELSE "screen"
    <3>1. a \in Stages /\ a \in {"row", "screen"} /\ To(r, a) /\ ring[r].at = "look"
      BY <2>5 DEF LookAway, Stages
    <3> HIDE DEF a
    <3> QED BY <1>3, <1>4, <1>5, <2>0, <2>5, <3>1 DEF LookAway
  <2>6. CASE Screen(r)
    <3>1. CASE Drop(r)
      BY <2>2, <2>6, <3>1 DEF Screen
    <3>2. CASE To(r, "row")
      BY <1>3, <1>4, <1>5, <2>6, <3>2 DEF Screen, Stages
    <3> QED BY <2>6, <3>1, <3>2 DEF Screen
  <2>7. CASE Row(r)
    <3>1. CASE Drop(r)
      BY <2>2, <2>7, <3>1 DEF Row
    <3>2. CASE ~Deleted /\ To(r, "order")
      BY <1>3, <1>4, <1>5, <2>7, <3>2 DEF Row, Stages, Deleted
    <3>3. CASE ring' = [ring EXCEPT ![r].at = "order", ![r].unread = TRUE]
      <4> DEFINE x == [ring[r] EXCEPT !.at = "order", !.unread = TRUE]
      <4>1. ring[r] \in Ringing
        BY <1>0, <2>0
      <4>2. x \in Ringing /\ x.at = "order" /\ x.card = ring[r].card /\ x.evicted = ring[r].evicted
            /\ x.unread
        BY <4>1 DEF Ringing, Stages
      <4>3. ring' = [ring EXCEPT ![r] = x]
        BY <1>0, <3>3
      <4>4. order' = order /\ order # r /\ order \in 0..MaxRings
        BY <2>7 DEF Row, RingInv, RingType
      <4>5. TablesKept /\ UNCHANGED <<admitted, rang>> /\ returns' \in 0..MaxReturns
        BY <1>4, <1>5, <2>7 DEF Row
      <4> HIDE DEF x
      <4> QED BY <2>0, <4>2, <4>3, <4>4, <4>5, OneMoves
    <3> QED BY <2>7, <3>1, <3>2, <3>3 DEF Row
  <2>8. CASE Order(r)
    <3>1. deletion = "evicted" /\ ~ring[r].unread => ring[r].evicted
      BY <2>0, <2>8 DEF Order, RingInv, AfterInv
    <3> QED BY <1>3, <1>4, <1>5, <2>8, <3>1 DEF Order, Stages
  <2>9. CASE Check(r)
    <3>1. CASE Valid(r)
      <4> DEFINE x == [ring[r] EXCEPT !.at = "count", !.excluded = (wm >= ring[r].seq)]
      <4>1. ring[r] \in Ringing /\ (wm >= ring[r].seq) \in BOOLEAN
        BY <1>0, <2>0
      <4>2. x \in Ringing /\ x.at = "count" /\ x.card = ring[r].card /\ x.evicted = ring[r].evicted
            /\ x.unread = ring[r].unread
        BY <4>1 DEF Ringing, Stages
      <4>3. ring' = [ring EXCEPT ![r] = x] /\ order' = order /\ ring[r].at = "check"
        BY <1>0, <2>9, <3>1 DEF Check
      <4>4. order = r /\ order \in 0..MaxRings
        BY <4>3 DEF RingInv, RingType
      <4>5. TablesKept /\ UNCHANGED <<admitted, rang>> /\ returns' \in 0..MaxReturns
        BY <1>4, <1>5, <2>9 DEF Check
      <4>6. ~(deletion = "evicted" /\ ~ring[r].unread)
        BY <2>0, <3>1, <4>3 DEF Valid, RingInv, AfterInv
      <4> HIDE DEF x
      <4> QED BY <2>0, <4>2, <4>3, <4>4, <4>5, <4>6, OneMoves
    <3>2. CASE ~Valid(r)
      BY <2>1, <2>9, <3>2 DEF Check
    <3> QED BY <3>1, <3>2
  <2>10. CASE OwnerBack(r)
    <3>1. returns' \in 0..MaxReturns
      BY <2>10, RingsAssumption DEF OwnerBack, RingInv, RingType
    <3> QED BY <1>3, <1>4, <2>0, <2>10, <3>1 DEF OwnerBack, Frees, Stages
  <2>11. CASE Count(r)
    <3>1. CASE StillOpen(r)
      <4>1. deletion = "evicted" /\ ~ring[r].unread => ring[r].evicted
        BY <2>0, <2>11 DEF Count, RingInv, AfterInv
      <4> QED BY <1>3, <1>4, <1>5, <2>11, <3>1, <4>1 DEF Count, Stages
    <3>2. CASE ~StillOpen(r)
      BY <2>1, <2>11, <3>2 DEF Count
    <3> QED BY <3>1, <3>2
  <2>12. CASE Sent(r)
    <3>1. TablesKept /\ UNCHANGED <<admitted, returns>>
      BY <2>12 DEF Sent, TablesKept, gateVars, runVars
    <3> QED BY <2>0, <2>12, <3>1, OneEnds DEF Sent
  <2> QED BY <1>12, <2>3, <2>4, <2>5, <2>6, <2>7, <2>8, <2>9, <2>10, <2>11, <2>12 DEF RingStep
<1> QED BY <1>6, <1>7, <1>8, <1>9, <1>10, <1>11, <1>12 DEF GateNext, RunStep

-----------------------------------------------------------------------------
(* The theorems.                                                           *)

\* The gate starts in the invariant, and every step of it keeps it.
THEOREM GateInvariant == GateSpec => []GateIInv
<1>1. GateInit => GateIInv
  <2> SUFFICES ASSUME GateInit PROVE GateIInv
    OBVIOUS
  <2>0. \A r \in Rings : ring[r] = Free /\ ring[r].at = "free" /\ r # 0
    BY RingsAssumption DEF GateInit, Free, Rings
  <2>1. DataType
    <3>1. [at |-> "idle", kind |-> "prompt", seq |-> 0, cards |-> {}] \in NoticeRec
      BY DEF NoticeRec
    <3>2. notice \in [Notices -> NoticeRec]
      BY <3>1 DEF GateInit
    <3>3. {prompted, ended} \subseteq BOOLEAN
      BY Zenon DEF GateInit
    <3> QED BY <3>2, <3>3 DEF GateInit, DataType
  <2>2. RingType
    BY <2>0, RingsAssumption DEF GateInit, RingType
  <2>3. Unused /\ BeforeInv /\ AfterInv /\ OneRing
    BY <2>0 DEF GateInit, Unused, BeforeInv, AfterInv, OneRing, Announces
  <2> QED BY <2>1, <2>2, <2>3, TypeParts DEF GateIInv
<1>2. GateIInv /\ [GateNext]_vars => GateIInv'
  <2> SUFFICES ASSUME GateIInv, [GateNext]_vars PROVE GateIInv'
    OBVIOUS
  <2>1. DataType /\ RingInv
    BY TypeParts DEF GateIInv, RingInv
  <2>2. DataType' /\ RingInv'
    BY <2>1, DataStep, RingInvStep DEF RingInv
  <2>3. GateTypeOK' <=> DataType' /\ RingType'
    BY TypeParts, PTL
  <2> QED BY <2>2, <2>3 DEF GateIInv, RingInv
<1> QED BY <1>1, <1>2, PTL DEF GateSpec

\* Every variable keeps its type, and ring_order is held by the doorbell between its wait
\* for the lock and its hand-off, and by no other (dispatch_push).
THEOREM GateTypeCorrect == GateSpec => []GateTypeOK
<1>1. GateIInv => GateTypeOK
  BY DEF GateIInv
<1> QED BY <1>1, GateInvariant, PTL

\* One decision rings once (admit_decision, admit_notice): however its request, the
\* notification of its prompt and the deletion of its run interleave, a card is handed to
\* the senders at most once by doorbells that could read their run.
THEOREM OneRingHolds == GateSpec => []OneRing
<1>1. GateIInv => OneRing
  BY DEF GateIInv
<1> QED BY <1>1, GateInvariant, PTL

\* A phone is left out of a ring exactly when it has seen what the ring is about
\* (exclusions_if_valid), the eviction of the watermarks notwithstanding.
THEOREM SeenNotRungHolds == GateSpec => SeenNotRung
<1> DEFINE A == \A r \in Rings : ring[r].at = "check" /\ ring'[r].at = "count" /\ ~ring[r].unread =>
                  (ring'[r].excluded <=> seen >= ring[r].seq)
<1>1. GateIInv /\ [GateNext]_vars => [A]_vars
  <2> SUFFICES ASSUME GateIInv, GateNext, NEW r \in Rings, ring[r].at = "check", ring'[r].at = "count",
                      ~ring[r].unread
               PROVE  ring'[r].excluded <=> seen >= ring[r].seq
    BY DEF A
  <2>0. ring \in [Rings -> {Free} \cup Ringing] /\ ring[r] \in {Free} \cup Ringing /\ RingInv /\ DataType
    BY TypeParts DEF GateIInv, RingInv, RingType
  <2>00. ring[r] \in Ringing /\ ring[r] # Free /\ Free.at = "free"
    BY <2>0 DEF Free
  <2>1. ~Keeps(r)
    BY DEF Keeps
  <2>2. ring' # Moved(ring) /\ ring' # ring
    BY <2>0, <2>1, MovedRing DEF Keeps
  <2>3. ASSUME NEW c, NEW seq, Admit(Moved(ring), c, seq) PROVE FALSE
    <3>1. Moved(ring) \in [Rings -> {Free} \cup Ringing]
      BY <2>0, MovedRing
    <3>2. ring'[r] = Moved(ring)[r] \/ ring'[r].at = "grace"
      BY <2>3, <3>1 DEF Admit
    <3> QED BY <2>0, <2>1, <3>2, MovedRing
  <2>4. ASSUME NEW s \in Rings, NEW a, To(s, a), a = "count" => ring[s].at # "check" PROVE FALSE
    <3>1. ring' = [ring EXCEPT ![s] = [ring[s] EXCEPT !.at = a]]
      BY <2>4 DEF To
    <3>2. s = r
      BY <2>0, <3>1
    <3>3. ring'[r].at = a
      BY <2>0, <2>00, <3>1, <3>2 DEF Ringing
    <3> QED BY <2>4, <3>2, <3>3
  <2>5. ASSUME NEW s \in Rings, Drop(s) PROVE FALSE
    BY <2>0, <2>00, <2>5 DEF Drop
  <2>6. ASSUME RunStep PROVE FALSE
    <3>1. ASSUME NEW c \in Cards, AdmitDecision(c) PROVE FALSE
      BY <2>2, <2>3, <3>1 DEF AdmitDecision, NoRing
    <3>2. ASSUME NEW n \in Notices, NoticeAdmits(n) PROVE FALSE
      BY <2>2, <2>3, <3>2 DEF NoticeAdmits, AdmitNotice, AdmitAmbient, NoRing
    <3>3. ASSUME EvictSession PROVE FALSE
      <4>1. ring'[r] = [ring[r] EXCEPT !.evicted = TRUE]
        BY <2>00, <3>3 DEF EvictSession
      <4>2. ring'[r].at = "check"
        BY <2>00, <4>1 DEF Ringing
      <4> QED BY <4>2
    <3>4. ASSUME NoteProgress PROVE FALSE
      BY <2>2, <3>4 DEF NoteProgress
    <3>5. ASSUME ring' = ring PROVE FALSE
      BY <2>2, <3>5
    <3> QED BY <2>6, <3>1, <3>2, <3>3, <3>4, <3>5
         DEF RunStep, CardFiled, CardStored, CardCloses, NoticeReads, NoticeFiled, RunEnds,
             DeleteChecks, DeleteRows, NoteDelivered, ringVars
  <2>7. ASSUME NEW s \in Rings, RingStep(s) \/ LookHome(s) \/ OwnerBack(s), ~Check(s) PROVE FALSE
    <3>1. ASSUME Row(s), ~(\E a : To(s, a) /\ a # "count"), ~Drop(s) PROVE FALSE
      <4>1. ring' = [ring EXCEPT ![s].at = "order", ![s].unread = TRUE] /\ ring[s].at = "row"
        BY <3>1 DEF Row
      <4> QED BY <2>0, <4>1
    <3> QED BY <2>4, <2>5, <2>7, <3>1
         DEF RingStep, GraceEnds, LookAway, LookHome, Screen, Row, Order, Count, Sent, OwnerBack
  <2>8. ASSUME NEW s \in Rings, Check(s) PROVE ring'[r].excluded <=> seen >= ring[r].seq
    <3>1. /\ Valid(s)
          /\ ring' = [ring EXCEPT ![s].at = "count", ![s].excluded = (wm >= ring[s].seq)]
      BY <2>5, <2>8 DEF Check
    <3>2. s = r
      BY <2>0, <3>1
    <3>3. ring'[r].excluded = (wm >= ring[r].seq)
      BY <2>0, <2>00, <3>1, <3>2 DEF Ringing
    <3>4. deletion # "evicted"
      BY <2>00, <3>1, <3>2 DEF Valid, GateIInv, AfterInv
    <3>5. wm = seen
      BY <3>4 DEF GateIInv, BeforeInv
    <3> QED BY <3>3, <3>5
  <2> QED BY <2>6, <2>7, <2>8 DEF GateNext
<1> QED BY <1>1, GateInvariant, PTL DEF GateSpec, SeenNotRung, A
=============================================================================
