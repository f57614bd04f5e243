-------------------------- MODULE DeviceQueue_proofs --------------------------
(***************************************************************************)
(* Theorems about a phone's pushes, for any doorbells, tests, tokens,      *)
(* queues and numbers of workers that die.                                 *)
(*                                                                         *)
(* What the properties rest on: a delivery is in one place, a queue or the *)
(* hand of that queue's worker; one doorbell at a time is between its      *)
(* count and its queue, and carries the newest count; a row without a      *)
(* token cannot get one back once the phone is revoked.                    *)
(***************************************************************************)
EXTENDS DeviceQueue, FiniteSetTheorems, SequenceTheorems, WellFoundedInduction, TLAPS

(* The parts of the inductive invariant.                                   *)

\* A delivery that waits in a queue, or that its worker holds, was filed there, and is there once.
Waits(d, q) == d \in Members(queue[q].waiting)
PlaceInv ==
  \A q \in Queues :
    /\ \A d \in Deliveries : Waits(d, q) \/ worker[q].item = d => push[d].at = "filed" /\ push[d].queue = q
    /\ \A d \in Deliveries : Waits(d, q) => worker[q].item # d
    /\ \A j, k \in DOMAIN queue[q].waiting : queue[q].waiting[j] = queue[q].waiting[k] => j = k
    /\ worker[q].at \in Holding <=> worker[q].item # NoBell
    /\ q > made => worker[q].at = "none"

\* One doorbell is between its count and its queue; its count is the newest.
UnderWay == {"counted", "target", "handle"}
OrderInv ==
  /\ \A b \in Bells : push[b].at \in UnderWay => order = b /\ push[b].stamp = counted
  /\ \A d \in Deliveries : push[d].at = "handle" => push[d].queue # 0
  /\ counted = Cardinality({b \in Bells : push[b].at # "idle"})

\* What waits is newer than what the worker holds, and that than what it last posted.
AgeInv ==
  \A q \in Queues :
    /\ \A b \in Bells : Waits(b, q) \/ worker[q].item = b => last[q] <= push[b].stamp
    /\ \A b, c \in Bells : Waits(b, q) /\ worker[q].item = c => push[c].stamp <= push[b].stamp

\* The row holds the token last registered or none, and none once revoked.
RowInv ==
  /\ row.token # 0 => row.token = tokens /\ row.host \in Hosts /\ ~row.revoked
  /\ RefusedIsTheOne

\* A doorbell about to be posted was authorized before the revocation, if there was one.
LateInv ==
  /\ ~row.revoked => \A q \in Queues : late[q] = 0
  /\ \A q \in Queues : worker[q].at \in {"post", "retry"} /\ worker[q].item \in Bells => late[q] = 0
  /\ LateOnce

\* A worker goes only when its queue is closed; a queue that has work, or that was closed, wakes it.
Up(q) == worker[q].at \notin {"park", "ended"} \/ (worker[q].at = "park" /\ queue[q].wake)
SleepInv ==
  /\ \A d \in Deliveries : push[d].at = "filed" => \E q \in Queues : worker[q].item = d \/ Waits(d, q)
  /\ \A q \in Queues :
       /\ worker[q].at \in {"draining", "ended"} => queue[q].closed
       /\ queue[q].waiting # <<>> => Up(q) \/ retiring = q
       /\ queue[q].closed => worker[q].at = "ended" \/ Up(q) \/ retiring = q
       /\ queue[q].closed /\ worker[q].at = "take" => queue[q].wake \/ retiring = q

DIInv == TypeOK /\ PlaceInv /\ OrderInv /\ AgeInv /\ RowInv /\ LateInv /\ SleepInv /\ ClosedIsEmpty /\ QueuesAreShort

-----------------------------------------------------------------------------
(* Sequences with one element gone.                                        *)

\* A set of naturals that has a member has a least one.
LEMMA Least ==
  ASSUME NEW S \in SUBSET Nat, S # {}
  PROVE  \E k \in S : \A j \in S : k <= j
<1> DEFINE R == OpToRel(<, Nat)
<1>1. IsWellFoundedOn(R, Nat)
  BY NatLessThanWellFounded
<1>2. \E k \in S : \A j \in S : ~(<<j, k>> \in R)
  <2> HIDE DEF R
  <2> QED BY <1>1, WFMin
<1>3. \A j, k \in Nat : <<j, k>> \in R <=> j < k
  BY DEF OpToRel
<1> HIDE DEF R
<1>4. PICK k \in S : \A j \in S : ~(<<j, k>> \in R)
  BY <1>2
<1>5. ASSUME NEW j \in S PROVE k <= j
  <2>1. j \in Nat /\ k \in Nat
    OBVIOUS
  <2>2. ~(j < k)
    BY <1>3, <1>4, <2>1
  <2> QED BY <2>1, <2>2
<1> QED BY <1>5

\* Every member of a sequence but one keeps its turn.
Gone(r, s, k) ==
  /\ k \in DOMAIN s /\ Len(r) = Len(s) - 1
  /\ \A i \in 1..Len(r) : r[i] = IF i < k THEN s[i] ELSE s[i + 1]

\* Without removes one of its kind, if there is one.
LEMMA WithoutMakes ==
  ASSUME NEW s \in Seq(Deliveries), NEW kind
  PROVE  /\ Without(s, kind) \in Seq(Deliveries)
         /\ \/ /\ \A j \in DOMAIN s : s[j] \notin kind
               /\ Without(s, kind) = s
            \/ \E k \in DOMAIN s : s[k] \in kind /\ Gone(Without(s, kind), s, k)
<1>0. Len(s) \in Nat /\ DOMAIN s = 1..Len(s) /\ \A i \in 1..Len(s) : s[i] \in Deliveries
  OBVIOUS
<1>1. CASE \A j \in DOMAIN s : s[j] \notin kind
  BY <1>1 DEF Without
<1>2. CASE \E j \in DOMAIN s : s[j] \in kind
  <2> DEFINE k == Earliest(s, kind)
  <2>1. k \in DOMAIN s /\ s[k] \in kind
    <3> DEFINE S == {j \in DOMAIN s : s[j] \in kind}
    <3>1. \E j \in S : \A i \in S : j <= i
      <4>1. S \in SUBSET Nat /\ S # {}
        BY <1>0, <1>2
      <4> HIDE DEF S
      <4> QED BY <4>1, Least
    <3>2. PICK j \in S : \A i \in S : j <= i
      BY <3>1
    <3>3. j \in DOMAIN s /\ s[j] \in kind /\ \A i \in 1..j - 1 : s[i] \notin kind
      BY <1>0, <3>2
    <3> QED BY <3>3 DEF Earliest
  <2> HIDE DEF k
  <2>2. Without(s, kind) = SubSeq(s, 1, k - 1) \o SubSeq(s, k + 1, Len(s))
    BY <1>2 DEF Without, k
  <2> DEFINE a == SubSeq(s, 1, k - 1)
             b == SubSeq(s, k + 1, Len(s))
  <2>3. a \in Seq(Deliveries) /\ Len(a) = k - 1 /\ \A i \in 1..k - 1 : a[i] = s[i]
    <3>1. k \in Int /\ 1 \in Int /\ k - 1 \in Int /\ k >= 1 /\ \A i \in 1..k - 1 : s[i] \in Deliveries
      BY <1>0, <2>1
    <3>2. /\ SubSeq(s, 1, k - 1) \in Seq(Deliveries)
          /\ Len(SubSeq(s, 1, k - 1)) = IF 1 <= k - 1 THEN k - 1 - 1 + 1 ELSE 0
          /\ \A i \in 1..k - 1 - 1 + 1 : SubSeq(s, 1, k - 1)[i] = s[1 + i - 1]
      BY <3>1, SubSeqProperties
    <3> HIDE DEF a
    <3>3. a = SubSeq(s, 1, k - 1)
      BY DEF a
    <3> QED BY <3>1, <3>2, <3>3
  <2>4. b \in Seq(Deliveries) /\ Len(b) = Len(s) - k /\ \A i \in 1..Len(s) - k : b[i] = s[k + i]
    <3>1. k \in Int /\ k + 1 \in Int /\ Len(s) \in Int /\ k <= Len(s) /\ \A i \in k + 1..Len(s) : s[i] \in Deliveries
      BY <1>0, <2>1
    <3>2. /\ SubSeq(s, k + 1, Len(s)) \in Seq(Deliveries)
          /\ Len(SubSeq(s, k + 1, Len(s))) = IF k + 1 <= Len(s) THEN Len(s) - (k + 1) + 1 ELSE 0
          /\ \A i \in 1..Len(s) - (k + 1) + 1 : SubSeq(s, k + 1, Len(s))[i] = s[k + 1 + i - 1]
      BY <3>1, SubSeqProperties
    <3> HIDE DEF b
    <3>3. b = SubSeq(s, k + 1, Len(s))
      BY DEF b
    <3> QED BY <3>1, <3>2, <3>3
  <2> HIDE DEF a, b
  <2>5. /\ a \o b \in Seq(Deliveries) /\ Len(a \o b) = Len(a) + Len(b)
        /\ \A i \in 1..Len(a) + Len(b) : (a \o b)[i] = IF i <= Len(a) THEN a[i] ELSE b[i - Len(a)]
    BY <2>3, <2>4, ConcatProperties
  <2> DEFINE r == a \o b
  <2>6. Without(s, kind) = r
    BY <2>2 DEF a, b
  <2> HIDE DEF r
  <2>7. /\ r \in Seq(Deliveries) /\ Len(r) = Len(s) - 1
        /\ \A i \in 1..Len(r) : r[i] = IF i <= k - 1 THEN a[i] ELSE b[i - (k - 1)]
    BY <1>0, <2>1, <2>3, <2>4, <2>5 DEF r
  <2>8. \A i \in 1..Len(r) : r[i] = IF i < k THEN s[i] ELSE s[i + 1]
    <3> SUFFICES ASSUME NEW i \in 1..Len(r)
        PROVE  r[i] = IF i < k THEN s[i] ELSE s[i + 1]
      OBVIOUS
    <3>0. k \in 1..Len(s) /\ i \in Nat /\ i >= 1 /\ i <= Len(s) - 1
      BY <1>0, <2>1, <2>7
    <3>1. CASE i < k
      <4>1. i <= k - 1 /\ i \in 1..k - 1
        BY <3>0, <3>1
      <4> QED BY <2>3, <2>7, <3>1, <4>1
    <3>2. CASE ~(i < k)
      <4>1. i - (k - 1) \in 1..Len(s) - k /\ k + (i - (k - 1)) = i + 1
        BY <1>0, <3>0, <3>2
      <4>2. ~(i <= k - 1)
        BY <1>0, <3>0, <3>2
      <4>3. b[i - (k - 1)] = s[k + (i - (k - 1))]
        BY <2>4, <4>1
      <4> QED BY <2>7, <3>2, <4>1, <4>2, <4>3
    <3> QED BY <3>1, <3>2
  <2> QED BY <2>1, <2>6, <2>7, <2>8 DEF Gone
<1> QED BY <1>1, <1>2

\* What is gone was there once; what stays is in the same order.
LEMMA GoneKeeps ==
  ASSUME NEW s \in Seq(Deliveries), NEW r \in Seq(Deliveries), NEW k, Gone(r, s, k)
  PROVE  /\ \A i \in DOMAIN r : \E j \in DOMAIN s : j # k /\ r[i] = s[j]
         /\ \A j \in DOMAIN s : j # k => \E i \in DOMAIN r : r[i] = s[j]
         /\ (\A i, j \in DOMAIN s : s[i] = s[j] => i = j) => \A i, j \in DOMAIN r : r[i] = r[j] => i = j
<1>0. Len(s) \in Nat /\ DOMAIN s = 1..Len(s) /\ Len(r) \in Nat /\ DOMAIN r = 1..Len(r) /\ k \in 1..Len(s)
      /\ Len(r) = Len(s) - 1
  BY DEF Gone
<1>1. \A i \in 1..Len(r) : r[i] = IF i < k THEN s[i] ELSE s[i + 1]
  BY DEF Gone
<1>2. \A i \in DOMAIN r : \E j \in DOMAIN s : j # k /\ r[i] = s[j]
  <2> SUFFICES ASSUME NEW i \in 1..Len(r)
      PROVE  \E j \in 1..Len(s) : j # k /\ r[i] = s[j]
    BY <1>0
  <2>1. CASE i < k
    BY <1>0, <1>1, <2>1
  <2>2. CASE ~(i < k)
    <3>1. i + 1 \in 1..Len(s) /\ i + 1 # k /\ r[i] = s[i + 1]
      BY <1>0, <1>1, <2>2
    <3> QED BY <3>1
  <2> QED BY <2>1, <2>2
<1>3. ASSUME NEW j \in 1..Len(s), j # k PROVE \E i \in 1..Len(r) : r[i] = s[j]
  <2>1. CASE j < k
    BY <1>0, <1>1, <2>1
  <2>2. CASE ~(j < k)
    <3>1. j - 1 \in 1..Len(r) /\ ~(j - 1 < k) /\ j - 1 + 1 = j
      BY <1>0, <1>3, <2>2
    <3>2. r[j - 1] = s[j]
      BY <1>1, <3>1
    <3> QED BY <3>1, <3>2
  <2> QED BY <2>1, <2>2
<1>4. ASSUME \A i, j \in 1..Len(s) : s[i] = s[j] => i = j,
             NEW i \in 1..Len(r), NEW j \in 1..Len(r), r[i] = r[j]
      PROVE  i = j
  <2> DEFINE x(n) == IF n < k THEN n ELSE n + 1
  <2>1. x(i) \in 1..Len(s) /\ x(j) \in 1..Len(s) /\ r[i] = s[x(i)] /\ r[j] = s[x(j)]
    BY <1>0, <1>1
  <2>2. x(i) = x(j)
    BY <1>4, <2>1
  <2> QED BY <1>0, <2>2
<1> QED BY <1>0, <1>2, <1>3, <1>4

\* No delivery twice; one doorbell, and no more tests than MAX_WAITING.
Once(s) == \A j, k \in DOMAIN s : s[j] = s[k] => j = k
Short(s) ==
  /\ \A j, k \in DOMAIN s : s[j] \in Bells /\ s[k] \in Bells => j = k
  /\ Len(s) <= MaxWaiting + IF \E k \in DOMAIN s : s[k] \in Bells THEN 1 ELSE 0

\* A doorbell makes room for itself ...
LEMMA CoalescedMakes ==
  ASSUME NEW d \in Deliveries, NEW s \in Seq(Deliveries), Once(s), Short(s)
  PROVE  LET c == Coalesced(d, s) IN
         /\ c \in Seq(Deliveries) /\ Once(c) /\ Short(c) /\ Members(c) \subseteq Members(s)
         /\ d \in Bells => Len(c) <= MaxWaiting /\ \A k \in DOMAIN c : c[k] \notin Bells
<1>0. Len(s) \in Nat /\ DOMAIN s = 1..Len(s) /\ MaxWaiting \in Nat
  BY QueueAssumption
<1>1. CASE d \notin Bells
  BY <1>1 DEF Coalesced
<1>2. CASE d \in Bells
  <2> DEFINE c == Without(s, Bells)
  <2>0. Coalesced(d, s) = c
    BY <1>2 DEF Coalesced
  <2>1. /\ c \in Seq(Deliveries)
        /\ \/ (\A j \in DOMAIN s : s[j] \notin Bells) /\ c = s
           \/ \E k \in DOMAIN s : s[k] \in Bells /\ Gone(c, s, k)
    BY WithoutMakes
  <2> HIDE DEF c
  <2>2. CASE (\A j \in DOMAIN s : s[j] \notin Bells) /\ c = s
    BY <1>0, <2>0, <2>2 DEF Short
  <2>3. ASSUME NEW k \in DOMAIN s, s[k] \in Bells, Gone(c, s, k)
        PROVE  /\ Once(c) /\ Members(c) \subseteq Members(s) /\ Len(c) <= MaxWaiting
               /\ \A i \in DOMAIN c : c[i] \notin Bells
    <3>1. /\ \A i \in DOMAIN c : \E j \in DOMAIN s : j # k /\ c[i] = s[j]
          /\ Once(c)
      BY <2>1, <2>3, GoneKeeps DEF Once
    <3>2. \A i \in DOMAIN c : c[i] \notin Bells
      BY <2>3, <3>1 DEF Short
    <3>3. Members(c) \subseteq Members(s)
      BY <3>1 DEF Members
    <3>4. Len(c) = Len(s) - 1 /\ Len(s) <= MaxWaiting + 1
      BY <1>0, <2>3 DEF Gone, Short
    <3> QED BY <1>0, <3>1, <3>2, <3>3, <3>4
  <2>4. Len(c) \in Nat
    BY <2>1
  <2> QED BY <1>0, <2>0, <2>1, <2>2, <2>3, <2>4 DEF Short
<1> QED BY <1>1, <1>2

\* ... and a full queue gives up a test.
LEMMA TrimmedMakes ==
  ASSUME NEW c \in Seq(Deliveries), Once(c), Short(c)
  PROVE  LET t == Trimmed(c) IN
         /\ t \in Seq(Deliveries) /\ Once(t) /\ Members(t) \subseteq Members(c) /\ Len(t) <= Len(c)
         /\ \A j, k \in DOMAIN t : t[j] \in Bells /\ t[k] \in Bells => j = k
         /\ (\E k \in DOMAIN t : t[k] \in Bells) <=> (\E k \in DOMAIN c : c[k] \in Bells)
         /\ Len(t) + 1 <= MaxWaiting + IF \E k \in DOMAIN t : t[k] \in Bells THEN 1 ELSE 0
<1>0. /\ Len(c) \in Nat /\ DOMAIN c = 1..Len(c) /\ MaxWaiting \in Nat \ {0}
      /\ \A k \in DOMAIN c : c[k] \in Bells <=> c[k] \notin Tests
  BY QueueAssumption DEF Deliveries
<1>1. CASE Len(c) < MaxWaiting
  BY <1>0, <1>1 DEF Trimmed, Short
<1>2. CASE Len(c) >= MaxWaiting
  <2> DEFINE t == Without(c, Tests)
  <2>0. Trimmed(c) = t
    BY <1>2 DEF Trimmed
  <2>1. /\ t \in Seq(Deliveries)
        /\ \/ (\A j \in DOMAIN c : c[j] \notin Tests) /\ t = c
           \/ \E k \in DOMAIN c : c[k] \in Tests /\ Gone(t, c, k)
    BY WithoutMakes
  <2> HIDE DEF t
  <2>2. CASE (\A j \in DOMAIN c : c[j] \notin Tests) /\ t = c
    <3>1. 1 \in DOMAIN c /\ Len(c) \in DOMAIN c /\ c[1] \in Bells /\ c[Len(c)] \in Bells
      BY <1>0, <1>2, <2>2
    <3>2. Len(c) = 1
      BY <3>1 DEF Short
    <3> QED BY <1>0, <2>0, <2>2, <3>1, <3>2 DEF Short
  <2>3. ASSUME NEW k \in DOMAIN c, c[k] \in Tests, Gone(t, c, k)
        PROVE  /\ Once(t) /\ Members(t) \subseteq Members(c) /\ Len(t) = Len(c) - 1
               /\ \A i, j \in DOMAIN t : t[i] \in Bells /\ t[j] \in Bells => i = j
               /\ (\E i \in DOMAIN t : t[i] \in Bells) <=> (\E i \in DOMAIN c : c[i] \in Bells)
    <3>1. /\ \A i \in DOMAIN t : \E j \in DOMAIN c : j # k /\ t[i] = c[j]
          /\ \A j \in DOMAIN c : j # k => \E i \in DOMAIN t : t[i] = c[j]
          /\ Once(t)
      BY <2>1, <2>3, GoneKeeps DEF Once
    <3>2. \A i, j \in DOMAIN t : t[i] \in Bells /\ t[j] \in Bells => t[i] = t[j]
      BY <3>1 DEF Short
    <3>3. (\E i \in DOMAIN t : t[i] \in Bells) <=> (\E i \in DOMAIN c : c[i] \in Bells)
      BY <1>0, <2>3, <3>1
    <3>4. Members(t) \subseteq Members(c)
      BY <3>1 DEF Members
    <3> QED BY <2>3, <3>1, <3>2, <3>3, <3>4 DEF Gone, Once
  <2>4. CASE \E k \in DOMAIN c : c[k] \in Tests /\ Gone(t, c, k)
    <3>1. /\ Once(t) /\ Members(t) \subseteq Members(c) /\ Len(t) = Len(c) - 1
          /\ \A i, j \in DOMAIN t : t[i] \in Bells /\ t[j] \in Bells => i = j
          /\ (\E i \in DOMAIN t : t[i] \in Bells) <=> (\E i \in DOMAIN c : c[i] \in Bells)
      BY <2>3, <2>4
    <3>2. Len(t) + 1 <= MaxWaiting + IF \E k \in DOMAIN t : t[k] \in Bells THEN 1 ELSE 0
      BY <1>0, <3>1 DEF Short
    <3> QED BY <1>0, <2>0, <2>1, <3>1, <3>2
  <2> QED BY <2>1, <2>2, <2>4
<1> QED BY <1>0, <1>1, <1>2

\* A delivery is filed behind the others.
LEMMA NowMakes ==
  ASSUME NEW d \in Deliveries, NEW was \in Seq(Deliveries), d \notin Members(was), Once(was), Short(was)
  PROVE  LET now == Append(Trimmed(Coalesced(d, was)), d) IN
         /\ now \in Seq(Deliveries) /\ Once(now) /\ Short(now)
         /\ d \in Members(now) /\ Members(now) \subseteq Members(was) \cup {d}
<1> DEFINE c == Coalesced(d, was)
           t == Trimmed(c)
           now == Append(t, d)
<1>1. /\ c \in Seq(Deliveries) /\ Once(c) /\ Short(c) /\ Members(c) \subseteq Members(was)
      /\ d \in Bells => Len(c) <= MaxWaiting /\ \A k \in DOMAIN c : c[k] \notin Bells
  BY CoalescedMakes
<1> HIDE DEF c
<1>2. /\ t \in Seq(Deliveries) /\ Once(t) /\ Members(t) \subseteq Members(c) /\ Len(t) <= Len(c)
      /\ \A j, k \in DOMAIN t : t[j] \in Bells /\ t[k] \in Bells => j = k
      /\ (\E k \in DOMAIN t : t[k] \in Bells) <=> (\E k \in DOMAIN c : c[k] \in Bells)
      /\ Len(t) + 1 <= MaxWaiting + IF \E k \in DOMAIN t : t[k] \in Bells THEN 1 ELSE 0
  BY <1>1, TrimmedMakes
<1> HIDE DEF t
<1>3. /\ now \in Seq(Deliveries) /\ Len(now) = Len(t) + 1 /\ now[Len(t) + 1] = d
      /\ \A k \in 1..Len(t) : now[k] = t[k]
      /\ DOMAIN now = 1..Len(t) + 1 /\ DOMAIN t = 1..Len(t) /\ Len(t) \in Nat /\ Len(c) \in Nat
      /\ MaxWaiting \in Nat
  BY <1>1, <1>2, QueueAssumption
<1> HIDE DEF now
<1>4. d \in Members(now) /\ Members(now) \subseteq Members(was) \cup {d}
  <2>1. Len(t) + 1 \in DOMAIN now
    BY <1>3
  <2>2. d \in Members(now)
    BY <1>3, <2>1 DEF Members
  <2>3. ASSUME NEW k \in DOMAIN now PROVE now[k] = d \/ now[k] \in Members(t)
    <3>1. k = Len(t) + 1 \/ k \in 1..Len(t)
      BY <1>3
    <3> QED BY <1>3, <3>1 DEF Members
  <2>4. Members(now) \subseteq Members(t) \cup {d}
    BY <2>3 DEF Members
  <2> QED BY <1>1, <1>2, <2>2, <2>4
<1>5. \A k \in 1..Len(t) : t[k] # d
  BY <1>1, <1>2, <1>3 DEF Members
<1>6. Once(now)
  <2> SUFFICES ASSUME NEW i \in 1..Len(t) + 1, NEW j \in 1..Len(t) + 1, now[i] = now[j]
      PROVE  i = j
    BY <1>3 DEF Once
  <2>1. CASE i \in 1..Len(t) /\ j \in 1..Len(t)
    BY <1>2, <1>3, <2>1 DEF Once
  <2>2. CASE i = Len(t) + 1 /\ j \in 1..Len(t)
    BY <1>3, <1>5, <2>2
  <2>3. CASE i \in 1..Len(t) /\ j = Len(t) + 1
    BY <1>3, <1>5, <2>3
  <2> QED BY <1>3, <2>1, <2>2, <2>3
<1>7. Short(now)
  <2>1. CASE d \in Bells
    <3>1. \A k \in 1..Len(t) : t[k] \notin Bells
      BY <1>1, <1>2, <1>3, <2>1
    <3>2. \A j, k \in DOMAIN now : now[j] \in Bells /\ now[k] \in Bells => j = k
      BY <1>3, <3>1
    <3>3. \E k \in DOMAIN now : now[k] \in Bells
      BY <1>3, <2>1
    <3>4. Len(now) <= MaxWaiting + 1
      BY <1>1, <1>2, <1>3, <2>1
    <3> QED BY <1>3, <3>2, <3>3, <3>4 DEF Short
  <2>2. CASE d \notin Bells
    <3>1. \A j, k \in DOMAIN now : now[j] \in Bells /\ now[k] \in Bells => j = k
      BY <1>2, <1>3, <2>2
    <3>2. (\E k \in DOMAIN now : now[k] \in Bells) <=> (\E k \in DOMAIN t : t[k] \in Bells)
      BY <1>3, <2>2
    <3> QED BY <1>2, <1>3, <3>1, <3>2 DEF Short
  <2> QED BY <2>1, <2>2
<1> QED BY <1>3, <1>4, <1>6, <1>7 DEF now, t, c

-----------------------------------------------------------------------------
(* The type invariant, by variable, and what the actions' operators do.    *)

PushAt == {"idle", "counted", "target", "handle", "filed", "done"}
PushRec == [at : PushAt, token : 0..tokens, host : Hosts, queue : 0..made, stamp : 0..counted]
QueueRec == [waiting : Seq(Deliveries), closed : BOOLEAN, wake : BOOLEAN]
WorkerAt == {"none", "top", "take", "park", "closing", "draining", "ended"} \cup Holding
WorkerRec == [at : WorkerAt, item : Deliveries \cup {NoBell}]

RowType == /\ row \in [token : 0..tokens, host : Hosts \cup {"none"}, revoked : BOOLEAN]
           /\ tokens \in 0..MaxTokens /\ leaving \in Nat /\ dead \in BOOLEAN
BellType == order \in Bells \cup {NoBell} /\ counted \in 0..Cardinality(Bells)
PushType == push \in [Deliveries -> PushRec]
QueueType == queue \in [Queues -> QueueRec]
MapType == made \in 0..MaxQueues /\ current \in 0..made /\ retiring \in 0..made
WorkerType == worker \in [Queues -> WorkerRec] /\ panics \in 0..MaxPanics
PostType == last \in [Queues -> 0..counted] /\ late \in [Queues -> Nat]

\* The parts together are the type invariant.
LEMMA TypeParts ==
  TypeOK <=> RowType /\ BellType /\ PushType /\ QueueType /\ MapType /\ WorkerType /\ PostType
BY DEF TypeOK, RowType, BellType, PushType, QueueType, MapType, WorkerType, PostType, PushAt, PushRec,
       QueueRec, WorkerAt, WorkerRec

\* The counters are naturals.
LEMMA Numbers ==
  ASSUME TypeOK
  PROVE  /\ tokens \in Nat /\ made \in Nat /\ counted \in Nat /\ Cardinality(Bells) \in Nat
         /\ MaxTokens \in Nat /\ MaxQueues \in Nat /\ MaxPanics \in Nat /\ panics \in Nat
         /\ current \in Nat /\ retiring \in Nat
<1>1. Cardinality(Bells) \in Nat
  BY QueueAssumption, FS_CardinalityType
<1> QED BY <1>1, QueueAssumption, TypeParts DEF RowType, BellType, MapType, WorkerType

\* The record of a delivery that is over.
LEMMA DoneShape ==
  ASSUME TypeOK
  PROVE  /\ Done \in PushRec /\ Done.at = "done" /\ Done.stamp = 0
BY Numbers DEF Done, Idle, PushRec, PushAt, Hosts

\* Nobody is called "none", and a delivery is a doorbell or a test.
LEMMA Kinds ==
  /\ \A d \in Deliveries : d # NoBell /\ (d \in Bells <=> d \notin Tests)
  /\ Bells \subseteq Deliveries /\ Tests \subseteq Deliveries
BY QueueAssumption DEF Deliveries, NoBell

\* A delivery's record replaced.
LEMMA PushSet ==
  ASSUME PushType, NEW d \in Deliveries, NEW x, push' = [push EXCEPT ![d] = x]
  PROVE  push'[d] = x /\ \A e \in Deliveries : e # d => push'[e] = push[e]
BY DEF PushType

\* Deliveries settled.
LEMMA SettledMakes ==
  ASSUME NEW p, NEW S, push' = Settled(p, S)
  PROVE  \A d \in Deliveries : push'[d] = IF d \in S THEN Done ELSE p[d]
BY DEF Settled

\* A function's type, from its values.
LEMMA PushTyped ==
  ASSUME push' = [d \in Deliveries |-> push'[d]], \A d \in Deliveries : push'[d] \in PushRec'
  PROVE  PushType'
BY DEF PushType

\* A worker turns to another state with the delivery it holds.
LEMMA WorksMakes ==
  ASSUME WorkerType, NEW q \in Queues, NEW a \in WorkerAt, Works(q, a)
  PROVE  /\ worker' \in [Queues -> WorkerRec] /\ worker'[q].at = a /\ worker'[q].item = worker[q].item
         /\ \A p \in Queues : p # q => worker'[p] = worker[p]
<1> DEFINE x == [worker[q] EXCEPT !.at = a]
<1>1. worker' = [worker EXCEPT ![q] = x] /\ worker \in [Queues -> WorkerRec]
  BY DEF Works, WorkerType
<1>2. x \in WorkerRec /\ x.at = a /\ x.item = worker[q].item
  BY <1>1 DEF WorkerRec
<1> HIDE DEF x
<1> QED BY <1>1, <1>2

\* ... or to another delivery, or none.
LEMMA WorkerSet ==
  ASSUME WorkerType, NEW q \in Queues, NEW a \in WorkerAt, NEW d \in Deliveries \cup {NoBell},
         worker' = [worker EXCEPT ![q] = [at |-> a, item |-> d]]
  PROVE  /\ worker' \in [Queues -> WorkerRec] /\ worker'[q].at = a /\ worker'[q].item = d
         /\ \A p \in Queues : p # q => worker'[p] = worker[p]
<1> DEFINE x == [at |-> a, item |-> d]
<1>1. x \in WorkerRec /\ x.at = a /\ x.item = d /\ worker \in [Queues -> WorkerRec]
  BY DEF WorkerRec, WorkerType
<1> HIDE DEF x
<1>2. worker' = [worker EXCEPT ![q] = x]
  BY DEF x
<1> QED BY <1>1, <1>2

\* An attempt is over.
LEMMA FinishMakes ==
  ASSUME TypeOK, NEW q \in Queues, NEW next \in {"top", "closing"}, Finish(q, next)
  PROVE  /\ worker' \in [Queues -> WorkerRec] /\ worker'[q].at = next /\ worker'[q].item = NoBell
         /\ \A p \in Queues : p # q => worker'[p] = worker[p]
         /\ push' = [d \in Deliveries |-> push'[d]]
         /\ \A d \in Deliveries : push'[d] = IF d = worker[q].item THEN Done ELSE push[d]
<1>1. WorkerType
  BY TypeParts
<1>2. push' = Settled(push, {worker[q].item})
  BY DEF Finish
<1>3. \A d \in Deliveries : push'[d] = IF d = worker[q].item THEN Done ELSE push[d]
  BY <1>2, SettledMakes
<1>4. push' = [d \in Deliveries |-> push'[d]]
  BY <1>2 DEF Settled
<1>5. worker' = [worker EXCEPT ![q] = [at |-> next, item |-> NoBell]] /\ next \in WorkerAt
  BY DEF Finish, WorkerAt
<1> QED BY <1>1, <1>3, <1>4, <1>5, WorkerSet

\* A queue's record replaced.
LEMMA QueueSet ==
  ASSUME QueueType, NEW q \in Queues, NEW x \in QueueRec, queue' = [queue EXCEPT ![q] = x]
  PROVE  QueueType' /\ queue'[q] = x /\ \A p \in Queues : p # q => queue'[p] = queue[p]
BY DEF QueueType

\* A queue is drained and what waited is settled.
LEMMA DrainMakes ==
  ASSUME TypeOK, NEW q \in Queues, Drain(q)
  PROVE  /\ QueueType' /\ queue'[q].waiting = <<>> /\ queue'[q].closed = queue[q].closed /\ queue'[q].wake
         /\ \A p \in Queues : p # q => queue'[p] = queue[p]
         /\ push' = [d \in Deliveries |-> push'[d]]
         /\ \A d \in Deliveries : push'[d] = IF Waits(d, q) THEN Done ELSE push[d]
<1>1. QueueType /\ queue[q] \in QueueRec
  BY TypeParts DEF QueueType
<1>2. push' = Settled(push, Members(queue[q].waiting))
  BY DEF Drain
<1>3. push' = [d \in Deliveries |-> push'[d]]
  BY <1>2 DEF Settled
<1>4. \A d \in Deliveries : push'[d] = IF Waits(d, q) THEN Done ELSE push[d]
  BY <1>2, SettledMakes DEF Waits
<1>5. queue' = [queue EXCEPT ![q].waiting = <<>>, ![q].wake = TRUE]
  BY DEF Drain
<1> DEFINE x == [queue[q] EXCEPT !.waiting = <<>>, !.wake = TRUE]
<1>6. queue' = [queue EXCEPT ![q] = x]
  BY <1>1, <1>5 DEF QueueType
<1>7. x \in QueueRec /\ x.waiting = <<>> /\ x.closed = queue[q].closed /\ x.wake = TRUE
  <2>1. <<>> \in Seq(Deliveries)
    OBVIOUS
  <2> QED BY <1>1, <2>1 DEF QueueRec
<1> HIDE DEF x
<1> QED BY <1>1, <1>3, <1>4, <1>6, <1>7, QueueSet

-----------------------------------------------------------------------------
(* What a worker's step makes of its queue and its delivery.               *)

\* A worker moves on with what it holds, and nothing that waits moves.
Turns(q) ==
  /\ UNCHANGED <<push, mapVars, bellVars>> /\ QueueType'
  /\ worker' \in [Queues -> WorkerRec] /\ worker'[q].item = worker[q].item
  /\ \A p \in Queues : p # q => worker'[p] = worker[p] /\ queue'[p] = queue[p]
  /\ queue'[q].waiting = queue[q].waiting
  /\ \/ /\ worker[q].at = "top" /\ worker'[q].at = (IF queue[q].closed THEN "ended" ELSE "take")
        /\ UNCHANGED queue
     \/ /\ worker[q].at = "take" /\ worker'[q].at = "park" /\ queue[q].waiting = <<>>
        /\ UNCHANGED queue
     \/ /\ worker[q].at = "park" /\ worker'[q].at = "top" /\ queue'[q].closed = queue[q].closed
     \/ /\ worker[q].at \in Holding /\ worker'[q].at \in Holding /\ UNCHANGED queue
     \/ /\ worker[q].at = "closing" /\ worker'[q].at = "draining" /\ queue'[q].closed

\* A worker is done with what it held.
Finishes(q) ==
  /\ UNCHANGED <<queue, mapVars, bellVars>>
  /\ worker' \in [Queues -> WorkerRec] /\ worker'[q].item = NoBell
  /\ worker[q].at \in Holding /\ worker'[q].at \in {"top", "closing"}
  /\ \A p \in Queues : p # q => worker'[p] = worker[p]
  /\ push' = [d \in Deliveries |-> push'[d]]
  /\ \A d \in Deliveries : push'[d] = IF d = worker[q].item THEN Done ELSE push[d]

\* A worker takes the delivery at the head of its queue.
TakesOne(q) ==
  /\ UNCHANGED <<push, mapVars, bellVars>> /\ QueueType'
  /\ worker' \in [Queues -> WorkerRec]
  /\ worker[q].at = "take" /\ worker'[q].at \in {"check", "post"}
  /\ queue[q].waiting # <<>> /\ worker'[q].item = Head(queue[q].waiting)
  /\ worker'[q].item \in Bells => worker'[q].at = "check"
  /\ queue'[q].waiting = Tail(queue[q].waiting)
  /\ queue'[q].closed = queue[q].closed /\ queue'[q].wake = queue[q].wake
  /\ \A p \in Queues : p # q => worker'[p] = worker[p] /\ queue'[p] = queue[p]

\* A worker drains the queue it closed and returns.
Drains(q) ==
  /\ UNCHANGED <<mapVars, bellVars>> /\ Drain(q)
  /\ worker' \in [Queues -> WorkerRec] /\ worker[q].at = "draining" /\ worker'[q].at = "ended"
  /\ worker'[q].item = worker[q].item
  /\ \A p \in Queues : p # q => worker'[p] = worker[p]

\* Only one field of a queue's record changes.
LEMMA FlagsMake ==
  ASSUME TypeOK, NEW q \in Queues,
         \/ queue' = [queue EXCEPT ![q].wake = FALSE] /\ UNCHANGED push
         \/ queue' = [queue EXCEPT ![q].closed = TRUE] /\ UNCHANGED push
  PROVE  /\ QueueType' /\ queue'[q].waiting = queue[q].waiting
         /\ \A p \in Queues : p # q => queue'[p] = queue[p]
         /\ queue' = [queue EXCEPT ![q].wake = FALSE] => queue'[q].closed = queue[q].closed
         /\ queue' = [queue EXCEPT ![q].closed = TRUE] => queue'[q].closed /\ queue'[q].wake = queue[q].wake
<1>1. QueueType /\ queue[q] \in QueueRec
  BY TypeParts DEF QueueType
<1> DEFINE x == [queue[q] EXCEPT !.wake = FALSE]
           y == [queue[q] EXCEPT !.closed = TRUE]
<1>2. x \in QueueRec /\ x.waiting = queue[q].waiting /\ x.closed = queue[q].closed
  BY <1>1 DEF QueueRec
<1>3. y \in QueueRec /\ y.waiting = queue[q].waiting /\ y.closed = TRUE /\ y.wake = queue[q].wake
  BY <1>1 DEF QueueRec
<1>4. /\ queue' = [queue EXCEPT ![q].wake = FALSE] => queue' = [queue EXCEPT ![q] = x]
      /\ queue' = [queue EXCEPT ![q].closed = TRUE] => queue' = [queue EXCEPT ![q] = y]
  BY <1>1 DEF QueueType
<1> HIDE DEF x, y
<1>5. queue' = [queue EXCEPT ![q].wake = FALSE] =>
        QueueType' /\ queue'[q] = x /\ \A p \in Queues : p # q => queue'[p] = queue[p]
  BY <1>1, <1>2, <1>4, QueueSet
<1>6. queue' = [queue EXCEPT ![q].closed = TRUE] =>
        QueueType' /\ queue'[q] = y /\ \A p \in Queues : p # q => queue'[p] = queue[p]
  BY <1>1, <1>3, <1>4, QueueSet
<1> QED BY <1>2, <1>3, <1>5, <1>6

\* A worker that takes.
LEMMA TakeMakes ==
  ASSUME TypeOK, NEW q \in Queues, Take(q), queue[q].waiting # <<>>
  PROVE  TakesOne(q)
<1>1. QueueType /\ WorkerType /\ queue[q] \in QueueRec
  BY TypeParts DEF QueueType
<1> DEFINE d == Head(queue[q].waiting)
           x == [queue[q] EXCEPT !.waiting = Tail(queue[q].waiting)]
           a == IF d \in Bells THEN "check" ELSE "post"
<1>2. d \in Deliveries /\ Tail(queue[q].waiting) \in Seq(Deliveries)
  BY <1>1, HeadTailProperties DEF QueueRec
<1>3. x \in QueueRec /\ x.waiting = Tail(queue[q].waiting) /\ x.closed = queue[q].closed /\ x.wake = queue[q].wake
  BY <1>1, <1>2 DEF QueueRec
<1>4. queue' = [queue EXCEPT ![q] = x] /\ worker' = [worker EXCEPT ![q] = [at |-> a, item |-> d]]
  BY <1>1 DEF Take, QueueType
<1>5. worker[q].at = "take" /\ UNCHANGED <<push, mapVars, bellVars>>
  BY DEF Take, WorkOnly
<1>6. a \in WorkerAt /\ a \in {"check", "post"} /\ (d \in Bells => a = "check")
  BY DEF WorkerAt, Holding
<1> HIDE DEF x, d, a
<1>7. QueueType' /\ queue'[q] = x /\ \A p \in Queues : p # q => queue'[p] = queue[p]
  BY <1>1, <1>3, <1>4, QueueSet
<1>8. /\ worker' \in [Queues -> WorkerRec] /\ worker'[q].at = a /\ worker'[q].item = d
      /\ \A p \in Queues : p # q => worker'[p] = worker[p]
  BY <1>1, <1>2, <1>4, <1>6, WorkerSet
<1> QED BY <1>3, <1>5, <1>6, <1>7, <1>8 DEF TakesOne, d

\* Every step of a worker is one of these.
LEMMA WorkerKinds ==
  ASSUME TypeOK, NEW q \in Queues, WorkerStep(q) \/ Panic(q)
  PROVE  Turns(q) \/ Finishes(q) \/ TakesOne(q) \/ Drains(q)
<1>0. WorkerType /\ QueueType /\ PushType
  BY TypeParts
<1> USE DEF WorkOnly
<1>1. ASSUME NEW a \in WorkerAt, Works(q, a), UNCHANGED <<push, mapVars, bellVars, queue>>,
             \/ worker[q].at = "top" /\ a = (IF queue[q].closed THEN "ended" ELSE "take")
             \/ worker[q].at = "take" /\ a = "park" /\ queue[q].waiting = <<>>
             \/ worker[q].at \in Holding /\ a \in Holding
      PROVE  Turns(q)
  <2>1. /\ worker' \in [Queues -> WorkerRec] /\ worker'[q].at = a /\ worker'[q].item = worker[q].item
        /\ \A p \in Queues : p # q => worker'[p] = worker[p]
    BY <1>0, <1>1, WorksMakes
  <2>2. QueueType'
    BY <1>0, <1>1 DEF QueueType
  <2> QED BY <1>1, <2>1, <2>2 DEF Turns
<1>2. ASSUME NEW next \in {"top", "closing"}, Finish(q, next), worker[q].at \in Holding,
             UNCHANGED <<queue, mapVars, bellVars>>
      PROVE  Finishes(q)
  BY <1>2, FinishMakes DEF Finishes
<1>3. CASE Top(q)
  <2> DEFINE a == IF queue[q].closed THEN "ended" ELSE "take"
  <2>1. a \in WorkerAt
    BY DEF WorkerAt
  <2> QED BY <1>1, <1>3, <2>1 DEF Top
<1>4. CASE Take(q)
  <2>1. CASE queue[q].waiting = <<>>
    BY <1>1, <1>4, <2>1 DEF Take, WorkerAt
  <2> QED BY <1>4, <2>1, TakeMakes
<1>5. CASE Woken(q)
  <2>1. Works(q, "top") /\ queue' = [queue EXCEPT ![q].wake = FALSE] /\ worker[q].at = "park"
        /\ UNCHANGED <<push, mapVars, bellVars>> /\ "top" \in WorkerAt
    BY <1>5 DEF Woken, WorkerAt
  <2>2. /\ worker' \in [Queues -> WorkerRec] /\ worker'[q].at = "top" /\ worker'[q].item = worker[q].item
        /\ \A p \in Queues : p # q => worker'[p] = worker[p]
    BY <1>0, <2>1, WorksMakes
  <2> QED BY <2>1, <2>2, FlagsMake DEF Turns
<1>6. CASE Authorize(q)
  BY <1>1, <1>2, <1>6 DEF Authorize, WorkerAt, Holding
<1>7. CASE Post(q)
  <2> DEFINE a == IF worker[q].at = "post" THEN "sent" ELSE "resent"
  <2>1. a \in WorkerAt /\ a \in Holding
    BY DEF WorkerAt, Holding
  <2>2. Works(q, a) /\ worker[q].at \in Holding /\ UNCHANGED <<push, mapVars, bellVars, queue>>
    BY <1>7 DEF Post, Holding
  <2> HIDE DEF a
  <2> QED BY <1>1, <2>1, <2>2
<1>8. CASE Accepted(q)
  BY <1>2, <1>8 DEF Accepted, Holding
<1>9. CASE Disowned(q)
  <2>1. PICK next \in {"top", "closing"} : Finish(q, next)
    BY <1>9 DEF Disowned
  <2> QED BY <1>2, <1>9, <2>1 DEF Disowned, Holding
<1>10. CASE WrongHost(q)
  BY <1>1, <1>10 DEF WrongHost, WorkerAt, Holding
<1>11. CASE Recheck(q)
  BY <1>1, <1>2, <1>11 DEF Recheck, WorkerAt, Holding
<1>12. CASE Failed(q)
  BY <1>2, <1>12 DEF Failed, Holding
<1>13. CASE Close(q)
  <2>1. Works(q, "draining") /\ queue' = [queue EXCEPT ![q].closed = TRUE] /\ worker[q].at = "closing"
        /\ UNCHANGED <<push, mapVars, bellVars>> /\ "draining" \in WorkerAt
    BY <1>13 DEF Close, WorkerAt
  <2>2. /\ worker' \in [Queues -> WorkerRec] /\ worker'[q].at = "draining" /\ worker'[q].item = worker[q].item
        /\ \A p \in Queues : p # q => worker'[p] = worker[p]
    BY <1>0, <2>1, WorksMakes
  <2> QED BY <2>1, <2>2, FlagsMake DEF Turns
<1>14. CASE CloseDrains(q)
  <2>1. Works(q, "ended") /\ Drain(q) /\ worker[q].at = "draining" /\ UNCHANGED <<mapVars, bellVars>>
        /\ "ended" \in WorkerAt
    BY <1>14 DEF CloseDrains, WorkerAt
  <2>2. /\ worker' \in [Queues -> WorkerRec] /\ worker'[q].at = "ended" /\ worker'[q].item = worker[q].item
        /\ \A p \in Queues : p # q => worker'[p] = worker[p]
    BY <1>0, <2>1, WorksMakes
  <2> QED BY <2>1, <2>2 DEF Drains
<1>15. CASE Panic(q)
  BY <1>2, <1>15 DEF Panic
<1> QED BY <1>3, <1>4, <1>5, <1>6, <1>7, <1>8, <1>9, <1>10, <1>11, <1>12, <1>13, <1>14, <1>15 DEF WorkerStep

-----------------------------------------------------------------------------
(* What a delivery's way to its queue makes of it.                         *)

\* The counters only grow, and what was in their range stays there.
LEMMA RecGrows ==
  ASSUME TypeOK, tokens' \in Nat, made' \in Nat, counted' \in Nat,
         tokens <= tokens', made <= made', counted <= counted'
  PROVE  \A x \in PushRec : x \in PushRec'
BY Numbers DEF PushRec

\* A delivery's record after a step that touches no other.
Alone(d) ==
  /\ push' = [e \in Deliveries |-> push'[e]]
  /\ \A e \in Deliveries : e # d => push'[e] = push[e]

\* A doorbell is counted.
LEMMA CountMakes ==
  ASSUME TypeOK, NEW b \in Bells, CountBell(b)
  PROVE  /\ Alone(b) /\ push[b].at = "idle" /\ order = NoBell /\ order' = b /\ counted' = counted + 1
         /\ push'[b].at = "counted" /\ push'[b].stamp = counted + 1 /\ push'[b].token = push[b].token
         /\ push'[b].host = push[b].host /\ push'[b].queue = push[b].queue
         /\ push'[b] \in [at : PushAt, token : 0..tokens, host : Hosts, queue : 0..made, stamp : 0..counted + 1]
         /\ UNCHANGED <<rowVars, mapVars, workVars, queue>>
<1>0. PushType /\ b \in Deliveries /\ push[b] \in PushRec /\ counted \in Nat
  BY TypeParts, Kinds, Numbers DEF PushType
<1> DEFINE x == [push[b] EXCEPT !.at = "counted", !.stamp = counted + 1]
<1>1. push' = [push EXCEPT ![b] = x] /\ push[b].at = "idle"
  BY <1>0 DEF CountBell, PushType
<1>2. /\ x \in [at : PushAt, token : 0..tokens, host : Hosts, queue : 0..made, stamp : 0..counted + 1]
      /\ x.at = "counted" /\ x.stamp = counted + 1 /\ x.token = push[b].token /\ x.host = push[b].host
      /\ x.queue = push[b].queue
  <2>1. counted + 1 \in 0..counted + 1 /\ "counted" \in PushAt
    BY <1>0 DEF PushAt
  <2>2. push[b] \in [at : PushAt, token : 0..tokens, host : Hosts, queue : 0..made, stamp : 0..counted]
    BY <1>0 DEF PushRec
  <2> QED BY <2>1, <2>2
<1> HIDE DEF x
<1>3. push'[b] = x /\ \A e \in Deliveries : e # b => push'[e] = push[e]
  BY <1>0, <1>1, PushSet
<1>4. push' = [e \in Deliveries |-> push'[e]]
  BY <1>0, <1>1 DEF PushType
<1> QED BY <1>1, <1>2, <1>3, <1>4 DEF CountBell, Alone

\* A delivery's target is read, or the phone is left out.
LEMMA ReadMakes ==
  ASSUME TypeOK, RowInv, NEW d \in Deliveries, ReadTarget(d)
  PROVE  /\ Alone(d) /\ push'[d] \in PushRec /\ push[d].at = (IF d \in Bells THEN "counted" ELSE "idle")
         /\ \/ push'[d].at = "target" /\ push'[d].stamp = push[d].stamp /\ UNCHANGED order
            \/ push'[d].at = "done" /\ order' = (IF order = d THEN NoBell ELSE order)
         /\ UNCHANGED <<rowVars, counted, mapVars, workVars, queue>>
<1>0. PushType /\ push[d] \in PushRec /\ RowType
  BY TypeParts DEF PushType
<1>1. CASE /\ Eligible
           /\ push' = [push EXCEPT ![d].at = "target", ![d].token = row.token, ![d].host = row.host]
           /\ UNCHANGED order
  <2> DEFINE x == [push[d] EXCEPT !.at = "target", !.token = row.token, !.host = row.host]
  <2>1. push' = [push EXCEPT ![d] = x]
    BY <1>0, <1>1 DEF PushType
  <2>2. row.token \in 0..tokens /\ row.host \in Hosts
    BY <1>0, <1>1 DEF Eligible, RowInv, RowType
  <2>3. x \in PushRec /\ x.at = "target" /\ x.stamp = push[d].stamp
    BY <1>0, <2>2 DEF PushRec, PushAt
  <2> HIDE DEF x
  <2>4. push'[d] = x /\ \A e \in Deliveries : e # d => push'[e] = push[e]
    BY <1>0, <2>1, PushSet
  <2>5. push' = [e \in Deliveries |-> push'[e]]
    BY <1>0, <2>1 DEF PushType
  <2> QED BY <1>1, <2>3, <2>4, <2>5 DEF ReadTarget, Alone
<1>2. CASE push' = [push EXCEPT ![d] = Done] /\ order' = IF order = d THEN NoBell ELSE order
  <2>1. push'[d] = Done /\ \A e \in Deliveries : e # d => push'[e] = push[e]
    BY <1>0, <1>2, PushSet
  <2>2. push' = [e \in Deliveries |-> push'[e]]
    BY <1>0, <1>2 DEF PushType
  <2> QED BY <1>2, <2>1, <2>2, DoneShape DEF ReadTarget, Alone
<1> QED BY <1>1, <1>2 DEF ReadTarget

\* A delivery is given a queue, the one in the map or a fresh one with its worker.
LEMMA QueueForMakes ==
  ASSUME TypeOK, NEW d \in Deliveries, QueueFor(d)
  PROVE  /\ Alone(d) /\ push[d].at = "target" /\ push'[d].at = "handle" /\ push'[d].stamp = push[d].stamp
         /\ push'[d].queue \in 1..made' /\ push'[d] \in PushRec' /\ retiring = 0
         /\ MapType' /\ UNCHANGED <<rowVars, bellVars, retiring, panics, last, late, queue>>
         /\ \/ UNCHANGED <<made, worker>>
            \/ /\ made' = made + 1 /\ made + 1 \in Queues
               /\ worker' \in [Queues -> WorkerRec]
               /\ worker'[made + 1].at = "top" /\ worker'[made + 1].item = worker[made + 1].item
               /\ \A p \in Queues : p # made + 1 => worker'[p] = worker[p]
<1>0. PushType /\ push[d] \in PushRec /\ MapType /\ WorkerType
  BY TypeParts DEF PushType
<1>1. made \in Nat /\ current \in 0..made /\ MaxQueues \in Nat /\ counted \in Nat /\ tokens \in Nat
  BY <1>0, Numbers DEF MapType
<1>2. ASSUME NEW n \in 1..made', made' \in Nat, made <= made', push' = [push EXCEPT ![d].at = "handle", ![d].queue = n],
             UNCHANGED <<tokens, counted>>
      PROVE  /\ Alone(d) /\ push'[d].at = "handle" /\ push'[d].stamp = push[d].stamp /\ push'[d].queue = n
             /\ push'[d] \in PushRec'
  <2> DEFINE x == [push[d] EXCEPT !.at = "handle", !.queue = n]
  <2>1. push' = [push EXCEPT ![d] = x]
    BY <1>0, <1>2 DEF PushType
  <2>2. x \in PushRec' /\ x.at = "handle" /\ x.stamp = push[d].stamp /\ x.queue = n
    <3>1. n \in 0..made' /\ "handle" \in PushAt
      BY <1>1, <1>2 DEF PushAt
    <3>2. push[d] \in PushRec'
      BY <1>0, <1>1, <1>2, RecGrows
    <3>3. PushRec' = [at : PushAt, token : 0..tokens', host : Hosts, queue : 0..made', stamp : 0..counted']
      BY DEF PushRec
    <3> QED BY <3>1, <3>2, <3>3
  <2> HIDE DEF x
  <2>3. push'[d] = x /\ \A e \in Deliveries : e # d => push'[e] = push[e]
    BY <1>0, <2>1, PushSet
  <2>4. push' = [e \in Deliveries |-> push'[e]]
    BY <1>0, <2>1 DEF PushType
  <2> QED BY <2>2, <2>3, <2>4 DEF Alone
<1>3. push[d].at = "target" /\ retiring = 0 /\ UNCHANGED <<rowVars, bellVars, retiring, panics, last, late, queue>>
      /\ UNCHANGED <<tokens, counted>>
  BY DEF QueueFor, rowVars, bellVars
<1>4. CASE current # 0 /\ ~queue[current].closed
  <2>1. UNCHANGED <<made, current, worker>> /\ push' = [push EXCEPT ![d].at = "handle", ![d].queue = current]
    BY <1>4 DEF QueueFor
  <2>2. current \in 1..made' /\ made' \in Nat /\ made <= made'
    BY <1>1, <1>4, <2>1
  <2>3. /\ Alone(d) /\ push'[d].at = "handle" /\ push'[d].stamp = push[d].stamp /\ push'[d].queue = current
        /\ push'[d] \in PushRec'
    BY <1>2, <1>3, <2>1, <2>2
  <2>4. MapType'
    BY <1>0, <1>3, <2>1 DEF MapType
  <2> QED BY <1>3, <2>1, <2>2, <2>3, <2>4
<1>5. CASE ~(current # 0 /\ ~queue[current].closed)
  <2>1. /\ made < MaxQueues /\ made' = made + 1 /\ current' = made + 1
        /\ push' = [push EXCEPT ![d].at = "handle", ![d].queue = made + 1]
        /\ Works(made + 1, "top")
    BY <1>5 DEF QueueFor, Works
  <2>2. made + 1 \in 1..made' /\ made' \in Nat /\ made <= made' /\ made + 1 \in Queues /\ "top" \in WorkerAt
    BY <1>1, <2>1 DEF Queues, WorkerAt
  <2>3. /\ Alone(d) /\ push'[d].at = "handle" /\ push'[d].stamp = push[d].stamp /\ push'[d].queue = made + 1
        /\ push'[d] \in PushRec'
    BY <1>2, <1>3, <2>1, <2>2
  <2>4. /\ worker' \in [Queues -> WorkerRec]
        /\ worker'[made + 1].at = "top" /\ worker'[made + 1].item = worker[made + 1].item
        /\ \A p \in Queues : p # made + 1 => worker'[p] = worker[p]
    BY <1>0, <2>1, <2>2, WorksMakes
  <2>5. MapType'
    BY <1>0, <1>1, <1>3, <2>1 DEF MapType
  <2> QED BY <1>3, <2>1, <2>2, <2>3, <2>4, <2>5
<1> QED BY <1>4, <1>5

\* What a delivery filed in an open queue makes of it.
Filed(d, q) ==
  /\ q \in Queues /\ push[d].queue = q /\ ~queue[q].closed
  /\ QueueType' /\ queue'[q].wake /\ queue'[q].closed = queue[q].closed
  /\ \A p \in Queues : p # q => queue'[p] = queue[p]
  /\ Once(queue'[q].waiting) /\ Short(queue'[q].waiting)
  /\ d \in Members(queue'[q].waiting) /\ Members(queue'[q].waiting) \subseteq Members(queue[q].waiting) \cup {d}
  /\ push'[d].at = "filed" /\ push'[d].queue = push[d].queue /\ push'[d].stamp = push[d].stamp
  /\ \A e \in Deliveries : e # d =>
       push'[e] = IF Waits(e, q) /\ e \notin Members(queue'[q].waiting) THEN Done ELSE push[e]

\* A delivery reaches its queue, or finds it closed.
LEMMA PushMakes ==
  ASSUME TypeOK, PlaceInv, OrderInv, QueuesAreShort, NEW d \in Deliveries, Push(d)
  PROVE  /\ push[d].at = "handle" /\ push' = [e \in Deliveries |-> push'[e]] /\ push'[d] \in PushRec
         /\ order' = (IF order = d THEN NoBell ELSE order)
         /\ UNCHANGED <<rowVars, counted, mapVars, workVars>>
         /\ \/ UNCHANGED queue /\ Alone(d) /\ push'[d].at = "done"
            \/ \E q \in Queues : Filed(d, q)
<1>0. PushType /\ push[d] \in PushRec /\ QueueType /\ push[d].at = "handle" /\ push[d].queue # 0
  BY TypeParts DEF PushType, Push, OrderInv
<1>1. /\ order' = (IF order = d THEN NoBell ELSE order)
      /\ UNCHANGED <<rowVars, counted, mapVars, workVars>>
  BY DEF Push
<1> DEFINE q == push[d].queue
<1>2. q \in Queues
  BY <1>0, Numbers, TypeParts DEF PushRec, Queues, MapType
<1>3. CASE queue[q].closed
  <2>1. push' = [push EXCEPT ![d] = Done] /\ UNCHANGED queue
    BY <1>3 DEF Push
  <2>2. push'[d] = Done /\ \A e \in Deliveries : e # d => push'[e] = push[e]
    BY <1>0, <2>1, PushSet
  <2>3. push' = [e \in Deliveries |-> push'[e]]
    BY <1>0, <2>1 DEF PushType
  <2> QED BY <1>0, <1>1, <2>1, <2>2, <2>3, DoneShape DEF Alone
<1>4. CASE ~queue[q].closed
  <2> HIDE DEF q
  <2> DEFINE was == queue[q].waiting
             now == Append(Trimmed(Coalesced(d, was)), d)
             x == [queue[q] EXCEPT !.waiting = now, !.wake = TRUE]
             y == [push[d] EXCEPT !.at = "filed"]
             mid == [push EXCEPT ![d].at = "filed"]
  <2>0. queue[q] \in QueueRec /\ was \in Seq(Deliveries)
    BY <1>0, <1>2 DEF QueueType, QueueRec
  <2>1. d \notin Members(was) /\ Once(was) /\ Short(was)
    <3>1. d \notin Members(was)
      BY <1>0, <1>2 DEF PlaceInv, Waits
    <3>2. Once(was)
      BY <1>2 DEF PlaceInv, Once
    <3>3. Short(was)
      BY <1>2 DEF QueuesAreShort, BellsIn, Short
    <3> QED BY <3>1, <3>2, <3>3
  <2>2. File(d, q)
    BY <1>4 DEF Push, q
  <2>3. queue' = [queue EXCEPT ![q].waiting = now, ![q].wake = TRUE] /\ push' = Settled(mid, Members(was) \ Members(now))
    BY <2>2 DEF File
  <2> HIDE DEF was, mid
  <2>4. /\ now \in Seq(Deliveries) /\ Once(now) /\ Short(now)
        /\ d \in Members(now) /\ Members(now) \subseteq Members(was) \cup {d}
    BY <2>0, <2>1, NowMakes
  <2> HIDE DEF now
  <2>5. x \in QueueRec /\ x.waiting = now /\ x.closed = queue[q].closed /\ x.wake = TRUE
    BY <2>0, <2>4 DEF QueueRec
  <2>6. queue' = [queue EXCEPT ![q] = x]
    BY <1>0, <2>3 DEF QueueType
  <2> HIDE DEF x
  <2>7. QueueType' /\ queue'[q] = x /\ \A p \in Queues : p # q => queue'[p] = queue[p]
    BY <1>0, <1>2, <2>5, <2>6, QueueSet
  <2>8. y \in PushRec /\ y.at = "filed" /\ y.queue = push[d].queue /\ y.stamp = push[d].stamp
    BY <1>0 DEF PushRec, PushAt
  <2>9. mid[d] = y /\ \A e \in Deliveries : e # d => mid[e] = push[e]
    BY <1>0 DEF mid, PushType
  <2> HIDE DEF y
  <2>10. \A e \in Deliveries : push'[e] = IF e \in Members(was) \ Members(now) THEN Done ELSE mid[e]
    BY <2>3, SettledMakes
  <2>11. push' = [e \in Deliveries |-> push'[e]]
    BY <2>3 DEF Settled
  <2>12. push'[d] = y
    BY <2>1, <2>9, <2>10
  <2>13. \A e \in Deliveries : e # d => push'[e] = IF Waits(e, q) /\ e \notin Members(now) THEN Done ELSE push[e]
    BY <2>9, <2>10 DEF Waits, was
  <2>14. Filed(d, q)
    BY <1>2, <1>4, <2>4, <2>5, <2>7, <2>8, <2>12, <2>13 DEF Filed, q, was
  <2> QED BY <1>0, <1>1, <1>2, <2>8, <2>11, <2>12, <2>14
<1> QED BY <1>3, <1>4

\* A phone's registration touches no delivery and no queue.
Quiet == UNCHANGED <<push, queue, worker, mapVars, bellVars>>

\* The steps, by what they do to deliveries and queues.
LEMMA StepKinds ==
  ASSUME TypeOK, [Next]_vars
  PROVE  \/ Quiet \/ Retire \/ RetireDrains
         \/ \E b \in Bells : CountBell(b)
         \/ \E d \in Deliveries : ReadTarget(d) \/ QueueFor(d) \/ Push(d)
         \/ \E q \in Queues : Turns(q) \/ Finishes(q) \/ TakesOne(q) \/ Drains(q)
<1>1. CASE UNCHANGED vars
  BY <1>1 DEF vars, workVars, Quiet
<1>2. ASSUME NEW h \in Hosts, Register(h) PROVE Quiet
  BY <1>2 DEF Register, workVars, Quiet
<1>3. ASSUME NEW revoke \in BOOLEAN, Withdraw(revoke) PROVE Quiet
  BY <1>3 DEF Withdraw, workVars, Quiet
<1>4. ASSUME NEW q \in Queues, WorkerStep(q) \/ Panic(q)
      PROVE  Turns(q) \/ Finishes(q) \/ TakesOne(q) \/ Drains(q)
  BY <1>4, WorkerKinds
<1> QED BY <1>1, <1>2, <1>3, <1>4 DEF Next

\* A queue is taken out of the map and flagged.
LEMMA RetireMakes ==
  ASSUME TypeOK, Retire
  PROVE  /\ retiring = 0 /\ leaving > 0 /\ leaving' = leaving - 1
         /\ UNCHANGED <<row, tokens, dead, made, bellVars, workVars, push>>
         /\ \/ UNCHANGED <<queue, current, retiring>>
            \/ /\ current \in Queues /\ retiring' = current /\ current' = 0 /\ QueueType'
               /\ queue'[current].waiting = queue[current].waiting
               /\ queue'[current].closed /\ queue'[current].wake = queue[current].wake
               /\ \A p \in Queues : p # current => queue'[p] = queue[p]
<1>1. /\ retiring = 0 /\ leaving > 0 /\ leaving' = leaving - 1
      /\ UNCHANGED <<row, tokens, dead, made, bellVars, workVars, push>>
  BY DEF Retire
<1>2. CASE current = 0
  BY <1>1, <1>2 DEF Retire
<1>3. CASE current # 0
  <2>1. current \in Queues
    BY <1>3, Numbers, TypeParts DEF MapType, Queues
  <2>2. queue' = [queue EXCEPT ![current].closed = TRUE] /\ retiring' = current /\ current' = 0
    BY <1>3 DEF Retire
  <2> QED BY <1>1, <2>1, <2>2, FlagsMake
<1> QED BY <1>2, <1>3

\* A queue without its head.
LEMMA TailKeeps ==
  ASSUME NEW s \in Seq(Deliveries), s # <<>>
  PROVE  /\ Head(s) \in Members(s) /\ Head(s) = s[1] /\ Tail(s) \in Seq(Deliveries)
         /\ Members(Tail(s)) \subseteq Members(s)
         /\ \A e \in Members(s) : e = Head(s) \/ e \in Members(Tail(s))
         /\ Once(s) => Once(Tail(s)) /\ Head(s) \notin Members(Tail(s))
         /\ Short(s) => Short(Tail(s))
         /\ Short(s) /\ Head(s) \in Bells => \A e \in Members(Tail(s)) : e \notin Bells
<1> DEFINE r == Tail(s)
<1>1. /\ r \in Seq(Deliveries) /\ Len(r) = Len(s) - 1 /\ \A i \in 1..Len(r) : r[i] = s[i + 1]
      /\ Head(s) = s[1] /\ Len(s) \in Nat /\ Len(s) >= 1 /\ DOMAIN s = 1..Len(s) /\ DOMAIN r = 1..Len(r)
  BY HeadTailProperties
<1> HIDE DEF r
<1>2. Gone(r, s, 1)
  BY <1>1 DEF Gone
<1>3. /\ \A i \in DOMAIN r : \E j \in DOMAIN s : j # 1 /\ r[i] = s[j]
      /\ \A j \in DOMAIN s : j # 1 => \E i \in DOMAIN r : r[i] = s[j]
      /\ Once(s) => Once(r)
  BY <1>1, <1>2, GoneKeeps DEF Once
<1>4. Head(s) \in Members(s)
  <2>1. 1 \in DOMAIN s
    BY <1>1
  <2> QED BY <1>1, <2>1 DEF Members
<1>5. Members(r) \subseteq Members(s) /\ \A e \in Members(s) : e = Head(s) \/ e \in Members(r)
  BY <1>1, <1>3 DEF Members
<1>6. Once(s) => Head(s) \notin Members(r)
  <2> SUFFICES ASSUME Once(s), NEW i \in DOMAIN r, r[i] = s[1]
      PROVE  FALSE
    BY <1>1 DEF Members
  <2>1. PICK j \in DOMAIN s : j # 1 /\ r[i] = s[j]
    BY <1>3
  <2> QED BY <1>1, <2>1 DEF Once
<1>7. Short(s) /\ Head(s) \in Bells => \A e \in Members(r) : e \notin Bells
  <2> SUFFICES ASSUME Short(s), s[1] \in Bells, NEW i \in DOMAIN r, r[i] \in Bells
      PROVE  FALSE
    BY <1>1 DEF Members
  <2>1. PICK j \in DOMAIN s : j # 1 /\ r[i] = s[j]
    BY <1>3
  <2> QED BY <1>1, <2>1 DEF Short
<1>8. Short(s) => Short(r)
  <2> SUFFICES ASSUME Short(s)
      PROVE  Short(r)
    OBVIOUS
  <2>1. ASSUME NEW i \in DOMAIN r, NEW j \in DOMAIN r, r[i] \in Bells, r[j] \in Bells
        PROVE  i = j
    <3>1. i + 1 \in DOMAIN s /\ j + 1 \in DOMAIN s /\ r[i] = s[i + 1] /\ r[j] = s[j + 1]
      BY <1>1
    <3>2. i + 1 = j + 1
      BY <2>1, <3>1 DEF Short
    <3> QED BY <1>1, <3>2
  <2>2. CASE Head(s) \in Bells
    <3>1. Len(s) <= MaxWaiting + 1
      BY <1>1, QueueAssumption DEF Short
    <3> QED BY <1>1, <2>1, <3>1, QueueAssumption DEF Short
  <2>3. CASE Head(s) \notin Bells
    <3>1. (\E k \in DOMAIN s : s[k] \in Bells) => \E k \in DOMAIN r : r[k] \in Bells
      BY <1>1, <1>3, <2>3
    <3> QED BY <1>1, <2>1, <3>1, QueueAssumption DEF Short
  <2> QED BY <2>2, <2>3
<1> QED BY <1>1, <1>3, <1>4, <1>5, <1>6, <1>7, <1>8 DEF r

-----------------------------------------------------------------------------
(* The registry.                                                           *)

\* The steps, by what they do to the row.
LEMMA RowKinds ==
  ASSUME TypeOK, [Next]_vars
  PROVE  \/ UNCHANGED <<row, tokens, dead>> /\ leaving' \in Nat
         \/ \E h \in Hosts : Register(h)
         \/ \E revoke \in BOOLEAN : Withdraw(revoke)
         \/ \E q \in Queues : Accepted(q) \/ Disowned(q)
<1>0. leaving \in Nat
  BY TypeParts DEF RowType
<1> USE DEF WorkOnly, rowVars
<1>1. CASE UNCHANGED vars
  BY <1>0, <1>1 DEF vars
<1>2. ASSUME NEW d \in Deliveries, ReadTarget(d) \/ QueueFor(d) \/ Push(d)
      PROVE  UNCHANGED <<row, tokens, dead, leaving>>
  BY <1>2 DEF ReadTarget, QueueFor, Push
<1>3. ASSUME NEW b \in Bells, CountBell(b) PROVE UNCHANGED <<row, tokens, dead, leaving>>
  BY <1>3 DEF CountBell
<1>4. ASSUME Retire PROVE UNCHANGED <<row, tokens, dead>> /\ leaving' \in Nat
  BY <1>0, <1>4 DEF Retire
<1>5. ASSUME RetireDrains PROVE UNCHANGED <<row, tokens, dead, leaving>>
  BY <1>5 DEF RetireDrains
<1>6. ASSUME NEW q \in Queues, WorkerStep(q) \/ Panic(q), ~Accepted(q), ~Disowned(q)
      PROVE  UNCHANGED <<row, tokens, dead, leaving>>
  BY <1>6 DEF WorkerStep, Panic, Top, Take, Woken, Authorize, Post, WrongHost, Recheck, Failed, Close, CloseDrains
<1> QED BY <1>0, <1>1, <1>2, <1>3, <1>4, <1>5, <1>6 DEF Next

\* The row and its history: the token last registered or none, and none once revoked.
LEMMA RowStep ==
  ASSUME TypeOK, RowInv, [Next]_vars
  PROVE  RowType' /\ RowInv' /\ tokens <= tokens' /\ (row.revoked => row'.revoked)
<1>0. RowType /\ tokens \in Nat /\ MaxTokens \in Nat
  BY TypeParts, Numbers
<1>1. row.token \in 0..tokens /\ row.host \in Hosts \cup {"none"} /\ row.revoked \in BOOLEAN
  BY <1>0 DEF RowType
<1>2. CASE UNCHANGED <<row, tokens, dead>> /\ leaving' \in Nat
  BY <1>0, <1>2 DEF RowType, RowInv, RefusedIsTheOne
<1>3. ASSUME NEW h \in Hosts, Register(h)
      PROVE  RowType' /\ RowInv' /\ tokens <= tokens' /\ (row.revoked => row'.revoked)
  <2>1. /\ ~row.revoked /\ tokens < MaxTokens /\ tokens' = tokens + 1 /\ dead' = FALSE /\ leaving' = leaving
        /\ row' = [row EXCEPT !.token = tokens + 1, !.host = h]
    BY <1>3 DEF Register
  <2>2. row' \in [token : 0..tokens + 1, host : Hosts \cup {"none"}, revoked : BOOLEAN]
        /\ row'.token = tokens + 1 /\ row'.host = h /\ row'.revoked = row.revoked
    <3>1. tokens + 1 \in 0..tokens + 1
      BY <1>0
    <3>2. row \in [token : 0..tokens, host : Hosts \cup {"none"}, revoked : BOOLEAN]
      BY <1>0 DEF RowType
    <3> QED BY <2>1, <3>1, <3>2
  <2>3. tokens' \in 0..MaxTokens
    BY <1>0, <2>1
  <2>4. RowType'
    BY <1>0, <2>1, <2>2, <2>3 DEF RowType
  <2> QED BY <1>0, <2>1, <2>2, <2>4 DEF RowInv, RefusedIsTheOne
<1>4. ASSUME NEW revoke \in BOOLEAN, Withdraw(revoke)
      PROVE  RowType' /\ RowInv' /\ tokens <= tokens' /\ (row.revoked => row'.revoked)
  <2>1. /\ row' = Bare(row.revoked \/ revoke) /\ dead' = (dead \/ row.token # 0) /\ leaving' = leaving + 1
        /\ tokens' = tokens
    BY <1>4 DEF Withdraw
  <2>2. (row.revoked \/ revoke) \in BOOLEAN /\ dead' \in BOOLEAN
    BY <1>1, <2>1, Zenon
  <2>3. row' \in [token : 0..tokens, host : Hosts \cup {"none"}, revoked : BOOLEAN] /\ row'.token = 0
        /\ row'.revoked = (row.revoked \/ revoke)
    BY <1>0, <2>1, <2>2 DEF Bare
  <2>4. RowType'
    BY <1>0, <2>1, <2>2, <2>3 DEF RowType
  <2>5. row.revoked => row'.revoked
    BY <2>3, Zenon
  <2>6. row.token = 0 /\ tokens > 0 => dead
    BY DEF RowInv, RefusedIsTheOne
  <2>7. dead \/ row.token # 0 => dead'
    BY <2>1, Zenon
  <2>8. RowInv' /\ tokens <= tokens'
    BY <1>0, <2>1, <2>3, <2>6, <2>7 DEF RowInv, RefusedIsTheOne
  <2> QED BY <2>4, <2>5, <2>8
<1>5. ASSUME NEW q \in Queues, Accepted(q)
      PROVE  RowType' /\ RowInv' /\ tokens <= tokens' /\ (row.revoked => row'.revoked)
  <2>1. tokens' = tokens /\ leaving' = leaving /\ dead' = dead
    BY <1>5 DEF Accepted, WorkOnly
  <2>2. CASE row' = row
    BY <1>0, <2>1, <2>2 DEF RowType, RowInv, RefusedIsTheOne
  <2>3. CASE row' # row
    <3>1. PostedTo(q) \in Hosts /\ row' = [row EXCEPT !.host = PostedTo(q)]
      BY <1>5, <2>3 DEF Accepted, Correct, TrueHost, Hosts
    <3>2. row' \in [token : 0..tokens, host : Hosts \cup {"none"}, revoked : BOOLEAN]
          /\ row'.token = row.token /\ row'.host \in Hosts /\ row'.revoked = row.revoked
      BY <1>0, <3>1 DEF RowType
    <3> QED BY <1>0, <2>1, <3>2 DEF RowType, RowInv, RefusedIsTheOne
  <2> QED BY <2>2, <2>3
<1>6. ASSUME NEW q \in Queues, Disowned(q)
      PROVE  RowType' /\ RowInv' /\ tokens <= tokens' /\ (row.revoked => row'.revoked)
  <2>1. PICK t : /\ tokens' = tokens /\ leaving' = leaving /\ dead' = (dead \/ t = tokens)
                 /\ row' = row \/ (row.token = t /\ row' = Bare(row.revoked))
    BY <1>6 DEF Disowned, WorkOnly, Forget
  <2>2. dead' \in BOOLEAN
    BY <2>1, Zenon
  <2>3. CASE row' = row
    BY <1>0, <2>1, <2>2, <2>3 DEF RowType, RowInv, RefusedIsTheOne
  <2>4. CASE row.token = t /\ row' = Bare(row.revoked)
    <3>1. row' \in [token : 0..tokens, host : Hosts \cup {"none"}, revoked : BOOLEAN] /\ row'.token = 0
          /\ row'.revoked = row.revoked
      BY <1>0, <1>1, <2>4 DEF Bare
    <3>2. dead \/ t = tokens => dead'
      BY <2>1, Zenon
    <3>3. RowType'
      BY <1>0, <2>1, <2>2, <3>1 DEF RowType
    <3>4. row.token = 0 /\ tokens > 0 => dead
      BY DEF RowInv, RefusedIsTheOne
    <3>5. row.token # 0 => t = tokens
      BY <2>4 DEF RowInv
    <3>6. RowInv'
      BY <2>1, <3>1, <3>2, <3>4, <3>5 DEF RowInv, RefusedIsTheOne
    <3> QED BY <1>0, <2>1, <3>1, <3>3, <3>6
  <2> QED BY <2>1, <2>3, <2>4
<1> QED BY <1>2, <1>3, <1>4, <1>5, <1>6, RowKinds

-----------------------------------------------------------------------------
(* The counts.                                                             *)

Rung == {b \in Bells : push[b].at # "idle"}

\* A step that counts no doorbell keeps the count, and who was counted.
LEMMA CountKeeps ==
  ASSUME TypeOK, PlaceInv, OrderInv, RowInv, QueuesAreShort, [Next]_vars, ~ \E b \in Bells : CountBell(b)
  PROVE  counted' = counted /\ \A b \in Bells : push'[b].at = "idle" <=> push[b].at = "idle"
<1> USE DEF mapVars, bellVars
<1>0. Bells \subseteq Deliveries /\ Done.at = "done"
  BY Kinds, DoneShape
<1>1. CASE Quiet
  BY <1>1 DEF Quiet
<1>2. CASE Retire
  BY <1>2, RetireMakes
<1>3. CASE RetireDrains
  <2>1. retiring \in Queues /\ Drain(retiring) /\ counted' = counted
    BY <1>3, Numbers, TypeParts DEF RetireDrains, MapType, Queues
  <2>2. \A d \in Deliveries : push'[d] = IF Waits(d, retiring) THEN Done ELSE push[d]
    BY <2>1, DrainMakes
  <2>3. \A d \in Deliveries : Waits(d, retiring) => push[d].at = "filed"
    BY <2>1 DEF PlaceInv
  <2> QED BY <1>0, <2>1, <2>2, <2>3
<1>4. ASSUME NEW d \in Deliveries, ReadTarget(d) PROVE counted' = counted /\ \A b \in Bells : push'[b].at = "idle" <=> push[b].at = "idle"
  BY <1>0, <1>4, ReadMakes DEF Alone
<1>5. ASSUME NEW d \in Deliveries, QueueFor(d) PROVE counted' = counted /\ \A b \in Bells : push'[b].at = "idle" <=> push[b].at = "idle"
  BY <1>0, <1>5, QueueForMakes DEF Alone
<1>6. ASSUME NEW d \in Deliveries, Push(d) PROVE counted' = counted /\ \A b \in Bells : push'[b].at = "idle" <=> push[b].at = "idle"
  <2>1. push[d].at = "handle" /\ counted' = counted
    BY <1>6, PushMakes
  <2>2. CASE Alone(d) /\ push'[d].at = "done"
    BY <1>0, <2>1, <2>2 DEF Alone
  <2>3. ASSUME NEW q \in Queues, Filed(d, q) PROVE \A b \in Bells : push'[b].at = "idle" <=> push[b].at = "idle"
    <3>1. \A e \in Deliveries : Waits(e, q) => push[e].at = "filed"
      BY DEF PlaceInv
    <3> QED BY <1>0, <2>1, <2>3, <3>1 DEF Filed
  <2> QED BY <1>6, <2>1, <2>2, <2>3, PushMakes
<1>7. ASSUME NEW q \in Queues, Turns(q) \/ TakesOne(q) PROVE counted' = counted /\ \A b \in Bells : push'[b].at = "idle" <=> push[b].at = "idle"
  BY <1>7 DEF Turns, TakesOne
<1>8. ASSUME NEW q \in Queues, Finishes(q) PROVE counted' = counted /\ \A b \in Bells : push'[b].at = "idle" <=> push[b].at = "idle"
  <2>1. \A d \in Deliveries : d = worker[q].item => push[d].at = "filed"
    BY DEF PlaceInv
  <2> QED BY <1>0, <1>8, <2>1 DEF Finishes
<1>9. ASSUME NEW q \in Queues, Drains(q) PROVE counted' = counted /\ \A b \in Bells : push'[b].at = "idle" <=> push[b].at = "idle"
  <2>1. counted' = counted /\ \A d \in Deliveries : push'[d] = IF Waits(d, q) THEN Done ELSE push[d]
    BY <1>9, DrainMakes DEF Drains
  <2>2. \A d \in Deliveries : Waits(d, q) => push[d].at = "filed"
    BY DEF PlaceInv
  <2> QED BY <1>0, <2>1, <2>2
<1> QED BY <1>1, <1>2, <1>3, <1>4, <1>5, <1>6, <1>7, <1>8, <1>9, StepKinds

\* The count is the number of doorbells counted.
LEMMA CountStep ==
  ASSUME TypeOK, PlaceInv, OrderInv, RowInv, QueuesAreShort, [Next]_vars
  PROVE  counted' = Cardinality(Rung') /\ counted' \in 0..Cardinality(Bells) /\ counted <= counted'
<1>0. /\ IsFiniteSet(Bells) /\ Rung \subseteq Bells /\ Rung' \subseteq Bells /\ counted = Cardinality(Rung)
      /\ counted \in Nat
  BY QueueAssumption, Numbers DEF Rung, OrderInv
<1>1. IsFiniteSet(Rung) /\ IsFiniteSet(Rung') /\ Cardinality(Rung') <= Cardinality(Bells)
  BY <1>0, FS_Subset
<1>2. Cardinality(Rung') \in Nat /\ Cardinality(Bells) \in Nat
  BY <1>0, <1>1, FS_CardinalityType
<1>3. ASSUME NEW b \in Bells, CountBell(b) PROVE counted' = Cardinality(Rung') /\ counted' = counted + 1
  <2>1. /\ counted' = counted + 1 /\ push[b].at = "idle" /\ push'[b].at = "counted"
        /\ \A e \in Deliveries : e # b => push'[e] = push[e]
    BY <1>3, CountMakes DEF Alone
  <2>2. Rung' = Rung \cup {b} /\ b \notin Rung
    BY <2>1, Kinds DEF Rung
  <2>3. Cardinality(Rung \cup {b}) = Cardinality(Rung) + 1
    BY <1>1, <2>2, FS_AddElement
  <2> QED BY <1>0, <2>1, <2>2, <2>3
<1>4. CASE ~ \E b \in Bells : CountBell(b)
  <2>1. counted' = counted /\ \A b \in Bells : push'[b].at = "idle" <=> push[b].at = "idle"
    BY <1>4, CountKeeps
  <2>2. Rung' = Rung
    BY <2>1 DEF Rung
  <2> QED BY <1>0, <1>1, <1>2, <2>1, <2>2
<1>5. counted' = Cardinality(Rung') /\ counted <= counted'
  BY <1>0, <1>3, <1>4
<1> QED BY <1>1, <1>2, <1>5

-----------------------------------------------------------------------------
(* The types.                                                              *)

\* The map, the queues and the workers.
LEMMA MapStep ==
  ASSUME TypeOK, PlaceInv, OrderInv, RowInv, QueuesAreShort, [Next]_vars
  PROVE  MapType' /\ made <= made' /\ QueueType' /\ worker' \in [Queues -> WorkerRec]
<1> USE DEF mapVars, workVars
<1>0. MapType /\ QueueType /\ WorkerType /\ made \in Nat /\ WorkerRec' = WorkerRec /\ current \in Nat
  BY TypeParts, Numbers DEF WorkerRec, WorkerAt
<1>1. CASE Quiet
  BY <1>0, <1>1 DEF Quiet, MapType, QueueType, QueueRec, WorkerType
<1>2. CASE Retire
  <2>1. UNCHANGED <<made, worker>>
    BY <1>2 DEF Retire
  <2>2. CASE UNCHANGED <<queue, current, retiring>>
    BY <1>0, <2>1, <2>2 DEF MapType, QueueType, QueueRec, WorkerType
  <2>3. CASE retiring' = current /\ current' = 0 /\ QueueType'
    BY <1>0, <2>1, <2>3 DEF MapType, WorkerType
  <2> QED BY <1>2, <2>2, <2>3, RetireMakes
<1>3. CASE RetireDrains
  <2>1. retiring \in Queues /\ Drain(retiring) /\ retiring' = 0 /\ UNCHANGED <<made, current, worker>>
    BY <1>0, <1>3, Numbers DEF RetireDrains, MapType, Queues
  <2>2. QueueType'
    BY <2>1, DrainMakes
  <2> QED BY <1>0, <2>1, <2>2 DEF MapType, WorkerType
<1>4. ASSUME NEW b \in Bells, CountBell(b) PROVE UNCHANGED <<mapVars, queue, worker>>
  BY <1>4, CountMakes
<1>5. ASSUME NEW d \in Deliveries, ReadTarget(d) PROVE UNCHANGED <<mapVars, queue, worker>>
  BY <1>5, ReadMakes
<1>6. ASSUME NEW d \in Deliveries, QueueFor(d)
      PROVE  MapType' /\ made <= made' /\ QueueType' /\ worker' \in [Queues -> WorkerRec]
  <2>1. MapType' /\ queue' = queue /\ made <= made' /\ worker' \in [Queues -> WorkerRec]
    BY <1>0, <1>6, QueueForMakes DEF WorkerType
  <2> QED BY <1>0, <2>1 DEF QueueType, QueueRec
<1>7. ASSUME NEW d \in Deliveries, Push(d) PROVE UNCHANGED <<mapVars, worker>> /\ QueueType'
  <2>1. UNCHANGED <<mapVars, worker>> /\ (queue' = queue \/ \E q \in Queues : Filed(d, q))
    BY <1>7, PushMakes
  <2> QED BY <1>0, <2>1 DEF QueueType, QueueRec, Filed
<1>8. ASSUME NEW q \in Queues, Turns(q) \/ TakesOne(q)
      PROVE  UNCHANGED mapVars /\ QueueType' /\ worker' \in [Queues -> WorkerRec]
  BY <1>8 DEF Turns, TakesOne
<1>9. ASSUME NEW q \in Queues, Finishes(q) PROVE UNCHANGED <<mapVars, queue>> /\ worker' \in [Queues -> WorkerRec]
  BY <1>9 DEF Finishes
<1>10. ASSUME NEW q \in Queues, Drains(q)
       PROVE  UNCHANGED mapVars /\ QueueType' /\ worker' \in [Queues -> WorkerRec]
  BY <1>10, DrainMakes DEF Drains
<1>11. UNCHANGED <<mapVars>> => MapType' /\ made <= made'
  BY <1>0 DEF MapType
<1>12. queue' = queue => QueueType'
  BY <1>0 DEF QueueType, QueueRec
<1>13. worker' = worker => worker' \in [Queues -> WorkerRec]
  BY <1>0 DEF WorkerType
<1> QED BY <1>1, <1>2, <1>3, <1>4, <1>5, <1>6, <1>7, <1>8, <1>9, <1>10, <1>11, <1>12, <1>13, StepKinds

\* The deliveries.
LEMMA PushStep ==
  ASSUME TypeOK, PlaceInv, OrderInv, RowInv, QueuesAreShort, [Next]_vars
  PROVE  PushType'
<1> USE DEF mapVars, bellVars
<1>0. /\ PushType /\ \A d \in Deliveries : push[d] \in PushRec
      /\ Done \in PushRec /\ push = [d \in Deliveries |-> push[d]]
  BY TypeParts, DoneShape DEF PushType
<1>1. tokens' \in Nat /\ tokens <= tokens' /\ made' \in Nat /\ made <= made' /\ counted' \in Nat /\ counted <= counted'
  <2>1. tokens' \in Nat /\ tokens <= tokens'
    BY RowStep, QueueAssumption DEF RowType
  <2>2. made' \in Nat /\ made <= made'
    BY MapStep, QueueAssumption DEF MapType
  <2>3. counted' \in Nat /\ counted <= counted'
    BY CountStep
  <2> QED BY <2>1, <2>2, <2>3
<1>2. \A x \in PushRec : x \in PushRec'
  BY <1>1, RecGrows
<1>3. ASSUME push' = [d \in Deliveries |-> push'[d]], \A d \in Deliveries : push'[d] \in PushRec PROVE PushType'
  BY <1>2, <1>3, PushTyped
<1>4. ASSUME NEW d \in Deliveries, Alone(d), push'[d] \in PushRec' PROVE PushType'
  <2>1. \A e \in Deliveries : push'[e] \in PushRec'
    BY <1>0, <1>2, <1>4 DEF Alone
  <2> QED BY <1>4, <2>1, PushTyped DEF Alone
<1>5. push' = push => PushType'
  BY <1>0, <1>3
<1>6. CASE Quiet
  BY <1>5, <1>6 DEF Quiet
<1>7. CASE Retire
  BY <1>5, <1>7 DEF Retire
<1>8. CASE RetireDrains
  <2>1. retiring \in Queues /\ Drain(retiring)
    BY <1>8, Numbers, TypeParts DEF RetireDrains, MapType, Queues
  <2> QED BY <1>0, <1>3, <2>1, DrainMakes
<1>9. ASSUME NEW b \in Bells, CountBell(b) PROVE PushType'
  <2>1. /\ Alone(b) /\ counted' = counted + 1 /\ UNCHANGED <<tokens, made>>
        /\ push'[b] \in [at : PushAt, token : 0..tokens, host : Hosts, queue : 0..made, stamp : 0..counted + 1]
    BY <1>9, CountMakes DEF rowVars
  <2>2. push'[b] \in PushRec'
    BY <2>1 DEF PushRec
  <2> QED BY <1>4, <2>1, <2>2, Kinds
<1>10. ASSUME NEW d \in Deliveries, ReadTarget(d) PROVE PushType'
  BY <1>2, <1>4, <1>10, ReadMakes
<1>11. ASSUME NEW d \in Deliveries, QueueFor(d) PROVE PushType'
  BY <1>4, <1>11, QueueForMakes
<1>12. ASSUME NEW d \in Deliveries, Push(d) PROVE PushType'
  <2>1. push' = [e \in Deliveries |-> push'[e]] /\ push'[d] \in PushRec
    BY <1>12, PushMakes
  <2>2. \A e \in Deliveries : e # d => push'[e] \in {Done, push[e]}
    BY <1>12, PushMakes DEF Alone, Filed
  <2>3. \A e \in Deliveries : push'[e] \in PushRec
    BY <1>0, <2>1, <2>2
  <2> QED BY <1>3, <2>1, <2>3
<1>13. ASSUME NEW q \in Queues, Turns(q) \/ TakesOne(q) PROVE PushType'
  BY <1>5, <1>13 DEF Turns, TakesOne
<1>14. ASSUME NEW q \in Queues, Finishes(q) PROVE PushType'
  BY <1>0, <1>3, <1>14 DEF Finishes
<1>15. ASSUME NEW q \in Queues, Drains(q) PROVE PushType'
  BY <1>0, <1>3, <1>15, DrainMakes DEF Drains
<1> QED BY <1>6, <1>7, <1>8, <1>9, <1>10, <1>11, <1>12, <1>13, <1>14, <1>15, StepKinds

\* Who holds ring_order is a doorbell.
LEMMA HolderStep ==
  ASSUME TypeOK, [Next]_vars
  PROVE  order' \in Bells \cup {NoBell} /\ panics' \in 0..MaxPanics
<1>0. order \in Bells \cup {NoBell} /\ panics \in 0..MaxPanics /\ MaxPanics \in Nat
  BY TypeParts, QueueAssumption DEF BellType, WorkerType
<1> USE DEF WorkOnly, bellVars, workVars
<1>1. CASE UNCHANGED vars
  BY <1>0, <1>1 DEF vars
<1>2. ASSUME NEW h \in Hosts, Register(h) PROVE UNCHANGED <<order, panics>>
  BY <1>2 DEF Register
<1>3. ASSUME NEW revoke \in BOOLEAN, Withdraw(revoke) PROVE UNCHANGED <<order, panics>>
  BY <1>3 DEF Withdraw
<1>4. ASSUME NEW b \in Bells, CountBell(b) PROVE order' = b /\ panics' = panics
  BY <1>4 DEF CountBell
<1>5. ASSUME NEW d \in Deliveries, ReadTarget(d) \/ QueueFor(d) \/ Push(d)
      PROVE  order' \in {order, NoBell} /\ panics' = panics
  BY <1>5 DEF ReadTarget, QueueFor, Push
<1>6. ASSUME Retire \/ RetireDrains PROVE UNCHANGED <<order, panics>>
  BY <1>6 DEF Retire, RetireDrains
<1>7. ASSUME NEW q \in Queues, WorkerStep(q) PROVE UNCHANGED <<order, panics>>
  BY <1>7 DEF WorkerStep, Top, Take, Woken, Authorize, Post, Accepted, Disowned, WrongHost, Recheck, Failed, Close,
              CloseDrains
<1>8. ASSUME NEW q \in Queues, Panic(q) PROVE order' = order /\ panics' \in 0..MaxPanics
  BY <1>0, <1>8 DEF Panic
<1> QED BY <1>0, <1>1, <1>2, <1>3, <1>4, <1>5, <1>6, <1>7, <1>8 DEF Next

\* Only a post changes what a worker last posted, and how many it posted late.
LEMMA PostKinds ==
  ASSUME TypeOK, [Next]_vars
  PROVE  UNCHANGED <<last, late>> \/ \E q \in Queues : Post(q)
<1> USE DEF workVars
<1>1. CASE UNCHANGED vars
  BY <1>1 DEF vars
<1>2. ASSUME NEW h \in Hosts, Register(h) PROVE UNCHANGED <<last, late>>
  BY <1>2 DEF Register
<1>3. ASSUME NEW revoke \in BOOLEAN, Withdraw(revoke) PROVE UNCHANGED <<last, late>>
  BY <1>3 DEF Withdraw
<1>4. ASSUME NEW b \in Bells, CountBell(b) PROVE UNCHANGED <<last, late>>
  BY <1>4 DEF CountBell
<1>5. ASSUME NEW d \in Deliveries, ReadTarget(d) \/ QueueFor(d) \/ Push(d) PROVE UNCHANGED <<last, late>>
  BY <1>5 DEF ReadTarget, QueueFor, Push
<1>6. ASSUME Retire \/ RetireDrains PROVE UNCHANGED <<last, late>>
  BY <1>6 DEF Retire, RetireDrains
<1>7. ASSUME NEW q \in Queues, WorkerStep(q) \/ Panic(q), ~Post(q) PROVE UNCHANGED <<last, late>>
  BY <1>7 DEF WorkerStep, Top, Take, Woken, Authorize, Accepted, Disowned, WrongHost, Recheck, Failed, Close,
              CloseDrains, Panic
<1> QED BY <1>1, <1>2, <1>3, <1>4, <1>5, <1>6, <1>7 DEF Next

\* What a post makes of the histories.
LEMMA PostMakes ==
  ASSUME TypeOK, PlaceInv, NEW q \in Queues, Post(q)
  PROVE  /\ worker[q].at \in {"post", "retry"} /\ worker[q].item \in Deliveries
         /\ worker'[q].at \in {"sent", "resent"}
         /\ \A p \in Queues : p # q => worker'[p] = worker[p] /\ last'[p] = last[p] /\ late'[p] = late[p]
         /\ last'[q] = (IF worker[q].item \in Bells THEN push[worker[q].item].stamp ELSE last[q])
         /\ late'[q] = (IF worker[q].item \in Bells /\ row.revoked THEN late[q] + 1 ELSE late[q])
         /\ last' \in [Queues -> 0..counted] /\ late' \in [Queues -> Nat] /\ UNCHANGED <<row, push, queue>>
<1>0. WorkerType /\ PostType /\ PushType /\ worker[q] \in WorkerRec
  BY TypeParts DEF WorkerType
<1>1. worker[q].at \in {"post", "retry"} /\ UNCHANGED <<row, push, queue>>
  BY DEF Post
<1>2. worker[q].item \in Deliveries
  BY <1>0, <1>1 DEF PlaceInv, WorkerRec, Holding
<1>3. push[worker[q].item].stamp \in 0..counted
  BY <1>0, <1>2 DEF PushType, PushRec
<1>4. worker'[q].at \in {"sent", "resent"} /\ \A p \in Queues : p # q => worker'[p] = worker[p]
  <2> DEFINE a == IF worker[q].at = "post" THEN "sent" ELSE "resent"
  <2>1. a \in WorkerAt /\ a \in {"sent", "resent"} /\ Works(q, a)
    BY DEF Post, WorkerAt, Holding
  <2> HIDE DEF a
  <2> QED BY <1>0, <2>1, WorksMakes
<1>5. /\ last' = IF worker[q].item \in Bells THEN [last EXCEPT ![q] = push[worker[q].item].stamp] ELSE last
      /\ late' = IF worker[q].item \in Bells /\ row.revoked THEN [late EXCEPT ![q] = @ + 1] ELSE late
  BY DEF Post
<1>6. /\ last' \in [Queues -> 0..counted] /\ \A p \in Queues : p # q => last'[p] = last[p]
      /\ last'[q] = (IF worker[q].item \in Bells THEN push[worker[q].item].stamp ELSE last[q])
  BY <1>0, <1>3, <1>5 DEF PostType
<1>7. /\ late' \in [Queues -> Nat] /\ \A p \in Queues : p # q => late'[p] = late[p]
      /\ late'[q] = (IF worker[q].item \in Bells /\ row.revoked THEN late[q] + 1 ELSE late[q])
  BY <1>0, <1>5 DEF PostType
<1> QED BY <1>1, <1>2, <1>4, <1>6, <1>7

\* Every variable keeps its type.
LEMMA TypeStep ==
  ASSUME TypeOK, PlaceInv, OrderInv, RowInv, QueuesAreShort, [Next]_vars
  PROVE  TypeOK'
<1>1. RowType' /\ MapType' /\ QueueType' /\ PushType'
  BY RowStep, MapStep, PushStep
<1>2. BellType'
  BY HolderStep, CountStep DEF BellType
<1>3. WorkerType'
  <2>1. WorkerRec' = WorkerRec
    BY DEF WorkerRec, WorkerAt
  <2> QED BY <2>1, HolderStep, MapStep DEF WorkerType
<1>4. PostType'
  <2>1. counted \in Nat /\ counted' \in Nat /\ counted <= counted' /\ PostType
    BY CountStep, Numbers, TypeParts
  <2>2. last' \in [Queues -> 0..counted] /\ late' \in [Queues -> Nat]
    BY <2>1, PostKinds, PostMakes DEF PostType
  <2>3. \A n \in 0..counted : n \in 0..counted'
    BY <2>1
  <2>4. Queues' = Queues
    BY DEF Queues
  <2> QED BY <2>2, <2>3, <2>4 DEF PostType
<1>5. (RowType /\ BellType /\ PushType /\ QueueType /\ MapType /\ WorkerType /\ PostType)'
  BY <1>1, <1>2, <1>3, <1>4
<1> QED BY <1>5, TypeParts, PTL

-----------------------------------------------------------------------------
(* What a step makes of one queue and its worker.                          *)

\* Nothing that waits in the queue, and not what its worker holds, is touched.
Keeps(q) ==
  /\ queue'[q].waiting = queue[q].waiting /\ worker'[q].item = worker[q].item
  /\ worker'[q].at \in Holding <=> worker[q].at \in Holding
  /\ \A d \in Deliveries : Waits(d, q) \/ worker[q].item = d => push'[d] = push[d]

\* All that waits is settled.
Empties(q) ==
  /\ queue'[q].waiting = <<>> /\ worker'[q].item = worker[q].item
  /\ worker'[q].at \in Holding <=> worker[q].at \in Holding
  /\ \A d \in Deliveries : Waits(d, q) => push'[d].at = "done"
  /\ \A d \in Deliveries : worker[q].item = d => push'[d] = push[d]

\* A delivery is filed in the queue.
Gains(d, q) == Filed(d, q) /\ push[d].at = "handle" /\ worker'[q] = worker[q]

Local(q) == Keeps(q) \/ Empties(q) \/ TakesOne(q) \/ Finishes(q) \/ \E d \in Deliveries : Gains(d, q)

\* A queue that is drained, by its worker or by retire.
LEMMA DrainLocal ==
  ASSUME TypeOK, PlaceInv, NEW r \in Queues, Drain(r), NEW q \in Queues,
         worker'[q].item = worker[q].item, worker'[q].at \in Holding <=> worker[q].at \in Holding
  PROVE  IF q = r THEN Empties(q) ELSE Keeps(q)
<1>1. /\ queue'[r].waiting = <<>> /\ \A p \in Queues : p # r => queue'[p] = queue[p]
      /\ \A d \in Deliveries : push'[d] = IF Waits(d, r) THEN Done ELSE push[d]
  BY DrainMakes
<1>2. Done.at = "done"
  BY DoneShape
<1>3. \A d \in Deliveries : Waits(d, r) => worker[r].item # d
  BY DEF PlaceInv
<1>4. q # r => \A d \in Deliveries : Waits(d, q) \/ worker[q].item = d => ~Waits(d, r)
  BY DEF PlaceInv
<1> QED BY <1>1, <1>2, <1>3, <1>4 DEF Empties, Keeps

\* What every step is to each queue.
LEMMA LocalStep ==
  ASSUME TypeOK, PlaceInv, OrderInv, RowInv, QueuesAreShort, [Next]_vars, NEW q \in Queues
  PROVE  Local(q) /\ (q > made' => worker'[q].at = "none")
<1> USE DEF mapVars, workVars
<1>0. \A d \in Deliveries : Waits(d, q) \/ worker[q].item = d => push[d].at = "filed"
  BY DEF PlaceInv
<1>1. q > made => worker[q].at = "none"
  BY DEF PlaceInv
<1>2. q \in Nat /\ made \in Nat /\ MaxQueues \in Nat
  BY Numbers, QueueAssumption DEF Queues
<1>3. CASE Quiet
  BY <1>1, <1>3 DEF Quiet, Local, Keeps
<1>4. CASE Retire
  <2>1. UNCHANGED <<push, worker, made>>
    BY <1>4 DEF Retire
  <2>2. queue'[q].waiting = queue[q].waiting
    BY <1>4, RetireMakes
  <2> QED BY <1>1, <2>1, <2>2 DEF Local, Keeps
<1>5. CASE RetireDrains
  <2>1. PICK r \in Queues : r = retiring
    BY <1>5, Numbers, TypeParts DEF RetireDrains, MapType, Queues
  <2>2. Drain(r) /\ UNCHANGED <<worker, made>>
    BY <1>5, <2>1 DEF RetireDrains
  <2> QED BY <1>1, <2>2, DrainLocal DEF Local
<1>6. ASSUME NEW b \in Bells, CountBell(b) PROVE Local(q) /\ (q > made' => worker'[q].at = "none")
  <2>1. Alone(b) /\ push[b].at = "idle" /\ UNCHANGED <<queue, worker, made>>
    BY <1>6, CountMakes
  <2> QED BY <1>0, <1>1, <2>1 DEF Local, Keeps, Alone
<1>7. ASSUME NEW d \in Deliveries, ReadTarget(d) PROVE Local(q) /\ (q > made' => worker'[q].at = "none")
  <2>1. Alone(d) /\ push[d].at # "filed" /\ UNCHANGED <<queue, worker, made>>
    BY <1>7, ReadMakes
  <2> QED BY <1>0, <1>1, <2>1 DEF Local, Keeps, Alone
<1>8. ASSUME NEW d \in Deliveries, QueueFor(d) PROVE Local(q) /\ (q > made' => worker'[q].at = "none")
  <2>1. Alone(d) /\ push[d].at = "target" /\ queue' = queue
    BY <1>8, QueueForMakes
  <2>2. CASE UNCHANGED <<made, worker>>
    BY <1>0, <1>1, <2>1, <2>2 DEF Local, Keeps, Alone
  <2>3. CASE /\ made' = made + 1 /\ made + 1 \in Queues
             /\ worker'[made + 1].at = "top" /\ worker'[made + 1].item = worker[made + 1].item
             /\ \A p \in Queues : p # made + 1 => worker'[p] = worker[p]
    <3>1. worker'[q].item = worker[q].item
      BY <2>3
    <3>2. worker'[q].at \in Holding <=> worker[q].at \in Holding
      BY <1>1, <1>2, <2>3 DEF Holding
    <3>3. q > made' => worker'[q].at = "none"
      BY <1>1, <1>2, <2>3
    <3> QED BY <1>0, <2>1, <3>1, <3>2, <3>3 DEF Local, Keeps, Alone
  <2> QED BY <1>8, <2>2, <2>3, QueueForMakes
<1>9. ASSUME NEW d \in Deliveries, Push(d) PROVE Local(q) /\ (q > made' => worker'[q].at = "none")
  <2>1. push[d].at = "handle" /\ UNCHANGED <<made, worker>>
    BY <1>9, PushMakes
  <2>2. CASE UNCHANGED queue /\ Alone(d)
    BY <1>0, <1>1, <2>1, <2>2 DEF Local, Keeps, Alone
  <2>3. ASSUME NEW r \in Queues, Filed(d, r) PROVE Local(q)
    <3>1. CASE q = r
      BY <2>1, <2>3, <3>1 DEF Local, Gains
    <3>2. CASE q # r
      <4>1. \A e \in Deliveries : Waits(e, r) => ~(Waits(e, q) \/ worker[q].item = e)
        BY <3>2 DEF PlaceInv
      <4> QED BY <1>0, <2>1, <2>3, <3>2, <4>1 DEF Local, Keeps, Filed
    <3> QED BY <3>1, <3>2
  <2> QED BY <1>1, <1>9, <2>1, <2>2, <2>3, PushMakes
<1>10. ASSUME NEW r \in Queues, Turns(r) PROVE Local(q) /\ (q > made' => worker'[q].at = "none")
  BY <1>1, <1>10 DEF Turns, Local, Keeps, Holding
<1>11. ASSUME NEW r \in Queues, TakesOne(r) PROVE Local(q) /\ (q > made' => worker'[q].at = "none")
  BY <1>1, <1>11 DEF TakesOne, Local, Keeps
<1>12. ASSUME NEW r \in Queues, Finishes(r) PROVE Local(q) /\ (q > made' => worker'[q].at = "none")
  <2>1. q # r => \A d \in Deliveries : Waits(d, q) \/ worker[q].item = d => worker[r].item # d
    BY DEF PlaceInv
  <2> QED BY <1>1, <1>12, <2>1 DEF Finishes, Local, Keeps, Holding
<1>13. ASSUME NEW r \in Queues, Drains(r) PROVE Local(q) /\ (q > made' => worker'[q].at = "none")
  <2>1. Drain(r) /\ worker'[q].item = worker[q].item /\ (worker'[q].at \in Holding <=> worker[q].at \in Holding)
    BY <1>13 DEF Drains, Holding
  <2> QED BY <1>1, <1>13, <2>1, DrainLocal DEF Local, Drains
<1> QED BY <1>3, <1>4, <1>5, <1>6, <1>7, <1>8, <1>9, <1>10, <1>11, <1>12, <1>13, StepKinds

-----------------------------------------------------------------------------
(* The parts of the invariant are kept.                                    *)

\* A queue is short.
LEMMA ShortParts ==
  QueuesAreShort <=> \A q \in Queues : Short(queue[q].waiting)
BY DEF QueuesAreShort, Short, BellsIn

\* One doorbell waits, and no more tests than MAX_WAITING.
LEMMA ShortStep ==
  ASSUME TypeOK, PlaceInv, OrderInv, RowInv, QueuesAreShort, [Next]_vars
  PROVE  QueuesAreShort'
<1>1. ASSUME NEW q \in Queues PROVE Short(queue'[q].waiting)
  <2>0. Short(queue[q].waiting) /\ queue[q].waiting \in Seq(Deliveries)
    BY ShortParts, TypeParts DEF QueueType, QueueRec
  <2>1. CASE Keeps(q)
    BY <2>0, <2>1 DEF Keeps
  <2>2. CASE Empties(q)
    BY <2>2, QueueAssumption DEF Empties, Short
  <2>3. CASE TakesOne(q)
    BY <2>0, <2>3, TailKeeps DEF TakesOne
  <2>4. CASE Finishes(q)
    BY <2>0, <2>4 DEF Finishes
  <2>5. ASSUME NEW d \in Deliveries, Gains(d, q) PROVE Short(queue'[q].waiting)
    BY <2>5 DEF Gains, Filed
  <2> QED BY <2>1, <2>2, <2>3, <2>4, <2>5, LocalStep DEF Local
<1>2. (\A q \in Queues : Short(queue[q].waiting))'
  BY <1>1 DEF Short
<1> QED BY <1>2, ShortParts, PTL

\* A delivery is in one place.
LEMMA PlaceStep ==
  ASSUME TypeOK, PlaceInv, OrderInv, RowInv, QueuesAreShort, [Next]_vars
  PROVE  PlaceInv'
<1>1. ASSUME NEW q \in Queues
      PROVE  /\ \A d \in Deliveries : Waits(d, q)' \/ worker'[q].item = d => push'[d].at = "filed" /\ push'[d].queue = q
             /\ \A d \in Deliveries : Waits(d, q)' => worker'[q].item # d
             /\ Once(queue'[q].waiting)
             /\ worker'[q].at \in Holding <=> worker'[q].item # NoBell
  <2>0. /\ \A d \in Deliveries : Waits(d, q) \/ worker[q].item = d => push[d].at = "filed" /\ push[d].queue = q
        /\ \A d \in Deliveries : Waits(d, q) => worker[q].item # d
        /\ Once(queue[q].waiting) /\ (worker[q].at \in Holding <=> worker[q].item # NoBell)
        /\ queue[q].waiting \in Seq(Deliveries) /\ worker[q].item \in Deliveries \cup {NoBell}
        /\ NoBell \notin Deliveries
    BY TypeParts, Kinds DEF PlaceInv, Once, QueueType, QueueRec, WorkerType, WorkerRec
  <2>1. CASE Keeps(q)
    BY <2>0, <2>1 DEF Keeps, Waits
  <2>2. CASE Empties(q)
    <3>1. Once(queue'[q].waiting) /\ \A d \in Deliveries : ~Waits(d, q)'
      BY <2>2 DEF Empties, Once, Waits, Members
    <3> QED BY <2>0, <2>2, <3>1 DEF Empties
  <2>3. CASE TakesOne(q)
    <3> DEFINE s == queue[q].waiting
    <3>1. /\ push' = push /\ s # <<>> /\ queue'[q].waiting = Tail(s) /\ worker'[q].item = Head(s)
          /\ worker'[q].at \in Holding
      BY <2>3 DEF TakesOne, Holding
    <3>2. /\ Head(s) \in Members(s) /\ Members(Tail(s)) \subseteq Members(s) /\ Once(Tail(s))
          /\ Head(s) \notin Members(Tail(s)) /\ Head(s) \in Deliveries
      BY <2>0, <3>1, TailKeeps, HeadTailProperties
    <3> HIDE DEF s
    <3>3. \A d \in Deliveries : (Waits(d, q)' <=> d \in Members(Tail(s))) /\ (Waits(d, q) <=> d \in Members(s))
      BY <3>1 DEF Waits, s
    <3> QED BY <2>0, <3>1, <3>2, <3>3
  <2>4. CASE Finishes(q)
    <3>1. /\ queue'[q] = queue[q] /\ worker'[q].item = NoBell /\ worker'[q].at \notin Holding
          /\ \A d \in Deliveries : d # worker[q].item => push'[d] = push[d]
      BY <2>4 DEF Finishes, Holding
    <3> QED BY <2>0, <3>1 DEF Waits
  <2>5. ASSUME NEW d \in Deliveries, Gains(d, q)
        PROVE  /\ \A e \in Deliveries : Waits(e, q)' \/ worker'[q].item = e => push'[e].at = "filed" /\ push'[e].queue = q
               /\ \A e \in Deliveries : Waits(e, q)' => worker'[q].item # e
               /\ Once(queue'[q].waiting)
               /\ worker'[q].at \in Holding <=> worker'[q].item # NoBell
    <3>1. /\ push[d].at = "handle" /\ push'[d].at = "filed" /\ push'[d].queue = q /\ worker'[q] = worker[q]
          /\ Once(queue'[q].waiting)
          /\ \A e \in Deliveries : Waits(e, q)' => Waits(e, q) \/ e = d
          /\ \A e \in Deliveries : e # d /\ (~Waits(e, q) \/ Waits(e, q)') => push'[e] = push[e]
      BY <2>5 DEF Gains, Filed, Waits
    <3> QED BY <2>0, <3>1
  <2> QED BY <2>1, <2>2, <2>3, <2>4, <2>5, LocalStep DEF Local
<1>2. \A q \in Queues : q > made' => worker'[q].at = "none"
  BY LocalStep
<1> QED BY <1>1, <1>2 DEF PlaceInv, Once, Queues

\* One doorbell is between its count and its queue; its count is the newest.
LEMMA OrderStep ==
  ASSUME TypeOK, PlaceInv, OrderInv, RowInv, QueuesAreShort, [Next]_vars
  PROVE  OrderInv'
<1> USE DEF mapVars, bellVars
<1> DEFINE Kept == /\ \A b \in Bells : push'[b].at \in UnderWay => order' = b /\ push'[b].stamp = counted'
                   /\ \A d \in Deliveries : push'[d].at = "handle" => push'[d].queue # 0
<1>0. /\ \A b \in Bells : push[b].at \in UnderWay => order = b /\ push[b].stamp = counted
      /\ \A d \in Deliveries : push[d].at = "handle" => push[d].queue # 0
      /\ Bells \subseteq Deliveries /\ Done.at = "done"
  BY Kinds, DoneShape DEF OrderInv
<1>1. ASSUME UNCHANGED <<order, counted>>, \A d \in Deliveries : push'[d] = push[d] \/ push'[d] = Done PROVE Kept
  BY <1>0, <1>1 DEF UnderWay
<1>2. ASSUME Quiet PROVE Kept
  BY <1>1, <1>2 DEF Quiet
<1>3. ASSUME Retire PROVE Kept
  BY <1>1, <1>3 DEF Retire
<1>4. ASSUME RetireDrains PROVE Kept
  <2>1. retiring \in Queues /\ Drain(retiring) /\ UNCHANGED <<order, counted>>
    BY <1>4, Numbers, TypeParts DEF RetireDrains, MapType, Queues
  <2>2. \A d \in Deliveries : push'[d] = push[d] \/ push'[d] = Done
    BY <2>1, DrainMakes
  <2> QED BY <1>1, <2>1, <2>2
<1>5. ASSUME NEW b \in Bells, CountBell(b) PROVE Kept
  <2>1. /\ order = NoBell /\ order' = b /\ counted' = counted + 1 /\ push'[b].at = "counted"
        /\ push'[b].stamp = counted + 1 /\ \A e \in Deliveries : e # b => push'[e] = push[e]
    BY <1>5, CountMakes DEF Alone
  <2>2. \A e \in Bells : e # NoBell
    BY Kinds
  <2> QED BY <1>0, <2>1, <2>2 DEF UnderWay
<1>6. ASSUME NEW d \in Deliveries, ReadTarget(d) PROVE Kept
  <2>1. /\ \A e \in Deliveries : e # d => push'[e] = push[e]
        /\ counted' = counted /\ (d \in Bells => push[d].at = "counted")
        /\ \/ push'[d].at = "target" /\ push'[d].stamp = push[d].stamp /\ order' = order
           \/ push'[d].at = "done" /\ order' = (IF order = d THEN NoBell ELSE order)
    BY <1>6, ReadMakes DEF Alone
  <2> QED BY <1>0, <2>1 DEF UnderWay
<1>7. ASSUME NEW d \in Deliveries, QueueFor(d) PROVE Kept
  <2>1. /\ \A e \in Deliveries : e # d => push'[e] = push[e]
        /\ UNCHANGED <<order, counted>> /\ push[d].at = "target" /\ push'[d].stamp = push[d].stamp
        /\ push'[d].queue # 0
    BY <1>7, QueueForMakes DEF Alone
  <2> QED BY <1>0, <2>1 DEF UnderWay
<1>8. ASSUME NEW d \in Deliveries, Push(d) PROVE Kept
  <2>1. counted' = counted /\ order' = (IF order = d THEN NoBell ELSE order)
    BY <1>8, PushMakes
  <2>2. /\ push'[d].at \in {"done", "filed"}
        /\ \A e \in Deliveries : e # d => push'[e] = push[e] \/ push'[e] = Done
    BY <1>8, PushMakes DEF Alone, Filed
  <2> QED BY <1>0, <2>1, <2>2 DEF UnderWay
<1>9. ASSUME NEW q \in Queues, Turns(q) \/ TakesOne(q) PROVE Kept
  BY <1>1, <1>9 DEF Turns, TakesOne
<1>10. ASSUME NEW q \in Queues, Finishes(q) PROVE Kept
  BY <1>1, <1>10 DEF Finishes
<1>11. ASSUME NEW q \in Queues, Drains(q) PROVE Kept
  BY <1>1, <1>11, DrainMakes DEF Drains
<1>12. Kept
  BY <1>2, <1>3, <1>4, <1>5, <1>6, <1>7, <1>8, <1>9, <1>10, <1>11, StepKinds
<1> QED BY <1>12, CountStep DEF OrderInv, Rung

\* What a worker posts is no older than what it posted before.
LEMMA LastStep ==
  ASSUME TypeOK, PlaceInv, AgeInv, [Next]_vars, NEW q \in Queues
  PROVE  last'[q] = last[q] \/ (Post(q) /\ worker[q].item \in Bells /\ last'[q] = push[worker[q].item].stamp)
BY PostKinds, PostMakes

\* What waits is newer than what the worker holds, and that than what it last posted.
LEMMA AgeStep ==
  ASSUME TypeOK, PlaceInv, OrderInv, AgeInv, RowInv, QueuesAreShort, [Next]_vars
  PROVE  AgeInv'
<1>1. ASSUME NEW q \in Queues
      PROVE  /\ \A b \in Bells : Waits(b, q)' \/ worker'[q].item = b => last'[q] <= push'[b].stamp
             /\ \A b, c \in Bells : Waits(b, q)' /\ worker'[q].item = c => push'[c].stamp <= push'[b].stamp
  <2>0. /\ \A b \in Bells : Waits(b, q) \/ worker[q].item = b => last[q] <= push[b].stamp
        /\ \A b, c \in Bells : Waits(b, q) /\ worker[q].item = c => push[c].stamp <= push[b].stamp
        /\ Bells \subseteq Deliveries
    BY Kinds DEF AgeInv
  <2>1. /\ last[q] \in 0..counted /\ \A d \in Deliveries : push[d].stamp \in 0..counted
        /\ counted \in Nat
    BY TypeParts, Numbers DEF PostType, PushType, PushRec
  <2>2. CASE Post(q) /\ worker[q].item \in Bells /\ last'[q] = push[worker[q].item].stamp
    <3>1. UNCHANGED <<push, queue>> /\ worker'[q].item = worker[q].item
      <4> DEFINE a == IF worker[q].at = "post" THEN "sent" ELSE "resent"
      <4>1. a \in WorkerAt /\ Works(q, a) /\ UNCHANGED <<push, queue>>
        BY <2>2 DEF Post, WorkerAt, Holding
      <4> HIDE DEF a
      <4> QED BY <4>1, TypeParts, WorksMakes
    <3> QED BY <2>0, <2>1, <2>2, <3>1 DEF Waits
  <2>3. CASE last'[q] = last[q]
    <3>1. CASE Keeps(q)
      BY <2>0, <2>3, <3>1 DEF Keeps, Waits
    <3>2. CASE Empties(q)
      <4>1. \A d \in Deliveries : ~Waits(d, q)'
        BY <3>2 DEF Empties, Waits, Members
      <4> QED BY <2>0, <2>3, <3>2, <4>1 DEF Empties
    <3>3. CASE TakesOne(q)
      <4> DEFINE s == queue[q].waiting
      <4>1. push' = push /\ s # <<>> /\ queue'[q].waiting = Tail(s) /\ worker'[q].item = Head(s)
        BY <3>3 DEF TakesOne
      <4>2. s \in Seq(Deliveries) /\ Short(s)
        BY ShortParts, TypeParts DEF QueueType, QueueRec
      <4>3. /\ Head(s) \in Members(s) /\ Members(Tail(s)) \subseteq Members(s)
            /\ Head(s) \in Bells => \A e \in Members(Tail(s)) : e \notin Bells
        BY <4>1, <4>2, TailKeeps
      <4> HIDE DEF s
      <4>4. \A d \in Deliveries : (Waits(d, q)' <=> d \in Members(Tail(s))) /\ (Waits(d, q) <=> d \in Members(s))
        BY <4>1 DEF Waits, s
      <4> QED BY <2>0, <2>3, <4>1, <4>3, <4>4
    <3>4. CASE Finishes(q)
      <4>1. /\ queue'[q] = queue[q] /\ worker'[q].item = NoBell
            /\ \A d \in Deliveries : d # worker[q].item => push'[d] = push[d]
        BY <3>4 DEF Finishes
      <4>2. \A d \in Deliveries : d # NoBell /\ (Waits(d, q) => worker[q].item # d)
        BY Kinds DEF PlaceInv
      <4> QED BY <2>0, <2>3, <4>1, <4>2 DEF Waits
    <3>5. ASSUME NEW d \in Deliveries, Gains(d, q)
          PROVE  /\ \A b \in Bells : Waits(b, q)' \/ worker'[q].item = b => last'[q] <= push'[b].stamp
                 /\ \A b, c \in Bells : Waits(b, q)' /\ worker'[q].item = c => push'[c].stamp <= push'[b].stamp
      <4>1. /\ push[d].at = "handle" /\ push'[d].stamp = push[d].stamp /\ worker'[q] = worker[q]
            /\ \A e \in Deliveries : Waits(e, q)' => Waits(e, q) \/ e = d
            /\ \A e \in Deliveries : e # d /\ (~Waits(e, q) \/ Waits(e, q)') => push'[e] = push[e]
        BY <3>5 DEF Gains, Filed, Waits
      <4>2. d \in Bells => push[d].stamp = counted
        BY <4>1 DEF OrderInv, UnderWay
      <4>3. worker[q].item # d /\ \A e \in Deliveries : Waits(e, q) => worker[q].item # e
        BY <4>1 DEF PlaceInv
      <4> QED BY <2>0, <2>1, <2>3, <4>1, <4>2, <4>3
    <3> QED BY <3>1, <3>2, <3>3, <3>4, <3>5, LocalStep DEF Local
  <2> QED BY <2>2, <2>3, LastStep
<1> QED BY <1>1 DEF AgeInv, Queues

\* A doorbell is about to be posted because it was, or because the phone is registered.
LEMMA ReadyKinds ==
  ASSUME TypeOK, PlaceInv, OrderInv, RowInv, QueuesAreShort, [Next]_vars, NEW q \in Queues,
         worker'[q].at \in {"post", "retry"}, worker'[q].item \in Bells
  PROVE  worker'[q] = worker[q] \/ Eligible
<1> USE DEF mapVars, workVars
<1>0. WorkerType /\ \A b \in Bells : b # NoBell /\ b \notin Tests
  BY TypeParts, Kinds
<1>1. CASE UNCHANGED worker
  BY <1>1
<1>2. ASSUME NEW d \in Deliveries, QueueFor(d) PROVE worker'[q] = worker[q]
  BY <1>2, QueueForMakes
<1>3. ASSUME NEW r \in Queues, WorkerStep(r) \/ Panic(r) PROVE worker'[q] = worker[q] \/ Eligible
  <2>1. CASE r # q
    BY <1>3, <2>1, WorkerKinds DEF Turns, Finishes, TakesOne, Drains
  <2>2. CASE r = q
    <3>1. ASSUME NEW a \in WorkerAt, Works(q, a) PROVE worker'[q].at = a /\ worker'[q].item = worker[q].item
      BY <1>0, <3>1, WorksMakes
    <3>2. ASSUME NEW next \in {"top", "closing"}, Finish(q, next) PROVE FALSE
      BY <1>0, <3>2, FinishMakes
    <3>3. CASE Top(q) \/ Woken(q) \/ WrongHost(q) \/ Close(q) \/ CloseDrains(q)
      BY <3>1, <3>3 DEF Top, Woken, WrongHost, Close, CloseDrains, WorkerAt, Holding
    <3>4. CASE Take(q)
      <4>1. CASE queue[q].waiting = <<>>
        BY <3>1, <3>4, <4>1 DEF Take, WorkerAt
      <4>2. CASE queue[q].waiting # <<>>
        BY <3>4, <4>2, TakeMakes DEF TakesOne
      <4> QED BY <4>1, <4>2
    <3>5. CASE Authorize(q)
      BY <3>2, <3>5 DEF Authorize
    <3>6. CASE Post(q)
      BY <3>6, PostMakes
    <3>7. CASE Accepted(q) \/ Failed(q) \/ Panic(q)
      BY <3>2, <3>7 DEF Accepted, Failed, Panic
    <3>8. CASE Disowned(q)
      <4>1. \E next \in {"top", "closing"} : Finish(q, next)
        BY <3>8 DEF Disowned
      <4> QED BY <3>2, <4>1
    <3>9. CASE Recheck(q)
      <4>1. CASE Finish(q, "top")
        BY <3>2, <4>1
      <4>2. CASE (worker[q].item \in Tests \/ Eligible) /\ Works(q, "retry")
        BY <1>0, <3>1, <4>2 DEF WorkerAt, Holding
      <4> QED BY <3>9, <4>1, <4>2 DEF Recheck
    <3> QED BY <1>3, <2>2, <3>3, <3>4, <3>5, <3>6, <3>7, <3>8, <3>9 DEF WorkerStep
  <2> QED BY <2>1, <2>2
<1>4. CASE UNCHANGED vars
  BY <1>1, <1>4 DEF vars
<1>5. CASE (\E h \in Hosts : Register(h)) \/ (\E revoke \in BOOLEAN : Withdraw(revoke))
  BY <1>1, <1>5 DEF Register, Withdraw
<1>6. CASE \E b \in Bells : CountBell(b)
  BY <1>1, <1>6 DEF CountBell
<1>7. CASE \E d \in Deliveries : ReadTarget(d) \/ Push(d)
  BY <1>1, <1>7 DEF ReadTarget, Push
<1>8. CASE Retire \/ RetireDrains
  BY <1>1, <1>8 DEF Retire, RetireDrains
<1> QED BY <1>2, <1>3, <1>4, <1>5, <1>6, <1>7, <1>8 DEF Next

\* A doorbell about to be posted was authorized before the revocation, if there was one.
LEMMA LateStep ==
  ASSUME TypeOK, PlaceInv, OrderInv, RowInv, LateInv, QueuesAreShort, [Next]_vars
  PROVE  LateInv'
<1>0. /\ \A q \in Queues : late[q] \in Nat /\ late[q] <= 1
      /\ ~row.revoked => \A q \in Queues : late[q] = 0
      /\ \A q \in Queues : worker[q].at \in {"post", "retry"} /\ worker[q].item \in Bells => late[q] = 0
  BY TypeParts DEF LateInv, LateOnce, PostType
<1>1. row.revoked => row'.revoked
  BY RowStep
<1>2. ASSUME NEW q \in Queues
      PROVE  late'[q] = late[q] \/ (/\ worker[q].at \in {"post", "retry"} /\ worker[q].item \in Bells /\ row.revoked
                                    /\ late'[q] = late[q] + 1 /\ worker'[q].at \in {"sent", "resent"})
  BY PostKinds, PostMakes
<1>3. ~row'.revoked => \A q \in Queues : late'[q] = 0
  BY <1>0, <1>1, <1>2
<1>4. ASSUME NEW q \in Queues, worker'[q].at \in {"post", "retry"}, worker'[q].item \in Bells PROVE late'[q] = 0
  <2>1. late'[q] = late[q]
    BY <1>2, <1>4
  <2>2. worker'[q] = worker[q] \/ Eligible
    BY <1>4, ReadyKinds
  <2>3. Eligible => ~row.revoked
    BY DEF Eligible, RowInv
  <2> QED BY <1>0, <1>4, <2>1, <2>2, <2>3
<1>5. \A q \in Queues : late'[q] <= 1
  BY <1>0, <1>2
<1> QED BY <1>3, <1>4, <1>5 DEF LateInv, LateOnce, Queues

\* A delivery that is filed was, or has just reached its queue.
LEMMA FiledKinds ==
  ASSUME TypeOK, PlaceInv, OrderInv, RowInv, QueuesAreShort, [Next]_vars, NEW d \in Deliveries,
         push'[d].at = "filed"
  PROVE  push[d].at = "filed" \/ \E q \in Queues : Waits(d, q)'
<1>0. Bells \subseteq Deliveries /\ Done.at = "done"
  BY Kinds, DoneShape
<1>1. CASE push'[d] = push[d] \/ push'[d] = Done
  BY <1>0, <1>1
<1>2. CASE Quiet \/ Retire
  BY <1>1, <1>2 DEF Quiet, Retire
<1>3. CASE RetireDrains
  <2>1. retiring \in Queues /\ Drain(retiring)
    BY <1>3, Numbers, TypeParts DEF RetireDrains, MapType, Queues
  <2> QED BY <1>1, <2>1, DrainMakes
<1>4. ASSUME NEW b \in Bells, CountBell(b) PROVE push[d].at = "filed"
  BY <1>0, <1>4, CountMakes DEF Alone
<1>5. ASSUME NEW e \in Deliveries, ReadTarget(e) \/ QueueFor(e) PROVE push[d].at = "filed"
  BY <1>5, ReadMakes, QueueForMakes DEF Alone
<1>6. ASSUME NEW e \in Deliveries, Push(e) PROVE push[d].at = "filed" \/ \E q \in Queues : Waits(d, q)'
  <2>1. CASE Alone(e) /\ push'[e].at = "done"
    BY <2>1 DEF Alone
  <2>2. ASSUME NEW q \in Queues, Filed(e, q) PROVE push[d].at = "filed" \/ Waits(d, q)'
    BY <1>0, <2>2 DEF Filed, Waits
  <2> QED BY <1>6, <2>1, <2>2, PushMakes
<1>7. ASSUME NEW q \in Queues, Turns(q) \/ TakesOne(q) \/ Finishes(q) PROVE push'[d] = push[d] \/ push'[d] = Done
  BY <1>7 DEF Turns, TakesOne, Finishes
<1>8. ASSUME NEW q \in Queues, Drains(q) PROVE push'[d] = push[d] \/ push'[d] = Done
  BY <1>8, DrainMakes DEF Drains
<1> QED BY <1>1, <1>2, <1>3, <1>4, <1>5, <1>6, <1>7, <1>8, StepKinds

\* What was filed stays in a queue or a worker's hand until it is settled.
LEMMA HeldStep ==
  ASSUME TypeOK, PlaceInv, OrderInv, RowInv, QueuesAreShort, SleepInv, [Next]_vars, NEW d \in Deliveries,
         push'[d].at = "filed"
  PROVE  \E q \in Queues : worker'[q].item = d \/ Waits(d, q)'
<1>1. CASE \E q \in Queues : Waits(d, q)'
  BY <1>1
<1>2. CASE push[d].at = "filed"
  <2>1. PICK q \in Queues : worker[q].item = d \/ Waits(d, q)
    BY <1>2 DEF SleepInv
  <2>2. CASE Keeps(q)
    BY <2>1, <2>2 DEF Keeps, Waits
  <2>3. CASE Empties(q)
    BY <2>1, <2>3 DEF Empties
  <2>4. CASE TakesOne(q)
    <3>1. queue[q].waiting \in Seq(Deliveries) /\ worker[q].item # d
      <4>1. worker[q].item = NoBell
        BY <2>4 DEF TakesOne, PlaceInv, Holding
      <4> QED BY <4>1, Kinds, TypeParts DEF QueueType, QueueRec
    <3>2. \A e \in Members(queue[q].waiting) : e = Head(queue[q].waiting) \/ e \in Members(Tail(queue[q].waiting))
      BY <2>4, <3>1, TailKeeps DEF TakesOne
    <3> QED BY <2>1, <2>4, <3>1, <3>2 DEF TakesOne, Waits
  <2>5. CASE Finishes(q)
    <3>1. Done.at = "done"
      BY DoneShape
    <3> QED BY <2>1, <2>5, <3>1 DEF Finishes, Waits
  <2>6. ASSUME NEW e \in Deliveries, Gains(e, q) PROVE worker'[q].item = d \/ Waits(d, q)'
    <3>1. Done.at = "done"
      BY DoneShape
    <3> QED BY <1>2, <2>1, <2>6, <3>1 DEF Gains, Filed, Waits
  <2> QED BY <2>2, <2>3, <2>4, <2>5, <2>6, LocalStep DEF Local
<1> QED BY <1>1, <1>2, FiledKinds

\* One queue and its worker: a worker goes only from a closed queue, work or the closing wakes it,
\* and a closed queue that was drained is empty.
Awake(q) ==
  /\ worker[q].at \in {"draining", "ended"} => queue[q].closed
  /\ queue[q].waiting # <<>> => Up(q) \/ retiring = q
  /\ queue[q].closed => worker[q].at = "ended" \/ Up(q) \/ retiring = q
  /\ queue[q].closed /\ worker[q].at = "take" => queue[q].wake \/ retiring = q
  /\ queue[q].closed /\ retiring # q /\ worker[q].at # "draining" => queue[q].waiting = <<>>

\* A step leaves every queue awake.
LEMMA AwakeStep ==
  ASSUME TypeOK, PlaceInv, OrderInv, RowInv, QueuesAreShort, [Next]_vars, NEW q \in Queues, Awake(q)
  PROVE  Awake(q)'
<1> USE DEF mapVars, workVars
<1>0. q \in Nat /\ made \in Nat /\ q # 0 /\ (q > made => worker[q].at = "none")
  BY Numbers, QueueAssumption DEF Queues, PlaceInv
<1>1. ASSUME queue'[q] = queue[q], worker'[q] = worker[q], retiring' = q <=> retiring = q PROVE Awake(q)'
  BY <1>1 DEF Awake, Up
<1>2. CASE Quiet
  BY <1>1, <1>2 DEF Quiet
<1>3. CASE Retire
  <2>1. retiring = 0 /\ UNCHANGED worker
    BY <1>3 DEF Retire
  <2>2. CASE UNCHANGED <<queue, current, retiring>>
    BY <1>1, <2>1, <2>2
  <2>3. CASE /\ current \in Queues /\ retiring' = current /\ queue'[current].closed
             /\ \A p \in Queues : p # current => queue'[p] = queue[p]
    <3>1. CASE q = current
      BY <2>1, <2>3, <3>1 DEF Awake
    <3>2. CASE q # current
      BY <1>0, <1>1, <2>1, <2>3, <3>2
    <3> QED BY <3>1, <3>2
  <2> QED BY <1>3, <2>2, <2>3, RetireMakes
<1>4. CASE RetireDrains
  <2>1. PICK r \in Queues : r = retiring
    BY <1>4, Numbers, TypeParts DEF RetireDrains, MapType, Queues
  <2>2. Drain(r) /\ UNCHANGED worker /\ retiring' = 0
    BY <1>4, <2>1 DEF RetireDrains
  <2>3. /\ queue'[r].waiting = <<>> /\ queue'[r].closed = queue[r].closed /\ queue'[r].wake
        /\ \A p \in Queues : p # r => queue'[p] = queue[p]
    BY <2>2, DrainMakes
  <2>4. CASE q = r
    BY <2>2, <2>3, <2>4 DEF Awake, Up
  <2>5. CASE q # r
    BY <1>0, <1>1, <2>1, <2>2, <2>3, <2>5
  <2> QED BY <2>4, <2>5
<1>5. ASSUME NEW b \in Bells, CountBell(b) PROVE Awake(q)'
  BY <1>1, <1>5, CountMakes
<1>6. ASSUME NEW d \in Deliveries, ReadTarget(d) PROVE Awake(q)'
  BY <1>1, <1>6, ReadMakes
<1>7. ASSUME NEW d \in Deliveries, QueueFor(d) PROVE Awake(q)'
  <2>1. UNCHANGED <<queue, retiring>>
    BY <1>7, QueueForMakes
  <2>2. worker'[q] = worker[q] \/ (worker'[q].at = "top" /\ worker[q].at = "none")
    BY <1>0, <1>7, QueueForMakes
  <2>3. CASE worker'[q] = worker[q]
    BY <1>1, <2>1, <2>3
  <2>4. CASE worker'[q].at = "top" /\ worker[q].at = "none"
    BY <2>1, <2>4 DEF Awake, Up
  <2> QED BY <2>2, <2>3, <2>4
<1>8. ASSUME NEW d \in Deliveries, Push(d) PROVE Awake(q)'
  <2>1. UNCHANGED <<worker, retiring>>
    BY <1>8, PushMakes
  <2>2. CASE queue'[q] = queue[q]
    BY <1>1, <2>1, <2>2
  <2>3. CASE Filed(d, q)
    <3>1. ~queue[q].closed /\ ~queue'[q].closed /\ queue'[q].wake
      BY <2>3 DEF Filed
    <3> QED BY <2>1, <3>1 DEF Awake, Up
  <2>4. queue'[q] = queue[q] \/ Filed(d, q)
    BY <1>8, PushMakes DEF Filed
  <2> QED BY <2>2, <2>3, <2>4
<1>9. ASSUME NEW r \in Queues, Turns(r) PROVE Awake(q)'
  <2>1. CASE q # r
    BY <1>1, <1>9, <2>1 DEF Turns
  <2>2. CASE q = r
    BY <1>9, <2>2 DEF Turns, Awake, Up, Holding
  <2> QED BY <2>1, <2>2
<1>10. ASSUME NEW r \in Queues, TakesOne(r) PROVE Awake(q)'
  <2>1. CASE q # r
    BY <1>1, <1>10, <2>1 DEF TakesOne
  <2>2. CASE q = r
    BY <1>10, <2>2 DEF TakesOne, Awake, Up
  <2> QED BY <2>1, <2>2
<1>11. ASSUME NEW r \in Queues, Finishes(r) PROVE Awake(q)'
  <2>1. CASE q # r
    BY <1>1, <1>11, <2>1 DEF Finishes
  <2>2. CASE q = r
    BY <1>11, <2>2 DEF Finishes, Awake, Up, Holding
  <2> QED BY <2>1, <2>2
<1>12. ASSUME NEW r \in Queues, Drains(r) PROVE Awake(q)'
  <2>0. /\ queue'[r].waiting = <<>> /\ queue'[r].closed = queue[r].closed
        /\ \A p \in Queues : p # r => queue'[p] = queue[p]
    BY <1>12, DrainMakes DEF Drains
  <2>1. CASE q # r
    BY <1>1, <1>12, <2>0, <2>1 DEF Drains
  <2>2. CASE q = r
    BY <1>12, <2>0, <2>2 DEF Drains, Awake, Up
  <2> QED BY <2>1, <2>2
<1> QED BY <1>2, <1>3, <1>4, <1>5, <1>6, <1>7, <1>8, <1>9, <1>10, <1>11, <1>12, StepKinds

\* A queue that has work, or that was closed, wakes its worker.
LEMMA SleepStep ==
  ASSUME TypeOK, PlaceInv, OrderInv, RowInv, QueuesAreShort, SleepInv, ClosedIsEmpty, [Next]_vars
  PROVE  SleepInv' /\ ClosedIsEmpty'
<1>1. \A q \in Queues : Awake(q)
  BY DEF SleepInv, ClosedIsEmpty, Awake
<1>2. \A q \in Queues : Awake(q)'
  BY <1>1, AwakeStep
<1>3. \A d \in Deliveries : push'[d].at = "filed" => \E q \in Queues : worker'[q].item = d \/ Waits(d, q)'
  BY HeldStep
<1> QED BY <1>2, <1>3 DEF SleepInv, ClosedIsEmpty, Awake, Queues, Up, Deliveries

-----------------------------------------------------------------------------
(* The theorems.                                                           *)

\* The phone starts without a token, a delivery or a queue.
LEMMA DInit ==
  ASSUME Init
  PROVE  DIInv
<1>0. /\ MaxTokens \in Nat /\ MaxPanics \in Nat /\ MaxQueues \in Nat /\ MaxWaiting \in Nat
      /\ Cardinality(Bells) \in Nat /\ Cardinality({}) = 0
  BY QueueAssumption, FS_CardinalityType, FS_EmptySet
<1>1. /\ row = Bare(FALSE) /\ tokens = 0 /\ leaving = 0 /\ order = NoBell /\ counted = 0
      /\ made = 0 /\ current = 0 /\ retiring = 0 /\ panics = 0 /\ dead = FALSE
      /\ \A d \in Deliveries : push[d] = Idle
      /\ \A q \in Queues : queue[q].waiting = <<>> /\ queue[q].closed = FALSE /\ queue[q].wake = FALSE
      /\ \A q \in Queues : worker[q].at = "none" /\ worker[q].item = NoBell
      /\ \A q \in Queues : last[q] = 0 /\ late[q] = 0
      /\ Idle.at = "idle"
  BY DEF Init, NoQueue, Idle
<1>2. row.token = 0 /\ row.revoked = FALSE
  BY <1>1 DEF Bare
<1>3. RowType /\ BellType /\ MapType
  <2>1. FALSE \in BOOLEAN /\ 0 \in 0..0
    OBVIOUS
  <2>2. row \in [token : 0..0, host : Hosts \cup {"none"}, revoked : BOOLEAN]
    BY <1>1, <2>1 DEF Bare
  <2>3. dead \in BOOLEAN
    BY <1>1, <2>1, Zenon
  <2>4. tokens = 0 /\ leaving = 0
    BY <1>1
  <2>5. RowType
    BY <1>0, <2>2, <2>3, <2>4 DEF RowType
  <2> QED BY <1>0, <1>1, <2>5 DEF BellType, MapType
<1>4. PushType
  <2>1. Idle \in PushRec
    BY <1>0, <1>1 DEF Idle, PushRec, PushAt, Hosts
  <2> QED BY <2>1 DEF Init, PushType
<1>5. QueueType
  <2>1. <<>> \in Seq(Deliveries)
    OBVIOUS
  <2>2. NoQueue \in QueueRec
    BY <2>1 DEF NoQueue, QueueRec
  <2> QED BY <2>2 DEF Init, QueueType
<1>6. WorkerType /\ PostType
  BY <1>0, <1>1 DEF Init, WorkerType, WorkerRec, WorkerAt, PostType
<1>7. TypeOK
  BY <1>3, <1>4, <1>5, <1>6, TypeParts
<1>8. \A q \in Queues : \A d \in Deliveries : ~Waits(d, q)
  BY <1>1 DEF Waits, Members
<1>9. PlaceInv
  BY <1>1, <1>8, Kinds DEF PlaceInv, Holding
<1>10. OrderInv
  <2>1. {b \in Bells : push[b].at # "idle"} = {}
    BY <1>1, Kinds
  <2>2. \A d \in Deliveries : push[d].at = "idle"
    BY <1>1
  <2> QED BY <1>0, <1>1, <2>1, <2>2, Kinds DEF OrderInv, UnderWay
<1>11. AgeInv
  BY <1>1, <1>8, Kinds DEF AgeInv
<1>12. RowInv
  <2>1. tokens = 0
    BY <1>1
  <2> QED BY <1>2, <2>1 DEF RowInv, RefusedIsTheOne
<1>13. LateInv
  <2>1. \A q \in Queues : late[q] = 0
    BY <1>1
  <2> QED BY <2>1 DEF LateInv, LateOnce
<1>14. SleepInv /\ ClosedIsEmpty
  BY <1>1 DEF SleepInv, ClosedIsEmpty, Up
<1>15. QueuesAreShort
  BY <1>0, <1>1 DEF QueuesAreShort, BellsIn
<1> QED BY <1>7, <1>9, <1>10, <1>11, <1>12, <1>13, <1>14, <1>15 DEF DIInv

\* Every step keeps the invariant.
LEMMA DNext ==
  ASSUME DIInv, [Next]_vars
  PROVE  DIInv'
BY TypeStep, PlaceStep, OrderStep, AgeStep, RowStep, LateStep, SleepStep, ShortStep DEF DIInv

\* The places, counts, ages, rows and wakings of a phone's deliveries: the inductive invariant
\* of push_queue.rs and apns_sender.rs that the results below rest on.
THEOREM DeviceInvariant == Spec => []DIInv
<1>1. Init => DIInv
  BY DInit
<1>2. DIInv /\ [Next]_vars => DIInv'
  BY DNext
<1> QED BY <1>1, <1>2, PTL DEF Spec

\* The row and the queues are whole (push, close, clear_push_token): a drained closed queue stays
\* empty, one doorbell waits and no more tests than MAX_WAITING, and a phone loses its token only
\* when it is withdrawn or Apple disowns that very one.
THEOREM DeviceHolds == Spec => []DeviceOK
<1>1. DIInv => DeviceOK
  BY DEF DIInv, DeviceOK, RowInv
<1> QED BY <1>1, DeviceInvariant, PTL

\* A revoked phone is posted to at most once more by each worker (still_authorized), never in a retry.
THEOREM LateOnceHolds == Spec => []LateOnce
<1>1. DIInv => LateOnce
  BY DEF DIInv, LateInv
<1> QED BY <1>1, DeviceInvariant, PTL

\* A delivery that was filed is held by a worker, or waits where somebody is up or will be woken
\* (push, close, serve_with); the worker of a closed queue is not left parked.
THEOREM NoWorkSleepsHolds == Spec => []NoWorkSleeps
<1>1. ASSUME DIInv PROVE NoWorkSleeps
  <2>1. ASSUME NEW d \in Deliveries, push[d].at = "filed"
        PROVE  \E q \in Queues : worker[q].item = d \/ (d \in Members(queue[q].waiting) /\ (Up(q) \/ retiring = q))
    <3>1. PICK q \in Queues : worker[q].item = d \/ Waits(d, q)
      BY <1>1, <2>1 DEF DIInv, SleepInv
    <3>2. Waits(d, q) => queue[q].waiting # <<>>
      BY DEF Waits, Members
    <3> QED BY <1>1, <3>1, <3>2 DEF DIInv, SleepInv, Waits
  <2>2. \A q \in Queues : queue[q].closed => worker[q].at = "ended" \/ Up(q) \/ retiring = q
    BY <1>1 DEF DIInv, SleepInv
  <2> QED BY <2>1, <2>2 DEF NoWorkSleeps, Up
<1> QED BY <1>1, DeviceInvariant, PTL

\* A worker never posts an older count after a newer one (ring_order, push, serve_with): what the
\* phone holds last is the newest.
THEOREM NeverOlderHolds == Spec => NeverOlder
<1>1. DIInv /\ [Next]_vars => [\A q \in Queues : last'[q] >= last[q]]_vars
  <2> SUFFICES ASSUME DIInv, [Next]_vars, NEW q \in Queues PROVE last'[q] >= last[q]
    OBVIOUS
  <2>1. last[q] \in Nat /\ \A d \in Deliveries : push[d].stamp \in Nat
    BY Numbers, TypeParts DEF DIInv, PostType, PushType, PushRec
  <2>2. \A b \in Bells : worker[q].item = b => last[q] <= push[b].stamp
    BY DEF DIInv, AgeInv
  <2>3. last'[q] = last[q] \/ (worker[q].item \in Bells /\ last'[q] = push[worker[q].item].stamp)
    BY LastStep DEF DIInv
  <2> QED BY <2>1, <2>2, <2>3, Kinds
<1> QED BY <1>1, DeviceInvariant, PTL DEF Spec, NeverOlder
=============================================================================
