-------------------------- MODULE SessionHead_proofs --------------------------
(***************************************************************************)
(* Theorems about the session head, for any threads, connections and       *)
(* bounds.  HeadIsProven speaks of a settled head only; what makes it      *)
(* inductive is that a move in flight is always the last one observed, and *)
(* that what it would put back was proven when it started.                 *)
(***************************************************************************)
EXTENDS SessionHead, TLAPS

\* t was proven to be where the keyboard is, as of the moves before move k.
ProvenBefore(t, k) ==
  \E n \in Moves :
    /\ n < k
    /\ truth[n] = "landed" /\ dest[n] = t
    /\ \A m \in Moves : n < m /\ m < k => truth[m] = "never"

HeadInv ==
  /\ head.st = "unbound" => head.thread = NoThread
  /\ head.st = "on" => head.thread \in Threads /\ ProvenBefore(head.thread, moves + 1)
  /\ head.st = "moving" => /\ head.move = moves
                           /\ moves \in Moves
                           /\ head.thread # NoThread => ProvenBefore(head.thread, moves)
  /\ head.thread # NoThread /\ ~head.left => head.thread \notin off

ReplyInv ==
  \A n \in Moves :
    /\ reply[n] = "result" => truth[n] = "landed" /\ dest[n] \in Threads
    /\ reply[n] = "error" => truth[n] = "never"

\* A move being handed over is its own leg's, and nothing is known of it; nothing is
\* known of moves not made yet.
SendInv ==
  /\ \A c \in Conns : sending[c] # 0 =>
       /\ sending[c] <= moves /\ asker[sending[c]] = c
       /\ truth[sending[c]] = "unknown"
  /\ \A n \in Moves : n > moves => truth[n] = "unknown"

\* A leg in its hand-off has a move, and no other leg's task has one.
StageInv == \A c \in Conns : stage[c] = "sending" <=> sending[c] # 0

IInv == TypeOK /\ HeadInv /\ ReplyInv /\ SendInv /\ StageInv

-----------------------------------------------------------------------------

USE DEF Moves

LEMMA HeadForms ==
  ASSUME NEW t \in Threads \cup {NoThread}, NEW l \in BOOLEAN, NEW c \in Conns, NEW n \in Moves
  PROVE  LET H == [st : {"unbound", "on", "moving"}, conn : Conns \cup {NoConn}, move : Moves \cup {0},
                   thread : Threads \cup {NoThread}, left : BOOLEAN]
         IN  /\ Unbound \in H /\ On(t, l) \in H /\ Moving(c, n, t, l) \in H
             /\ Unbound.st = "unbound" /\ Unbound.thread = NoThread /\ ~Unbound.left
             /\ On(t, l).st = "on" /\ On(t, l).thread = t /\ On(t, l).left = l
             /\ Moving(c, n, t, l).st = "moving" /\ Moving(c, n, t, l).thread = t
             /\ Moving(c, n, t, l).left = l /\ Moving(c, n, t, l).move = n
             /\ Moving(c, n, t, l).conn = c
  BY HeadAssumption DEF Unbound, On, Moving

LEMMA InitIInv == Init => IInv
  BY HeadAssumption DEF Init, IInv, TypeOK, HeadInv, ReplyInv, SendInv, StageInv, Unbound, Stages, Replies, Truths

\* Proofs of position survive every step that touches neither what is known.
LEMMA ProvenStable ==
  ASSUME TypeOK, NEW t, NEW k \in Nat, ProvenBefore(t, k),
         \A n \in Moves : truth[n] # "unknown" => truth'[n] = truth[n] /\ dest'[n] = dest[n]
  PROVE  ProvenBefore(t, k)'
  BY DEF ProvenBefore

\* One more move that provably did not happen changes nothing.
LEMMA ProvenExtends ==
  ASSUME TypeOK, NEW t, NEW k \in Nat, ProvenBefore(t, k), k \in Moves => truth[k] = "never"
  PROVE  ProvenBefore(t, k + 1)
<1>1. PICK n \in Moves : /\ n < k /\ truth[n] = "landed" /\ dest[n] = t
                         /\ \A m \in Moves : n < m /\ m < k => truth[m] = "never"
  BY DEF ProvenBefore
<1>2. \A m \in Moves : n < m /\ m < k + 1 => truth[m] = "never"
  BY <1>1, HeadAssumption
<1> QED BY <1>1, <1>2, HeadAssumption DEF ProvenBefore

LEMMA TypeStep == IInv /\ [Next]_vars => TypeOK'
<1> SUFFICES ASSUME IInv, [Next]_vars PROVE TypeOK'
  OBVIOUS
<1> USE HeadAssumption
<1>0. TypeOK /\ ReplyInv /\ StageInv
  BY DEF IInv
<1> DEFINE H == [st : {"unbound", "on", "moving"}, conn : Conns \cup {NoConn}, move : Moves \cup {0},
                 thread : Threads \cup {NoThread}, left : BOOLEAN]
<1>1. /\ head \in H /\ head.thread \in Threads \cup {NoThread} /\ head.left \in BOOLEAN
      /\ PutBack \in H /\ Unbound \in H
      /\ \A t \in Threads \cup {NoThread} : Retire(t) \subseteq Threads
  BY <1>0, HeadForms DEF TypeOK, PutBack, Retire, Unbound, On
<1>2. ASSUME NEW c \in Conns, KeyboardMove(c) PROVE TypeOK'
  <2>1. moves + 1 \in Moves
    BY <1>0, <1>2 DEF KeyboardMove, TypeOK
  <2>2. head' \in H /\ retired' \subseteq Threads
    <3>1. BeginMove(c, moves + 1) /\ retired \subseteq Threads
      BY <1>0, <1>2 DEF KeyboardMove, TypeOK
    <3>2. /\ Moving(c, moves + 1, NoThread, FALSE) \in H
          /\ Moving(c, moves + 1, head.thread, head.left) \in H
      BY <1>1, <2>1, HeadForms
    <3> QED BY <1>1, <3>1, <3>2, ZenonT(60) DEF BeginMove
  <2> QED BY <1>0, <1>2, <2>1, <2>2 DEF KeyboardMove, TypeOK, Stages
<1>3. ASSUME NEW c \in Conns, HandedOver(c) \/ HandOffExpires(c) PROVE TypeOK'
  BY <1>0, <1>3 DEF HandedOver, HandOffExpires, TypeOK, Stages, Truths, headVars, moveVars
<1>4. ASSUME NEW c \in Conns, HandOffRefused(c) PROVE TypeOK'
  <2>1. head' \in H /\ retired' \subseteq Threads
    BY <1>0, <1>1, <1>4 DEF HandOffRefused, Restore, TypeOK, headVars
  <2> QED BY <1>0, <1>4, <2>1 DEF HandOffRefused, TypeOK, Stages, Truths
<1>5. ASSUME NEW c \in Conns, NEW t \in Threads, Unsubscribe(c, t) PROVE TypeOK'
  <2>1. head' \in H
    BY <1>1, <1>5 DEF Unsubscribe, MarkLeft
  <2> QED BY <1>0, <1>5, <2>1 DEF Unsubscribe, TypeOK, legVars, moveVars
<1>6. ASSUME NEW c \in Conns, NEW n \in Moves, ObserveAnswer(c, n) PROVE TypeOK'
  <2>1. reply[n] = "result" => dest[n] \in Threads
    BY <1>0 DEF ReplyInv
  <2>2. /\ head' \in H /\ retired' \subseteq Threads
        /\ off' \subseteq Threads /\ been' \subseteq Threads
    <3>0. retired \subseteq Threads /\ off \subseteq Threads /\ been \subseteq Threads
      BY <1>0 DEF TypeOK
    <3>1. CASE reply[n] = "result" /\ Land(dest[n]) /\ off' = off \ {dest[n]} /\ been' = been \cup {dest[n]}
      <4>1. On(dest[n], FALSE) \in H
        BY <2>1, <3>1 DEF On
      <4> QED BY <1>1, <2>1, <3>0, <3>1, <4>1 DEF Land
    <3>2. CASE (Restore \/ Forget \/ UNCHANGED headVars) /\ UNCHANGED <<off, been>>
      BY <1>1, <3>0, <3>2 DEF Restore, Forget, headVars
    <3> QED BY <1>6, <3>1, <3>2 DEF ObserveAnswer, headVars
  <2> QED BY <1>0, <1>6, <2>2 DEF ObserveAnswer, TypeOK, Stages, Replies
<1>7. ASSUME NEW c \in Conns, FrameDelivered(c) \/ FrameUndeliverable(c) \/ LegEnds(c) PROVE TypeOK'
  BY <1>0, <1>7 DEF FrameDelivered, FrameUndeliverable, LegEnds, TypeOK, Stages, headVars, moveVars
<1>8. ASSUME NEW c \in Conns, LegCloses(c) PROVE TypeOK'
  <2>1. head' \in H /\ retired' \subseteq Threads
    BY <1>0, <1>1, <1>8 DEF LegCloses, Forget, TypeOK, headVars
  <2> QED BY <1>0, <1>8, <2>1 DEF LegCloses, TypeOK, Stages, moveVars
<1>9. ASSUME NEW n \in Moves, NEW t \in Threads, ServerLands(n, t) PROVE TypeOK'
  BY <1>0, <1>9 DEF ServerLands, TypeOK, Truths, Replies, headVars, legVars
<1>10. ASSUME NEW n \in Moves, ServerRefuses(n) PROVE TypeOK'
  BY <1>0, <1>10 DEF ServerRefuses, TypeOK, Truths, Replies, headVars, legVars
<1>11. CASE UNCHANGED vars
  BY <1>0, <1>11 DEF vars, TypeOK
<1> QED BY <1>2, <1>3, <1>4, <1>5, <1>6, <1>7, <1>8, <1>9, <1>10, <1>11 DEF Next, LegStep

LEMMA SmallSteps == IInv /\ [Next]_vars => ReplyInv' /\ SendInv' /\ StageInv'
<1> SUFFICES ASSUME IInv, [Next]_vars PROVE ReplyInv' /\ SendInv' /\ StageInv'
  OBVIOUS
<1> USE HeadAssumption
<1>0. TypeOK /\ ReplyInv /\ SendInv /\ StageInv
  BY DEF IInv
<1>2. ASSUME NEW c \in Conns, KeyboardMove(c) PROVE ReplyInv' /\ SendInv' /\ StageInv'
  <2>1. /\ moves + 1 \in Moves /\ moves' = moves + 1 /\ truth' = truth /\ reply' = reply /\ dest' = dest
        /\ asker' = [asker EXCEPT ![moves + 1] = c] /\ sending' = [sending EXCEPT ![c] = moves + 1]
        /\ stage' = [stage EXCEPT ![c] = "sending"]
    BY <1>0, <1>2 DEF KeyboardMove, TypeOK
  <2>2. SendInv'
    BY <1>0, <2>1 DEF SendInv, TypeOK
  <2> QED BY <1>0, <2>1, <2>2 DEF ReplyInv, StageInv, TypeOK
<1>3. ASSUME NEW c \in Conns, HandedOver(c) PROVE ReplyInv' /\ SendInv' /\ StageInv'
  BY <1>0, <1>3 DEF HandedOver, TypeOK, ReplyInv, SendInv, StageInv, moveVars
<1>4. ASSUME NEW c \in Conns, HandOffRefused(c) \/ HandOffExpires(c) PROVE ReplyInv' /\ SendInv' /\ StageInv'
  <2>1. /\ truth' = [truth EXCEPT ![sending[c]] = "never"] /\ sending' = [sending EXCEPT ![c] = 0]
        /\ stage[c] = "sending" /\ stage' = [stage EXCEPT ![c] = "ending"]
        /\ UNCHANGED <<moves, asker, reply, dest>>
    BY <1>4 DEF HandOffRefused, HandOffExpires
  <2>2. sending[c] \in Moves /\ sending[c] <= moves /\ asker[sending[c]] = c /\ truth[sending[c]] = "unknown"
    BY <1>0, <2>1 DEF SendInv, StageInv, TypeOK
  <2>3. SendInv'
    BY <1>0, <2>1, <2>2 DEF SendInv, TypeOK
  <2>4. ReplyInv'
    BY <1>0, <2>1, <2>2 DEF ReplyInv, TypeOK
  <2> QED BY <1>0, <2>1, <2>3, <2>4 DEF StageInv, TypeOK
<1>5. ASSUME NEW c \in Conns, NEW t \in Threads, Unsubscribe(c, t) PROVE ReplyInv' /\ SendInv' /\ StageInv'
  BY <1>0, <1>5 DEF Unsubscribe, ReplyInv, SendInv, StageInv, legVars, moveVars
<1>6. ASSUME NEW c \in Conns, NEW n \in Moves, ObserveAnswer(c, n) PROVE ReplyInv' /\ SendInv' /\ StageInv'
  BY <1>0, <1>6 DEF ObserveAnswer, TypeOK, ReplyInv, SendInv, StageInv
<1>7. ASSUME NEW c \in Conns, FrameDelivered(c) \/ FrameUndeliverable(c) \/ LegEnds(c) \/ LegCloses(c)
      PROVE ReplyInv' /\ SendInv' /\ StageInv'
  BY <1>0, <1>7 DEF FrameDelivered, FrameUndeliverable, LegEnds, LegCloses, TypeOK, ReplyInv, SendInv,
                    StageInv, moveVars
<1>8. ASSUME NEW n \in Moves, NEW t \in Threads, ServerLands(n, t) PROVE ReplyInv' /\ SendInv' /\ StageInv'
  BY <1>0, <1>8 DEF ServerLands, AtServer, TypeOK, ReplyInv, SendInv, StageInv, legVars
<1>9. ASSUME NEW n \in Moves, ServerRefuses(n) PROVE ReplyInv' /\ SendInv' /\ StageInv'
  BY <1>0, <1>9 DEF ServerRefuses, AtServer, TypeOK, ReplyInv, SendInv, StageInv, legVars
<1>10. CASE UNCHANGED vars
  BY <1>0, <1>10 DEF vars, ReplyInv, SendInv, StageInv
<1> QED BY <1>2, <1>3, <1>4, <1>5, <1>6, <1>7, <1>8, <1>9, <1>10 DEF Next, LegStep

\* What is known of the moves so far stays known.
KeepsKnown == \A n \in Moves : truth[n] # "unknown" => truth'[n] = truth[n] /\ dest'[n] = dest[n]

\* A step that leaves the head alone, and one that unbinds it.
LEMMA HeadKept ==
  ASSUME TypeOK, HeadInv, KeepsKnown, head' = head, moves' = moves, off' = off
  PROVE  HeadInv'
<1> USE HeadAssumption
<1>1. moves \in Nat /\ moves + 1 \in Nat
  BY DEF TypeOK
<1>2. ASSUME head.st = "on" PROVE ProvenBefore(head.thread, moves + 1)'
  BY <1>1, <1>2, ProvenStable DEF HeadInv, KeepsKnown, ProvenBefore
<1>3. ASSUME head.st = "moving", head.thread # NoThread PROVE ProvenBefore(head.thread, moves)'
  BY <1>1, <1>3, ProvenStable DEF HeadInv, KeepsKnown, ProvenBefore
<1> QED BY <1>2, <1>3 DEF HeadInv

LEMMA HeadUnbound ==
  ASSUME head' = Unbound
  PROVE  HeadInv'
  BY DEF HeadInv, Unbound

\* Putting back the head of a move that provably did not happen.
LEMMA HeadRestored ==
  ASSUME TypeOK, HeadInv, KeepsKnown, head.st = "moving", truth'[head.move] = "never",
         TypeOK', Restore, moves' = moves, off' = off
  PROVE  HeadInv'
<1> USE HeadAssumption
<1>1. CASE head.thread = NoThread
  BY <1>1, HeadUnbound DEF Restore, PutBack
<1>2. CASE head.thread # NoThread
  <2>1. moves \in Moves /\ moves \in Nat /\ head.move = moves /\ ProvenBefore(head.thread, moves)
    BY <1>2 DEF HeadInv, TypeOK
  <2>2. \E n \in Moves :
          /\ n < moves /\ truth'[n] = "landed" /\ dest'[n] = head.thread
          /\ \A m \in Moves : n < m /\ m < moves => truth'[m] = "never"
    BY <2>1 DEF ProvenBefore, KeepsKnown
  <2>3. \E n \in Moves :
          /\ n < moves + 1 /\ truth'[n] = "landed" /\ dest'[n] = head.thread
          /\ \A m \in Moves : n < m /\ m < moves + 1 => truth'[m] = "never"
    BY <2>1, <2>2
  <2>4. /\ head' = On(head.thread, head.left) /\ head.thread \in Threads
        /\ head'.st = "on" /\ head'.thread = head.thread /\ head'.left = head.left
    BY <1>2 DEF Restore, PutBack, TypeOK, On
  <2>5. ProvenBefore(head.thread, moves + 1)'
    BY <2>3, <2>4 DEF ProvenBefore
  <2> QED BY <2>4, <2>5 DEF HeadInv
<1> QED BY <1>1, <1>2

LEMMA HeadStep == IInv /\ [Next]_vars => HeadInv'
<1> SUFFICES ASSUME IInv, [Next]_vars PROVE HeadInv'
  OBVIOUS
<1> USE HeadAssumption
<1>0. TypeOK /\ HeadInv /\ ReplyInv /\ SendInv /\ StageInv /\ TypeOK'
  BY TypeStep DEF IInv
<1>2. ASSUME NEW c \in Conns, KeyboardMove(c) PROVE HeadInv'
  <2>1. /\ moves + 1 \in Moves /\ moves' = moves + 1 /\ off' = off /\ truth' = truth /\ dest' = dest
        /\ BeginMove(c, moves + 1) /\ head.thread \in Threads \cup {NoThread} /\ head.left \in BOOLEAN
    BY <1>0, <1>2 DEF KeyboardMove, TypeOK
  <2>2. CASE head.st = "moving"
    <3>1. head' = Moving(c, moves + 1, NoThread, FALSE)
      BY <2>1, <2>2 DEF BeginMove
    <3>2. head'.st = "moving" /\ head'.thread = NoThread /\ head'.move = moves + 1
      BY <3>1 DEF Moving
    <3> QED BY <2>1, <3>2 DEF HeadInv
  <2>3. CASE head.st # "moving"
    <3>1. head' = Moving(c, moves + 1, head.thread, head.left)
      BY <2>1, <2>3 DEF BeginMove
    <3>2. /\ head'.st = "moving" /\ head'.thread = head.thread /\ head'.move = moves + 1
          /\ head'.left = head.left
      BY <3>1 DEF Moving
    <3>3. head.thread # NoThread => ProvenBefore(head.thread, moves + 1)
      BY <1>0, <2>3 DEF HeadInv, TypeOK
    <3>4. head.thread # NoThread => ProvenBefore(head.thread, moves)'
      BY <2>1, <3>2, <3>3 DEF ProvenBefore
    <3> QED BY <1>0, <2>1, <3>2, <3>4 DEF HeadInv
  <2> QED BY <2>2, <2>3
<1>3. ASSUME NEW c \in Conns, HandedOver(c) PROVE HeadInv'
  BY <1>0, <1>3, HeadKept DEF HandedOver, KeepsKnown, headVars, moveVars
<1>4. ASSUME NEW c \in Conns, HandOffRefused(c) PROVE HeadInv'
  <2>1. KeepsKnown /\ moves' = moves /\ off' = off /\ truth'[sending[c]] = "never"
    BY <1>0, <1>4 DEF HandOffRefused, KeepsKnown, SendInv, StageInv, TypeOK
  <2>2. CASE head.st = "moving" /\ head.conn = c /\ head.move = sending[c]
    BY <1>0, <1>4, <2>1, <2>2, HeadRestored DEF HandOffRefused
  <2>3. CASE ~(head.st = "moving" /\ head.conn = c /\ head.move = sending[c])
    BY <1>0, <1>4, <2>1, <2>3, HeadKept DEF HandOffRefused, headVars
  <2> QED BY <2>2, <2>3
<1>5. ASSUME NEW c \in Conns, HandOffExpires(c) PROVE HeadInv'
  <2>1. KeepsKnown
    BY <1>0, <1>5 DEF HandOffExpires, KeepsKnown, SendInv, StageInv, TypeOK
  <2> QED BY <1>0, <1>5, <2>1, HeadKept DEF HandOffExpires, headVars
<1>6. ASSUME NEW c \in Conns, NEW t \in Threads, Unsubscribe(c, t) PROVE HeadInv'
  <2>1. /\ UNCHANGED <<moves, truth, dest>> /\ off' = off \cup {t}
        /\ head' = IF head.st # "unbound" /\ head.thread = t THEN [head EXCEPT !.left = TRUE] ELSE head
    BY <1>6 DEF Unsubscribe, MarkLeft, moveVars
  <2>2. /\ head'.st = head.st /\ head'.thread = head.thread /\ head'.move = head.move
        /\ head'.left = head.left \/ (head'.left /\ head.thread = t)
        /\ head.st # "unbound" /\ head.thread = t => head'.left
    BY <1>0, <2>1 DEF TypeOK
  <2>3. /\ head.st = "on" => ProvenBefore(head.thread, moves + 1)'
        /\ head.st = "moving" /\ head.thread # NoThread => ProvenBefore(head.thread, moves)'
    BY <1>0, <2>1, <2>2 DEF HeadInv, ProvenBefore
  <2>4. head'.thread # NoThread /\ ~head'.left => head'.thread \notin off'
    BY <1>0, <2>1, <2>2 DEF HeadInv
  <2> QED BY <1>0, <2>1, <2>2, <2>3, <2>4 DEF HeadInv
<1>7. ASSUME NEW c \in Conns, NEW n \in Moves, ObserveAnswer(c, n) PROVE HeadInv'
  <2>1. moves' = moves /\ UNCHANGED <<truth, dest>> /\ KeepsKnown
    BY <1>7 DEF ObserveAnswer, KeepsKnown
  <2>2. CASE UNCHANGED <<headVars, off, been>>
    BY <1>0, <2>1, <2>2, HeadKept DEF headVars
  <2>3. CASE head.st = "moving" /\ head.move = n /\ reply[n] = "result" /\ Land(dest[n]) /\ off' = off \ {dest[n]}
    <3>1. truth[n] = "landed" /\ dest[n] \in Threads /\ n = moves
      BY <1>0, <2>3 DEF ReplyInv, HeadInv
    <3>2. head'.st = "on" /\ head'.thread = dest[n] /\ ~head'.left
      BY <2>3 DEF Land, On
    <3>3. ProvenBefore(dest[n], moves + 1)
      BY <1>0, <3>1 DEF ProvenBefore, TypeOK
    <3>4. ProvenBefore(head.thread, moves + 1)'
      BY <2>1, <3>2, <3>3 DEF ProvenBefore
    <3> QED BY <2>3, <3>1, <3>2, <3>4 DEF HeadInv
  <2>4. CASE head.st = "moving" /\ head.move = n /\ reply[n] = "error" /\ Restore /\ UNCHANGED <<off, been>>
    BY <1>0, <2>1, <2>4, HeadRestored DEF ReplyInv
  <2>5. CASE Forget
    BY <2>5, HeadUnbound DEF Forget
  <2> QED BY <1>7, <2>2, <2>3, <2>4, <2>5 DEF ObserveAnswer
<1>8. ASSUME NEW c \in Conns, FrameDelivered(c) \/ FrameUndeliverable(c) \/ LegEnds(c) PROVE HeadInv'
  BY <1>0, <1>8, HeadKept DEF FrameDelivered, FrameUndeliverable, LegEnds, KeepsKnown, headVars, moveVars
<1>9. ASSUME NEW c \in Conns, LegCloses(c) PROVE HeadInv'
  <2>1. Forget \/ (UNCHANGED headVars /\ UNCHANGED <<moveVars, off>>)
    BY <1>9 DEF LegCloses
  <2> QED BY <1>0, <2>1, HeadKept, HeadUnbound DEF Forget, KeepsKnown, headVars, moveVars
<1>10. ASSUME NEW n \in Moves, NEW t \in Threads, ServerLands(n, t) PROVE HeadInv'
  <2>1. KeepsKnown
    BY <1>0, <1>10 DEF ServerLands, AtServer, KeepsKnown, TypeOK
  <2> QED BY <1>0, <1>10, <2>1, HeadKept DEF ServerLands, headVars
<1>11. ASSUME NEW n \in Moves, ServerRefuses(n) PROVE HeadInv'
  <2>1. KeepsKnown
    BY <1>0, <1>11 DEF ServerRefuses, AtServer, KeepsKnown, TypeOK
  <2> QED BY <1>0, <1>11, <2>1, HeadKept DEF ServerRefuses, headVars
<1>12. CASE UNCHANGED vars
  BY <1>0, <1>12, HeadKept DEF vars, KeepsKnown
<1> QED BY <1>2, <1>3, <1>4, <1>5, <1>6, <1>7, <1>8, <1>9, <1>10, <1>11, <1>12 DEF Next, LegStep

-----------------------------------------------------------------------------

\* The inductive invariant holds of every behaviour of the head (session.rs).
THEOREM Invariant == Spec => []IInv
<1>1. IInv /\ [Next]_vars => IInv'
  BY TypeStep, SmallSteps, HeadStep DEF IInv
<1> QED BY InitIInv, <1>1, PTL DEF Spec

\* Type correctness of the binding, the keyboard legs and their moves.
THEOREM TypeCorrect == Spec => []TypeOK
<1>1. IInv => TypeOK
  BY DEF IInv
<1> QED BY Invariant, <1>1, PTL

\* What the inductive invariant says of a bound head is that its position is proven.
LEMMA InvProves == IInv => HeadIsProven
<1> SUFFICES ASSUME IInv, BoundThread # NoThread
             PROVE  (\E n \in Moves : KeyboardIsOn(BoundThread, n)) /\ BoundThread \notin off
  BY DEF HeadIsProven
<1>1. /\ BoundThread = head.thread /\ head.st = "on" /\ ~head.left
      /\ TypeOK /\ ProvenBefore(head.thread, moves + 1) /\ head.thread \notin off
  BY DEF IInv, HeadInv, BoundThread
<1>2. PICK n \in Moves :
        /\ n < moves + 1 /\ truth[n] = "landed" /\ dest[n] = head.thread
        /\ \A m \in Moves : n < m /\ m < moves + 1 => truth[m] = "never"
  BY <1>1 DEF ProvenBefore
<1>3. KeyboardIsOn(BoundThread, n)
  BY <1>1, <1>2, HeadAssumption DEF KeyboardIsOn, TypeOK
<1> QED BY <1>1, <1>3

\* The phone is judged only against a thread the keyboard provably is on (bound_thread),
\* however moves, refusals, answers, closings and unsubscribes interleave.
THEOREM HeadIsProvenHolds == Spec => []HeadIsProven
  BY Invariant, InvProves, PTL

\* A step retires what it takes off the head, while there is room; a full list is final.
Retains ==
  /\ Cardinality(retired) >= MaxRetired => retired' = retired
  /\ ~(Cardinality(retired) >= MaxRetired) =>
       Readable \subseteq Readable' /\ been' \subseteq been \cup Readable'

LEMMA RetainsKept ==
  ASSUME retired' = retired, head'.thread = head.thread, been' = been
  PROVE  Retains
  BY DEF Retains, Readable

LEMMA RetainsForget ==
  ASSUME Forget, been' = been
  PROVE  Retains
  BY DEF Retains, Readable, Forget, Retire, Unbound

LEMMA RetainsRestore ==
  ASSUME Restore, been' = been
  PROVE  Retains
<1>1. head'.thread = head.thread
  BY DEF Restore, PutBack, Unbound, On
<1> QED BY <1>1, RetainsKept DEF Restore

LEMMA RetainStep == IInv /\ [Next]_vars => Retains
<1> SUFFICES ASSUME IInv, [Next]_vars PROVE Retains
  OBVIOUS
<1> USE HeadAssumption
<1>1. TypeOK /\ ReplyInv
  BY DEF IInv
<1>2. ASSUME NEW c \in Conns, KeyboardMove(c) PROVE Retains
  <2>1. BeginMove(c, moves + 1) /\ been' = been
    BY <1>2 DEF KeyboardMove
  <2>2. CASE head.st = "moving"
    <3>1. retired' = Retire(head.thread) /\ head'.thread = NoThread
      BY <2>1, <2>2 DEF BeginMove, Moving
    <3> QED BY <2>1, <3>1 DEF Retains, Readable, Retire
  <2>3. CASE head.st # "moving"
    <3>1. retired' = retired /\ head'.thread = head.thread
      BY <2>1, <2>3 DEF BeginMove, Moving
    <3> QED BY <2>1, <3>1, RetainsKept
  <2> QED BY <2>2, <2>3
<1>3. ASSUME NEW c \in Conns,
             HandedOver(c) \/ HandOffExpires(c) \/ FrameDelivered(c) \/ FrameUndeliverable(c) \/ LegEnds(c)
      PROVE  Retains
  BY <1>3, RetainsKept DEF HandedOver, HandOffExpires, FrameDelivered, FrameUndeliverable, LegEnds, headVars
<1>4. ASSUME NEW c \in Conns, HandOffRefused(c) PROVE Retains
  BY <1>4, RetainsKept, RetainsRestore DEF HandOffRefused, headVars
<1>5. ASSUME NEW c \in Conns, NEW t \in Threads, Unsubscribe(c, t) PROVE Retains
  <2>1. head'.thread = head.thread
    BY <1>1, <1>5 DEF Unsubscribe, MarkLeft, TypeOK
  <2> QED BY <1>5, <2>1, RetainsKept DEF Unsubscribe
<1>6. ASSUME NEW c \in Conns, NEW n \in Moves, ObserveAnswer(c, n) PROVE Retains
  <2>1. CASE UNCHANGED <<headVars, off, been>>
    BY <2>1, RetainsKept DEF headVars
  <2>2. CASE reply[n] = "result" /\ Land(dest[n]) /\ been' = been \cup {dest[n]}
    <3>1. dest[n] \in Threads /\ head'.thread = dest[n]
      BY <1>1, <2>2 DEF ReplyInv, Land, On
    <3>2. retired' = IF head.thread = dest[n] THEN retired ELSE Retire(head.thread)
      BY <2>2 DEF Land
    <3> QED BY <2>2, <3>1, <3>2 DEF Retains, Readable, Retire
  <2>3. CASE (Restore \/ Forget) /\ UNCHANGED <<off, been>>
    BY <2>3, RetainsRestore, RetainsForget
  <2> QED BY <1>6, <2>1, <2>2, <2>3 DEF ObserveAnswer
<1>7. ASSUME NEW c \in Conns, LegCloses(c) PROVE Retains
  BY <1>7, RetainsKept, RetainsForget DEF LegCloses, headVars
<1>8. ASSUME NEW n \in Moves, ServerRefuses(n) \/ (\E t \in Threads : ServerLands(n, t)) PROVE Retains
  BY <1>8, RetainsKept DEF ServerRefuses, ServerLands, headVars
<1>9. CASE UNCHANGED vars
  BY <1>9, RetainsKept DEF vars
<1> QED BY <1>2, <1>3, <1>4, <1>5, <1>6, <1>7, <1>8, <1>9 DEF Next, LegStep

\* No thread that was the head is lost to the phone's reads (is_session_thread) while the
\* retired list has room.
THEOREM HeadsStayReadableHolds == Spec => []HeadsStayReadable
<1>1. Init => HeadsStayReadable
  BY DEF Init, HeadsStayReadable
<1>2. IInv /\ HeadsStayReadable /\ [Next]_vars => HeadsStayReadable'
  BY RetainStep DEF HeadsStayReadable, Retains
<1> QED BY Invariant, <1>1, <1>2, PTL DEF Spec

\* A step that binds a thread, and what proves it.
Binds == BoundThread' # BoundThread /\ BoundThread' # NoThread
Proven ==
  \/ \E n \in Moves : reply[n] = "result" /\ reply'[n] = "none" /\ dest[n] = BoundThread'
  \/ head.st = "moving" /\ head.thread = BoundThread' /\ truth'[head.move] = "never"

LEMMA BindStep == IInv /\ [Next]_vars /\ Binds => Proven
<1> SUFFICES ASSUME IInv, [Next]_vars, Binds PROVE Proven
  OBVIOUS
<1> USE HeadAssumption DEF Binds, Proven
<1>0. TypeOK /\ ReplyInv /\ StageInv
  BY DEF IInv
<1>1. ASSUME NEW c \in Conns, KeyboardMove(c) PROVE FALSE
  BY <1>1 DEF KeyboardMove, BeginMove, Moving, BoundThread
<1>2. ASSUME head' = head PROVE FALSE
  BY <1>2 DEF BoundThread
<1>3. ASSUME head' = Unbound PROVE FALSE
  BY <1>3 DEF BoundThread, Unbound
<1>4. ASSUME Restore PROVE head.thread = BoundThread'
  BY <1>4, <1>3 DEF Restore, PutBack, On, BoundThread
<1>5. ASSUME NEW c \in Conns, HandOffRefused(c) PROVE Proven
  <2>1. sending[c] \in Moves /\ truth'[sending[c]] = "never"
    BY <1>0, <1>5 DEF HandOffRefused, StageInv, TypeOK
  <2> QED BY <1>2, <1>4, <1>5, <2>1 DEF HandOffRefused, headVars
<1>6. ASSUME NEW c \in Conns, NEW t \in Threads, Unsubscribe(c, t) PROVE FALSE
  BY <1>0, <1>6 DEF Unsubscribe, MarkLeft, BoundThread, TypeOK
<1>7. ASSUME NEW c \in Conns, NEW n \in Moves, ObserveAnswer(c, n) PROVE Proven
  <2>1. reply'[n] = "none" /\ truth' = truth
    BY <1>0, <1>7 DEF ObserveAnswer, TypeOK
  <2>2. CASE UNCHANGED headVars
    BY <1>2, <2>2 DEF headVars
  <2>3. CASE reply[n] = "result" /\ Land(dest[n])
    <3>1. BoundThread' = dest[n]
      BY <2>3 DEF Land, On, BoundThread
    <3> QED BY <2>1, <2>3, <3>1
  <2>4. CASE head.st = "moving" /\ head.move = n /\ reply[n] = "error" /\ Restore
    BY <1>0, <1>4, <2>1, <2>4 DEF ReplyInv
  <2>5. CASE Forget
    BY <1>3, <2>5 DEF Forget
  <2> QED BY <1>7, <2>2, <2>3, <2>4, <2>5 DEF ObserveAnswer, headVars
<1>8. ASSUME NEW c \in Conns, LegCloses(c) PROVE FALSE
  BY <1>2, <1>3, <1>8 DEF LegCloses, Forget, headVars
<1>9. ASSUME NEW c \in Conns,
             HandedOver(c) \/ HandOffExpires(c) \/ FrameDelivered(c) \/ FrameUndeliverable(c) \/ LegEnds(c)
      PROVE  FALSE
  BY <1>2, <1>9 DEF HandedOver, HandOffExpires, FrameDelivered, FrameUndeliverable, LegEnds, headVars
<1>10. ASSUME NEW n \in Moves, ServerRefuses(n) \/ (\E t \in Threads : ServerLands(n, t)) PROVE FALSE
  BY <1>2, <1>10 DEF ServerRefuses, ServerLands, headVars
<1>11. CASE UNCHANGED vars
  BY <1>2, <1>11 DEF vars
<1> QED BY <1>1, <1>5, <1>6, <1>7, <1>8, <1>9, <1>10, <1>11 DEF Next, LegStep

\* A head is bound only by its own landing answer, or put back after a move that provably
\* did not happen (observe_server_frame, rollback_move).
THEOREM BindsByProofHolds == Spec => BindsByProof
<1>1. IInv /\ [Next]_vars => [Binds => Proven]_vars
  BY BindStep
<1>2. BindsByProof <=> [][Binds => Proven]_vars
  BY DEF BindsByProof, Binds, Proven
<1> QED BY Invariant, <1>1, <1>2, PTL DEF Spec
=============================================================================
