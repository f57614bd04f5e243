-------------------------- MODULE HeadFanout_proofs --------------------------
(***************************************************************************)
(* Theorems about the head on its way to the daemon's legs, for any        *)
(* threads, legs and bounds.  SessionHead's inductive invariant carries    *)
(* over to the composition: every step of the fan-out is a step of the     *)
(* head, or leaves it alone, or moves one keyboard task on to its next     *)
(* frame.  To it is added that every debt of a daemon leg is asked for.    *)
(***************************************************************************)
EXTENDS HeadFanout, SessionHead_proofs

FanoutIInv == IInv /\ FanoutTypeOK /\ OwedIsAsked

-----------------------------------------------------------------------------

USE DEF Moves

(* The head within the composition.                                        *)

\* A keyboard's task takes up a frame that says nothing of the head.
TakesFrame ==
  /\ UNCHANGED <<head, retired, sending, moves, asker, reply, truth, dest, off, been>>
  /\ \E c \in Conns : stage[c] = "reading" /\ stage' = [stage EXCEPT ![c] = "delivering"]

\* Every step of the fan-out is a step of the head, or none, or takes up such a frame.
LEMMA FanoutSteps ==
  ASSUME [FanoutNext]_allVars
  PROVE  [Next]_vars \/ TakesFrame
<1>1. ASSUME NEW c \in Conns, KeyboardHearsNews(c) PROVE TakesFrame
  BY <1>1 DEF KeyboardHearsNews, TakesFrame, headVars, moveVars
<1>2. ASSUME NEW c \in Conns,
             \/ KeyboardQuiet(c) \/ KeyboardRefused(c) \/ KeyboardDelivered(c)
             \/ KeyboardUndeliverable(c) \/ KeyboardCloses(c)
      PROVE  LegStep(c)
  BY <1>2 DEF KeyboardQuiet, KeyboardRefused, KeyboardDelivered, KeyboardUndeliverable, KeyboardCloses,
              LegStep
<1>3. ASSUME NEW c \in Conns, KeyboardAsks(c) PROVE UNCHANGED vars
  BY <1>3 DEF KeyboardAsks
<1>4. ASSUME NEW l \in Ccds,
             \/ CcdSubscribes(l) \/ CcdHearsNews(l) \/ CcdHearsOther(l) \/ CcdTask(l) \/ CcdEnds(l)
      PROVE  UNCHANGED vars
  BY <1>4 DEF CcdSubscribes, CcdHearsNews, CcdHearsOther, CcdTask, CcdAsks, CcdDelivered, CcdWoken, CcdEnds
<1>5. ASSUME NEW n \in Moves, ServerRefuses(n) \/ \E t \in Threads : ServerMoves(n, t)
      PROVE  Next
  BY <1>5 DEF ServerMoves, Next
<1>6. ASSUME NEW t \in Threads, ServerAnnounces(t) PROVE UNCHANGED vars
  BY <1>6 DEF ServerAnnounces
<1>7. CASE UNCHANGED allVars
  BY <1>7 DEF allVars
<1> QED BY <1>1, <1>2, <1>3, <1>4, <1>5, <1>6, <1>7 DEF FanoutNext, KeyboardTask, Next

\* The head's own invariant is kept by every step of the fan-out.
LEMMA HeadInside ==
  ASSUME IInv, [FanoutNext]_allVars
  PROVE  IInv'
<1>1. CASE [Next]_vars
  BY <1>1, TypeStep, SmallSteps, HeadStep DEF IInv
<1>2. CASE TakesFrame
  <2>0. TypeOK /\ HeadInv /\ ReplyInv /\ SendInv /\ StageInv
    BY DEF IInv
  <2>1. PICK c \in Conns : stage[c] = "reading" /\ stage' = [stage EXCEPT ![c] = "delivering"]
    BY <1>2 DEF TakesFrame
  <2>2. UNCHANGED <<head, retired, sending, moves, asker, reply, truth, dest, off, been>>
    BY <1>2 DEF TakesFrame
  <2>3. TypeOK'
    BY <2>0, <2>1, <2>2 DEF TypeOK, Stages
  <2>4. HeadInv'
    BY <2>0, <2>2, HeadKept DEF KeepsKnown
  <2>5. ReplyInv' /\ SendInv'
    BY <2>0, <2>2 DEF ReplyInv, SendInv
  <2>6. StageInv'
    BY <2>0, <2>1, <2>2 DEF StageInv, TypeOK
  <2> QED BY <2>3, <2>4, <2>5, <2>6 DEF IInv
<1> QED BY <1>1, <1>2, FanoutSteps

-----------------------------------------------------------------------------
(* Typing.                                                                 *)

\* note_announcement keeps at most MAX_ANNOUNCEMENTS threads.
LEMMA AnnounceBound ==
  ASSUME announced \in Seq(Threads), Len(announced) <= MaxAnnouncements, NEW t \in Threads
  PROVE  Announce(t) \in Seq(Threads) /\ Len(Announce(t)) <= MaxAnnouncements
<1>1. CASE \E k \in DOMAIN announced : announced[k] = t
  BY <1>1 DEF Announce
<1>2. CASE ~\E k \in DOMAIN announced : announced[k] = t
  <2> DEFINE a == Append(announced, t)
  <2>1. a \in Seq(Threads) /\ Len(a) = Len(announced) + 1 /\ a # <<>>
    OBVIOUS
  <2>2. Announce(t) = IF Len(a) > MaxAnnouncements THEN Tail(a) ELSE a
    BY <1>2 DEF Announce
  <2> HIDE DEF a
  <2>3. Tail(a) \in Seq(Threads) /\ Len(Tail(a)) = Len(a) - 1
    BY <2>1
  <2> QED BY <2>1, <2>2, <2>3, FanoutAssumption
<1> QED BY <1>1, <1>2

\* The oldest announcement on its way to a leg, and what is left behind it.
LEMMA NewsHead ==
  ASSUME news \in [Legs -> Seq(Threads)], NEW k \in Legs, news[k] # <<>>
  PROVE  Head(news[k]) \in Threads /\ Tail(news[k]) \in Seq(Threads)
<1>1. news[k] \in Seq(Threads)
  OBVIOUS
<1> QED BY <1>1

LEMMA FanoutTypeStep ==
  ASSUME FanoutTypeOK, TypeOK', FanoutNext
  PROVE  FanoutTypeOK'
<1>0. /\ sub \in [Ccds -> {"connected", "asking", "reading", "delivering", "closed"}]
      /\ told \in [Ccds -> Threads \cup {NoThread}] /\ wake \in [Ccds -> BOOLEAN]
      /\ announced \in Seq(Threads) /\ Len(announced) <= MaxAnnouncements
      /\ news \in [Legs -> Seq(Threads)] /\ asking \subseteq Conns
      /\ chatter \in 0..MaxChatter /\ missed \in BOOLEAN
  BY DEF FanoutTypeOK
<1>1. DeliverHead => wake' \in [Ccds -> BOOLEAN] /\ missed' \in BOOLEAN
  BY <1>0 DEF DeliverHead, Owed
<1>2. ASSUME NEW c \in Conns PROVE c \in Legs
  BY DEF Legs
<1>3. ASSUME NEW l \in Ccds PROVE l \in Legs
  BY DEF Legs
<1>4. ASSUME NEW c \in Conns, KeyboardQuiet(c) \/ KeyboardRefused(c) \/ KeyboardUndeliverable(c) PROVE FanoutTypeOK'
  BY <1>0, <1>4 DEF KeyboardQuiet, KeyboardRefused, KeyboardUndeliverable, fanVars, FanoutTypeOK
<1>5. ASSUME NEW c \in Conns, KeyboardAsks(c) \/ KeyboardDelivered(c) PROVE FanoutTypeOK'
  BY <1>0, <1>1, <1>5 DEF KeyboardAsks, KeyboardDelivered, FanoutTypeOK
<1>6. ASSUME NEW c \in Conns, KeyboardHearsNews(c) PROVE FanoutTypeOK'
  <2>1. news[c] # <<>> /\ c \in Legs
    BY <1>2, <1>6 DEF KeyboardHearsNews
  <2>2. Head(news[c]) \in Threads /\ Tail(news[c]) \in Seq(Threads)
    BY <1>0, <2>1, NewsHead
  <2>3. announced' \in Seq(Threads) /\ Len(announced') <= MaxAnnouncements
    BY <1>0, <1>6, <2>2, AnnounceBound DEF KeyboardHearsNews
  <2>4. news' \in [Legs -> Seq(Threads)]
    BY <1>0, <1>6, <2>1, <2>2 DEF KeyboardHearsNews
  <2> QED BY <1>0, <1>6, <2>3, <2>4 DEF KeyboardHearsNews, FanoutTypeOK
<1>7. ASSUME NEW c \in Conns, KeyboardCloses(c) PROVE FanoutTypeOK'
  <2>1. news' \in [Legs -> Seq(Threads)]
    BY <1>0, <1>2, <1>7 DEF KeyboardCloses
  <2> QED BY <1>0, <1>7, <2>1 DEF KeyboardCloses, FanoutTypeOK
<1>8. ASSUME NEW l \in Ccds, CcdSubscribes(l) \/ CcdHearsOther(l) PROVE FanoutTypeOK'
  BY <1>0, <1>8, FanoutAssumption DEF CcdSubscribes, CcdHearsOther, FanoutTypeOK
<1>9. ASSUME NEW l \in Ccds, CcdAsks(l) \/ CcdDelivered(l) PROVE FanoutTypeOK'
  BY <1>0, <1>1, <1>9 DEF CcdAsks, CcdDelivered, FanoutTypeOK
<1>10. ASSUME NEW l \in Ccds, CcdHearsNews(l) PROVE FanoutTypeOK'
  <2>1. news[l] # <<>> /\ l \in Legs
    BY <1>3, <1>10 DEF CcdHearsNews
  <2>2. Head(news[l]) \in Threads /\ Tail(news[l]) \in Seq(Threads)
    BY <1>0, <2>1, NewsHead
  <2>3. announced' \in Seq(Threads) /\ Len(announced') <= MaxAnnouncements
    BY <1>0, <1>10, <2>2, AnnounceBound DEF CcdHearsNews
  <2>4. news' \in [Legs -> Seq(Threads)]
    BY <1>0, <1>10, <2>1, <2>2 DEF CcdHearsNews
  <2>5. told' \in [Ccds -> Threads \cup {NoThread}]
    BY <1>0, <1>10, <2>2 DEF CcdHearsNews
  <2> QED BY <1>0, <1>10, <2>3, <2>4, <2>5 DEF CcdHearsNews, FanoutTypeOK
<1>11. ASSUME NEW l \in Ccds, CcdWoken(l) PROVE FanoutTypeOK'
  <2>1. BoundThread \in Threads \cup {NoThread}
    BY DEF FanoutTypeOK, TypeOK, BoundThread
  <2> QED BY <1>0, <1>11, <2>1 DEF CcdWoken, FanoutTypeOK
<1>12. ASSUME NEW l \in Ccds, CcdEnds(l) PROVE FanoutTypeOK'
  <2>1. news' \in [Legs -> Seq(Threads)]
    BY <1>0, <1>3, <1>12 DEF CcdEnds
  <2> QED BY <1>0, <1>12, <2>1 DEF CcdEnds, FanoutTypeOK
<1>13. ASSUME NEW t \in Threads, Broadcast(t) PROVE news' \in [Legs -> Seq(Threads)]
  <2>1. \A k \in Legs : news[k] \in Seq(Threads) /\ Append(news[k], t) \in Seq(Threads)
    BY <1>0
  <2> QED BY <1>0, <1>13, <2>1 DEF Broadcast
<1>14. ASSUME NEW n \in Moves, NEW t \in Threads, ServerMoves(n, t) PROVE FanoutTypeOK'
  <2>1. news' \in [Legs -> Seq(Threads)]
    BY <1>0, <1>13, <1>14 DEF ServerMoves
  <2> QED BY <1>0, <1>14, <2>1 DEF ServerMoves, FanoutTypeOK
<1>15. ASSUME NEW t \in Threads, ServerAnnounces(t) PROVE FanoutTypeOK'
  <2>1. news' \in [Legs -> Seq(Threads)]
    BY <1>13, <1>15 DEF ServerAnnounces
  <2>2. chatter' \in 0..MaxChatter
    BY <1>0, <1>15, FanoutAssumption DEF ServerAnnounces
  <2> QED BY <1>0, <1>15, <2>1, <2>2 DEF ServerAnnounces, FanoutTypeOK
<1>16. ASSUME UNCHANGED fanVars PROVE FanoutTypeOK'
  BY <1>0, <1>16 DEF fanVars, FanoutTypeOK
<1> QED BY <1>4, <1>5, <1>6, <1>7, <1>8, <1>9, <1>10, <1>11, <1>12, <1>16, <1>14, <1>15
        DEF FanoutNext, KeyboardTask, CcdTask

-----------------------------------------------------------------------------
(* Every leg that is owed the head is woken, or a task is on its way to.   *)

\* The head the phone is judged against changes only with an answer its keyboard is then
\* sent, or with a move put back whose task then asks.
LEMMA BindsAsk ==
  ASSUME TypeOK, NEW c \in Conns, LegStep(c),
         BoundThread' # BoundThread, BoundThread' # NoThread
  PROVE  stage'[c] = "delivering" \/ HandOffRefused(c)
<1>1. head' # head
  BY DEF BoundThread
<1>2. ~KeyboardMove(c)
  BY DEF KeyboardMove, BeginMove, Moving, BoundThread
<1>3. ~\E t \in Threads : Unsubscribe(c, t)
  BY DEF Unsubscribe, MarkLeft, BoundThread, TypeOK
<1>4. ~LegCloses(c)
  BY <1>1 DEF LegCloses, Forget, Unbound, BoundThread, headVars
<1>5. ~(HandedOver(c) \/ HandOffExpires(c) \/ FrameDelivered(c) \/ FrameUndeliverable(c) \/ LegEnds(c))
  BY <1>1 DEF HandedOver, HandOffExpires, FrameDelivered, FrameUndeliverable, LegEnds, headVars
<1>6. ASSUME NEW n \in Moves, ObserveAnswer(c, n) PROVE stage'[c] = "delivering"
  BY <1>6 DEF ObserveAnswer, TypeOK
<1> QED BY <1>2, <1>3, <1>4, <1>5, <1>6 DEF LegStep

\* deliver_head leaves no leg owed and asleep.
LEMMA AsksAll ==
  ASSUME FanoutTypeOK, DeliverHead, head' = head, told' = told,
         \A l \in Ccds : l \in Subscribed' => l \in Subscribed
  PROVE  OwedIsAsked'
<1>1. \A l \in Ccds : Owed(l)' => Owed(l)
  BY DEF Owed, BoundThread
<1>2. \A l \in Ccds : Owed(l) => wake'[l]
  BY DEF DeliverHead
<1> QED BY <1>1, <1>2 DEF OwedIsAsked, AskComing

\* A step that puts no leg in debt and takes no promise back.
LEMMA DebtsKept ==
  ASSUME OwedIsAsked, missed => missed',
         \A l \in Ccds : Owed(l)' => Owed(l) \/ AskComing(l)' \/ missed',
         \A l \in Ccds : Owed(l)' /\ AskComing(l) => AskComing(l)' \/ missed'
  PROVE  OwedIsAsked'
  BY DEF OwedIsAsked

LEMMA OwedStep ==
  ASSUME FanoutTypeOK, OwedIsAsked, FanoutNext
  PROVE  OwedIsAsked'
<1>0. /\ TypeOK /\ stage \in [Conns -> Stages]
      /\ sub \in [Ccds -> {"connected", "asking", "reading", "delivering", "closed"}]
      /\ told \in [Ccds -> Threads \cup {NoThread}] /\ wake \in [Ccds -> BOOLEAN] /\ missed \in BOOLEAN
  BY DEF FanoutTypeOK, TypeOK
<1>1. ASSUME NEW c \in Conns, LegStep(c), ~FrameDelivered(c), ~FrameUndeliverable(c),
             UNCHANGED <<sub, told, wake, missed>>, asking \subseteq asking',
             HandOffRefused(c) => asking' # {} \/ head' = head
      PROVE  OwedIsAsked'
  <2>1. \A d \in Conns : stage[d] = "delivering" => stage'[d] = "delivering"
    BY <1>0, <1>1 DEF LegStep, KeyboardMove, HandedOver, HandOffRefused, HandOffExpires, Unsubscribe,
                      ObserveAnswer, LegEnds, LegCloses, legVars
  <2>2. \A l \in Ccds : AskComing(l) => AskComing(l)'
    BY <1>1, <2>1 DEF AskComing
  <2>3. CASE BoundThread' = BoundThread \/ BoundThread' = NoThread
    <3>1. \A l \in Ccds : Owed(l)' => Owed(l)
      BY <1>1, <2>3 DEF Owed, Subscribed
    <3> QED BY <1>1, <2>2, <3>1, DebtsKept
  <2>4. CASE BoundThread' # BoundThread /\ BoundThread' # NoThread
    <3>1. \A l \in Ccds : AskComing(l)'
      BY <1>0, <1>1, <2>4, BindsAsk DEF AskComing, BoundThread
    <3> QED BY <3>1 DEF OwedIsAsked
  <2> QED BY <2>3, <2>4
<1>2. ASSUME NEW c \in Conns, KeyboardQuiet(c) PROVE OwedIsAsked'
  <2>1. stage[c] \in {"reading", "sending"} /\ LegStep(c) /\ UNCHANGED fanVars
    BY <1>2 DEF KeyboardQuiet, LegStep, KeyboardMove, HandedOver, HandOffExpires, LegEnds, Unsubscribe, ObserveAnswer
  <2>2. ~FrameDelivered(c) /\ ~FrameUndeliverable(c)
    BY <2>1 DEF FrameDelivered, FrameUndeliverable
  <2>3. HandOffRefused(c) => head' = head
    <3>1. HandOffRefused(c) => stage[c] = "sending" /\ stage'[c] = "ending"
      BY <1>0 DEF HandOffRefused
    <3>2. stage[c] = "sending" /\ stage'[c] = "ending" => HandOffExpires(c)
      BY <1>0, <1>2 DEF KeyboardQuiet, KeyboardMove, HandedOver, LegEnds, Unsubscribe, ObserveAnswer
    <3> QED BY <3>1, <3>2 DEF HandOffExpires, headVars
  <2> QED BY <1>1, <2>1, <2>2, <2>3 DEF fanVars
<1>3. ASSUME NEW c \in Conns, KeyboardRefused(c) PROVE OwedIsAsked'
  <2>1. LegStep(c) /\ ~FrameDelivered(c) /\ ~FrameUndeliverable(c)
    BY <1>3 DEF KeyboardRefused, LegStep, HandOffRefused, FrameDelivered, FrameUndeliverable
  <2> QED BY <1>1, <1>3, <2>1 DEF KeyboardRefused
<1>4. ASSUME NEW c \in Conns, KeyboardCloses(c) PROVE OwedIsAsked'
  <2>1. LegStep(c) /\ ~FrameDelivered(c) /\ ~FrameUndeliverable(c) /\ ~HandOffRefused(c)
    BY <1>4 DEF KeyboardCloses, LegStep, LegCloses, FrameDelivered, FrameUndeliverable, HandOffRefused
  <2> QED BY <1>1, <1>4, <2>1 DEF KeyboardCloses
<1>5. ASSUME NEW c \in Conns, KeyboardHearsNews(c) PROVE OwedIsAsked'
  <2>1. stage'[c] = "delivering"
    BY <1>0, <1>5 DEF KeyboardHearsNews
  <2> QED BY <2>1 DEF OwedIsAsked, AskComing
<1>6. ASSUME NEW c \in Conns, KeyboardDelivered(c) \/ KeyboardAsks(c) PROVE OwedIsAsked'
  <2>1. DeliverHead /\ UNCHANGED <<head, told, sub>>
    BY <1>6 DEF KeyboardDelivered, KeyboardAsks, FrameDelivered, headVars, vars
  <2> QED BY <2>1, AsksAll DEF Subscribed
<1>7. ASSUME NEW c \in Conns, KeyboardUndeliverable(c) PROVE OwedIsAsked'
  BY <1>7 DEF KeyboardUndeliverable, OwedIsAsked
<1>8. ASSUME NEW l \in Ccds, CcdAsks(l) \/ CcdDelivered(l) PROVE OwedIsAsked'
  <2>1. /\ DeliverHead /\ UNCHANGED <<head, told>> /\ sub[l] \in {"asking", "delivering"}
        /\ sub' = [sub EXCEPT ![l] = "reading"]
    BY <1>8 DEF CcdAsks, CcdDelivered, vars
  <2>2. \A d \in Ccds : d \in Subscribed' => d \in Subscribed
    BY <1>0, <2>1 DEF Subscribed
  <2> QED BY <2>1, <2>2, AsksAll
\* A daemon leg's own step: the debts and promises of the other legs are not its business.
<1>9. ASSUME NEW l \in Ccds, UNCHANGED <<vars, asking, missed>>,
             \A d \in Ccds \ {l} : sub'[d] = sub[d] /\ told'[d] = told[d] /\ wake'[d] = wake[d],
             Owed(l)' => AskComing(l)'
      PROVE  OwedIsAsked'
  <2>1. \A d \in Ccds \ {l} : (Owed(d)' <=> Owed(d)) /\ (AskComing(d)' <=> AskComing(d))
    BY <1>9 DEF Owed, AskComing, Subscribed, BoundThread, vars
  <2> QED BY <1>9, <2>1 DEF OwedIsAsked
<1>10. ASSUME NEW l \in Ccds, CcdSubscribes(l) \/ CcdHearsNews(l) \/ CcdHearsOther(l) PROVE OwedIsAsked'
  <2>1. AskComing(l)'
    BY <1>0, <1>10 DEF CcdSubscribes, CcdHearsNews, CcdHearsOther, AskComing
  <2> QED BY <1>0, <1>9, <1>10, <2>1 DEF CcdSubscribes, CcdHearsNews, CcdHearsOther
<1>11. ASSUME NEW l \in Ccds, CcdWoken(l) PROVE OwedIsAsked'
  <2>1. BoundThread' = BoundThread /\ Subscribed' = Subscribed
    BY <1>11 DEF CcdWoken, vars, BoundThread, Subscribed
  <2>2. ~Owed(l)'
    BY <1>0, <1>11, <2>1 DEF CcdWoken, Owed
  <2> QED BY <1>0, <1>9, <1>11, <2>2 DEF CcdWoken
<1>12. ASSUME NEW l \in Ccds, CcdEnds(l) PROVE OwedIsAsked'
  <2>1. ~Owed(l)'
    BY <1>0, <1>12 DEF CcdEnds, Owed, Subscribed
  <2> QED BY <1>0, <1>9, <1>12, <2>1 DEF CcdEnds
<1>13. ASSUME UNCHANGED <<head, stage, sub, told, wake, asking, missed>> PROVE OwedIsAsked'
  BY <1>13 DEF OwedIsAsked, Owed, AskComing, Subscribed, BoundThread
<1>14. ASSUME NEW n \in Moves, ServerRefuses(n), UNCHANGED fanVars PROVE OwedIsAsked'
  BY <1>13, <1>14 DEF ServerRefuses, headVars, legVars, fanVars
<1>15. ASSUME NEW n \in Moves, NEW t \in Threads, ServerMoves(n, t) PROVE OwedIsAsked'
  BY <1>13, <1>15 DEF ServerMoves, ServerLands, headVars, legVars
<1>16. ASSUME NEW t \in Threads, ServerAnnounces(t) PROVE OwedIsAsked'
  BY <1>13, <1>16 DEF ServerAnnounces, vars
<1> QED BY <1>2, <1>3, <1>4, <1>5, <1>6, <1>7, <1>8, <1>10, <1>11, <1>12, <1>14, <1>15, <1>16
        DEF FanoutNext, KeyboardTask, CcdTask

-----------------------------------------------------------------------------
(* The theorems.                                                           *)

LEMMA FanoutInitInv == FanoutInit => FanoutIInv
<1> SUFFICES ASSUME FanoutInit PROVE FanoutIInv
  OBVIOUS
<1>1. IInv
  BY InitIInv DEF FanoutInit
<1>2. FanoutTypeOK
  <2>1. <<>> \in Seq(Threads) /\ Len(<<>>) = 0
    OBVIOUS
  <2>2. announced \in Seq(Threads) /\ Len(announced) <= MaxAnnouncements /\ chatter \in 0..MaxChatter
    BY <2>1, FanoutAssumption DEF FanoutInit
  <2>3. news \in [Legs -> Seq(Threads)]
    BY <2>1 DEF FanoutInit
  <2> QED BY <1>1, <2>2, <2>3 DEF FanoutInit, FanoutTypeOK, IInv
<1>3. OwedIsAsked
  BY DEF FanoutInit, OwedIsAsked, Owed, Subscribed
<1> QED BY <1>1, <1>2, <1>3 DEF FanoutIInv

\* The head's invariant, the table's types and the debts being asked for hold together in every behaviour of the composition.
THEOREM FanoutInvariant == FanoutSpec => []FanoutIInv
<1>1. FanoutIInv /\ [FanoutNext]_allVars => FanoutIInv'
  <2> SUFFICES ASSUME FanoutIInv, [FanoutNext]_allVars PROVE FanoutIInv'
    OBVIOUS
  <2>1. IInv'
    BY HeadInside DEF FanoutIInv
  <2>2. CASE FanoutNext
    BY <2>1, <2>2, FanoutTypeStep, OwedStep DEF FanoutIInv, IInv
  <2>3. CASE UNCHANGED allVars
    <3>1. UNCHANGED vars /\ UNCHANGED fanVars
      BY <2>3 DEF allVars
    <3>2. FanoutTypeOK'
      BY <2>1, <3>1 DEF FanoutIInv, FanoutTypeOK, IInv, fanVars
    <3>3. OwedIsAsked'
      BY <3>1 DEF FanoutIInv, OwedIsAsked, Owed, AskComing, Subscribed, BoundThread, vars, fanVars
    <3> QED BY <2>1, <3>2, <3>3 DEF FanoutIInv
  <2> QED BY <2>2, <2>3
<1> QED BY FanoutInitInv, <1>1, PTL DEF FanoutSpec

\* The subscriber table, the announcements and the head keep their types, and at most
\* MAX_ANNOUNCEMENTS announcements are kept (note_announcement).
THEOREM FanoutTypeCorrect == FanoutSpec => []FanoutTypeOK
<1>1. FanoutIInv => FanoutTypeOK
  BY DEF FanoutIInv
<1> QED BY <1>1, FanoutInvariant, PTL

\* No daemon leg is forgotten: whenever one is owed the head, it has been woken or a task is
\* on its way through deliver_head, for any number of keyboards and daemon legs.
THEOREM OwedIsAskedHolds == FanoutSpec => []OwedIsAsked
<1>1. FanoutIInv => OwedIsAsked
  BY DEF FanoutIInv
<1> QED BY <1>1, FanoutInvariant, PTL

\* Nothing the fan-out does lets the phone act on a thread the keyboard is not proven to be
\* on: the head stays proven when announcements and wake-ups interleave with its moves.
THEOREM FanoutHeadIsProven == FanoutSpec => []HeadIsProven
<1>1. FanoutIInv => HeadIsProven
  BY InvProves DEF FanoutIInv
<1> QED BY <1>1, FanoutInvariant, PTL

\* Every thread that was the head stays readable from the phone while the retired list has
\* room (is_session_thread), whatever announcements and wake-ups come between its moves.
THEOREM FanoutHeadsStayReadable == FanoutSpec => []HeadsStayReadable
<1>1. FanoutInit => HeadsStayReadable
  BY DEF FanoutInit, Init, HeadsStayReadable
<1>2. ASSUME FanoutIInv, HeadsStayReadable, [FanoutNext]_allVars PROVE HeadsStayReadable'
  <2>1. CASE [Next]_vars
    BY <1>2, <2>1, RetainStep DEF FanoutIInv, HeadsStayReadable, Retains
  <2>2. CASE TakesFrame
    BY <1>2, <2>2 DEF TakesFrame, HeadsStayReadable, Readable
  <2> QED BY <1>2, <2>1, <2>2, FanoutSteps
<1> QED BY FanoutInvariant, <1>1, <1>2, PTL DEF FanoutSpec

\* Nor does the fan-out ever bind a thread: a head still comes only with its own landing
\* answer, or after a move that provably did not happen (observe_server_frame).
THEOREM FanoutBindsByProof == FanoutSpec => BindsByProof
<1>1. ASSUME FanoutIInv, [FanoutNext]_allVars, Binds PROVE Proven
  <2>1. CASE [Next]_vars
    BY <1>1, <2>1, BindStep DEF FanoutIInv
  <2>2. CASE TakesFrame
    BY <1>1, <2>2 DEF TakesFrame, Binds, BoundThread
  <2> QED BY <1>1, <2>1, <2>2, FanoutSteps
<1>2. FanoutIInv /\ [FanoutNext]_allVars => [Binds => Proven]_vars
  BY <1>1
<1>3. BindsByProof <=> [][Binds => Proven]_vars
  BY DEF BindsByProof, Binds, Proven
<1> QED BY FanoutInvariant, <1>2, <1>3, PTL DEF FanoutSpec

=============================================================================
