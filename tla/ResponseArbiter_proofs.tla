------------------------ MODULE ResponseArbiter_proofs ------------------------
(***************************************************************************)
(* Theorems about the response arbiter, for any threads, ids, legs and     *)
(* caps.  The invariants of the module are not inductive: they speak of    *)
(* slots and answers, and what protects them is where each leg's task is.  *)
(* IInv adds that.                                                         *)
(***************************************************************************)
EXTENDS ResponseArbiter, TLAPS

Key(c) == SlotKey(c, ans[c])
Writing(c) == stage[c] \in {"handoff", "receipt"}

\* A task past "idle" has an id; while it writes, it owns a slot exactly when its
\* answer names one, and a daemon leg never writes without one.
TaskOK(c) ==
  /\ stage[c] # "idle" => ans[c] \in Ids
  /\ stage[c] = "checked" => c \in CcdLegs
  /\ Writing(c) => (won[c] <=> NamesSlot(c, ans[c]))
  /\ Writing(c) /\ c \in CcdLegs => won[c]
  /\ won[c] => Writing(c)

TaskInv == \A c \in Legs : TaskOK(c)

\* The state of a slot whose answer's bytes left or may have.
SpentSlot(a) == IF a.fate = "written" THEN Confirmed(RoleOf(a.conn)) ELSE Reserved(RoleOf(a.conn))

HolderInv ==
  /\ \A c \in Legs : won[c] => Key(c) \in Keys /\ slots[Key(c)] = Reserved(RoleOf(c))
  /\ \A c, d \in Legs : won[c] /\ won[d] /\ Key(c) = Key(d) => c = d
  /\ \A c \in Legs, a \in answers : won[c] => a.key # Key(c)

AnswerInv ==
  /\ \A a \in answers : slots[a.key] = SpentSlot(a)
  /\ \A a, b \in answers : a.key = b.key => a = b

BackedInv ==
  \A k \in Keys : slots[k] # Free => \/ \E c \in Legs : won[c] /\ Key(c) = k
                                     \/ \E a \in answers : a.key = k

\* On a leg that can still name slots, a bound id was asked once, and an id asked
\* but not tracked found the view full.
ViewOK(c) ==
  ~poisoned[c] =>
    \A i \in Ids :
      /\ view[c][i] \in Threads => asked[c][i] = 1
      /\ view[c][i] = Unseen => asked[c][i] = 0 \/ Cardinality(Tracked(c)) >= MaxTrackedIds

ViewInv == \A c \in Legs : ViewOK(c)

\* A daemon leg about to be told "delivered" has its bytes on record.
ToldOK(c) ==
  stage[c] = "tell" /\ Tells(c) /\ outcome[c] = "delivered" =>
    [conn |-> c, key |-> Key(c), fate |-> "written"] \in answers

ToldInv == \A c \in CcdLegs : ToldOK(c)

IInv == TypeOK /\ TaskInv /\ HolderInv /\ AnswerInv /\ BackedInv /\ ViewInv /\ ToldInv
-----------------------------------------------------------------------------
(* Typing.                                                                 *)

USE DEF Role

LEMMA SlotTypes ==
  /\ Free \in SlotState
  /\ \A r \in Role : Reserved(r) \in SlotState /\ Confirmed(r) \in SlotState
  /\ \A r, q \in Role : /\ Reserved(r) # Free /\ Confirmed(r) # Free
                        /\ Reserved(r) # Confirmed(q)
                        /\ Reserved(r) = Reserved(q) => r = q
                        /\ Confirmed(r) = Confirmed(q) => r = q
                        /\ Reserved(r).st = "reserved" /\ Confirmed(r).st = "confirmed"
                        /\ Reserved(r).role = r /\ Confirmed(r).role = r
  /\ Free.st = "free"
  /\ \A c \in Legs : RoleOf(c) \in Role
  BY DEF SlotState, Free, Reserved, Confirmed, RoleOf

\* What the arbiter's writes leave in the slots.
LEMMA SlotWrites ==
  ASSUME slots \in [Keys -> SlotState], NEW k \in Keys, NEW r \in Role
  PROVE  /\ Confirm(k, r) \in [Keys -> SlotState]
         /\ Release(k, r) \in [Keys -> SlotState]
         /\ slots[k] = Reserved(r) => /\ Confirm(k, r) = [slots EXCEPT ![k] = Confirmed(r)]
                                      /\ Release(k, r) = [slots EXCEPT ![k] = Free]
  BY SlotTypes DEF Confirm, Release

LEMMA ViewWrites ==
  ASSUME view \in [Legs -> [Ids -> Threads \cup {Unseen, Tombstoned}]],
         NEW c \in Legs, NEW i \in Ids, NEW o \in Threads \cup {Tombstoned}
  PROVE  /\ Register(c, i, o) \in [Legs -> [Ids -> Threads \cup {Unseen, Tombstoned}]]
         /\ \A d \in Legs \ {c} : Register(c, i, o)[d] = view[d]
         /\ \A j \in Ids \ {i} : Register(c, i, o)[c][j] = view[c][j]
         /\ Register(c, i, o)[c][i] =
              IF view[c][i] # Unseen THEN Tombstoned
              ELSE IF Cardinality(Tracked(c)) >= MaxTrackedIds THEN Unseen ELSE o
  BY DEF Register

LEMMA KeyType ==
  ASSUME TypeOK, NEW c \in Legs, NEW i \in Ids, NamesSlot(c, i)
  PROVE  SlotKey(c, i) \in Keys
  BY DEF TypeOK, NamesSlot, SlotKey, Keys

LEMMA CloseTypes ==
  ASSUME TypeOK, NEW c \in Legs, CloseLeg(c)
  PROVE  /\ view' \in [Legs -> [Ids -> Threads \cup {Unseen, Tombstoned}]]
         /\ poisoned' \in [Legs -> BOOLEAN]
         /\ open' \in [Legs -> BOOLEAN]
         /\ pump' \in [Legs -> {"up", "ending", "gone"}]
         /\ asked' \in [Legs -> [Ids -> 0..2]]
  BY DEF TypeOK, CloseLeg

LEMMA InitType == Init => TypeOK
  BY SlotTypes DEF Init, TypeOK, Stages, Outcomes

LEMMA ObserveType ==
  ASSUME TypeOK, NEW c \in Legs, NEW i \in Ids, NEW t \in Threads, ObserveApproval(c, i, t)
  PROVE  TypeOK'
<1>1. asked \in [Legs -> [Ids -> 0..2]]
  BY DEF TypeOK
<1>2. asked' \in [Legs -> [Ids -> 0..2]]
  BY <1>1 DEF ObserveApproval, Bump
<1>3. view' \in [Legs -> [Ids -> Threads \cup {Unseen, Tombstoned}]]
  BY ViewWrites DEF ObserveApproval, TypeOK
<1> QED BY <1>2, <1>3 DEF ObserveApproval, TypeOK, taskVars

LEMMA ObserveOtherType ==
  ASSUME TypeOK, NEW c \in Legs, NEW i \in Ids, ObserveOther(c, i)
  PROVE  TypeOK'
<1>1. asked \in [Legs -> [Ids -> 0..2]]
  BY DEF TypeOK
<1>2. asked' \in [Legs -> [Ids -> 0..2]]
  BY <1>1 DEF ObserveOther, Bump
<1>3. view' \in [Legs -> [Ids -> Threads \cup {Unseen, Tombstoned}]]
  BY ViewWrites DEF ObserveOther, TypeOK
<1> QED BY <1>2, <1>3 DEF ObserveOther, TypeOK, taskVars

LEMMA CloseType ==
  ASSUME TypeOK, NEW c \in Legs, ObserveUnclassifiable(c) \/ LegEnds(c)
  PROVE  TypeOK'
<1>1. CASE CloseLeg(c)
  BY <1>1, CloseTypes DEF ObserveUnclassifiable, LegEnds, TypeOK, taskVars
<1>2. CASE /\ ObserveUnclassifiable(c)
           /\ poisoned' = [poisoned EXCEPT ![c] = TRUE]
           /\ asked' = [asked EXCEPT ![c] = [j \in Ids |-> Bump(@[j])]]
           /\ UNCHANGED <<view, open, pump>>
  <2>1. asked \in [Legs -> [Ids -> 0..2]] /\ poisoned \in [Legs -> BOOLEAN]
    BY DEF TypeOK
  <2>2. asked' \in [Legs -> [Ids -> 0..2]] /\ poisoned' \in [Legs -> BOOLEAN]
    BY <1>2, <2>1 DEF Bump
  <2> QED BY <1>2, <2>2 DEF ObserveUnclassifiable, TypeOK, taskVars
<1> QED BY <1>1, <1>2 DEF ObserveUnclassifiable, LegEnds

LEMMA AnswerType ==
  ASSUME TypeOK, NEW c \in Legs, NEW i \in Ids, KeyboardAnswer(c, i) \/ PhoneAnswer(c, i)
  PROVE  TypeOK'
<1>1. CASE KeyboardAnswer(c, i)
  <2>1. slots \in [Keys -> SlotState] /\ Reserved("tui") \in SlotState
    BY SlotTypes DEF TypeOK
  <2>2. slots' \in [Keys -> SlotState]
    BY <1>1, <2>1, KeyType DEF KeyboardAnswer
  <2> QED BY <1>1, <2>2, ZenonT(60) DEF KeyboardAnswer, TypeOK, Stages, legVars
<1>2. CASE PhoneAnswer(c, i)
  BY <1>2 DEF PhoneAnswer, TypeOK, Stages, legVars
<1> QED BY <1>1, <1>2

LEMMA AuthorizeType ==
  ASSUME TypeOK, TaskInv, NEW c \in Legs, PhoneAuthorize(c)
  PROVE  TypeOK'
<1>1. ans[c] \in Ids
  BY DEF PhoneAuthorize, TaskInv, TaskOK
<1>2. slots \in [Keys -> SlotState] /\ Reserved("ccd") \in SlotState
  BY SlotTypes DEF TypeOK
<1>3. slots' \in [Keys -> SlotState]
  BY <1>1, <1>2, KeyType DEF PhoneAuthorize, Authorized
<1> QED BY <1>3 DEF PhoneAuthorize, TypeOK, Stages, Outcomes, legVars

LEMMA SettleTypes ==
  ASSUME TypeOK, TaskInv, NEW c \in Legs, Writing(c)
  PROVE  /\ \A how \in Outcomes : Settle(c, how) => /\ outcome' \in [Legs -> Outcomes]
                                                   /\ stage' \in [Legs -> Stages]
                                                   /\ won' \in [Legs -> BOOLEAN]
         /\ \A fate \in Fates : Record(c, fate) =>
              answers' \subseteq [conn : Legs, key : Keys, fate : Fates]
         /\ ConfirmWrite(c) \/ ReleaseWrite(c) => slots' \in [Keys -> SlotState]
<1>1. ans[c] \in Ids /\ (won[c] <=> NamesSlot(c, ans[c]))
  BY DEF TaskInv, TaskOK, Writing
<1>2. NamesSlot(c, ans[c]) => SlotKey(c, ans[c]) \in Keys
  BY <1>1, KeyType
<1>3. ASSUME NEW how \in Outcomes, Settle(c, how)
      PROVE  outcome' \in [Legs -> Outcomes] /\ stage' \in [Legs -> Stages] /\ won' \in [Legs -> BOOLEAN]
  BY <1>3 DEF Settle, TypeOK, Stages
<1>4. ASSUME NEW fate \in Fates, Record(c, fate)
      PROVE  answers' \subseteq [conn : Legs, key : Keys, fate : Fates]
  BY <1>1, <1>2, <1>4 DEF Record, TypeOK
<1>5. ConfirmWrite(c) \/ ReleaseWrite(c) => slots' \in [Keys -> SlotState]
  <2>1. slots \in [Keys -> SlotState] /\ RoleOf(c) \in Role
    BY SlotTypes DEF TypeOK
  <2>2. CASE NamesSlot(c, ans[c])
    BY <1>2, <2>1, <2>2, SlotWrites DEF ConfirmWrite, ReleaseWrite
  <2>3. CASE ~NamesSlot(c, ans[c])
    BY <2>1, <2>3 DEF ConfirmWrite, ReleaseWrite
  <2> QED BY <2>2, <2>3
<1> QED BY <1>3, <1>4, <1>5

LEMMA WriteType ==
  ASSUME TypeOK, TaskInv, NEW c \in Legs,
         \/ HandOff(c) \/ HandOffRefused(c) \/ BudgetExpires(c)
         \/ PumpWrites(c) \/ PumpRefused(c) \/ PumpEnds(c) \/ ReadReceipt(c)
  PROVE  TypeOK'
<1>0. /\ "failed" \in Outcomes /\ "delivered" \in Outcomes /\ "unconfirmed" \in Outcomes
      /\ "written" \in Fates /\ "unproven" \in Fates
  BY DEF Outcomes, Fates
<1>1. CASE HandOff(c)
  BY <1>1 DEF HandOff, TypeOK, Stages, legVars
<1>2. CASE HandOffRefused(c)
  BY <1>0, <1>2, SettleTypes DEF HandOffRefused, Writing, TypeOK, legVars
<1>3. CASE BudgetExpires(c)
  BY <1>0, <1>3, SettleTypes DEF BudgetExpires, Writing, TypeOK, legVars
<1>4. CASE PumpWrites(c) \/ PumpRefused(c) \/ PumpEnds(c)
  BY <1>4 DEF PumpWrites, PumpRefused, PumpEnds, TypeOK, legVars
<1>5. CASE ReadReceipt(c)
  BY <1>0, <1>5, SettleTypes DEF ReadReceipt, Writing, TypeOK, legVars
<1> QED BY <1>1, <1>2, <1>3, <1>4, <1>5

LEMMA TellType ==
  ASSUME TypeOK, NEW c \in Legs, TellDisposition(c)
  PROVE  TypeOK'
<1>1. CASE CloseLeg(c)
  BY <1>1, CloseTypes DEF TellDisposition, TypeOK, Stages, Outcomes
<1>2. CASE UNCHANGED <<legVars, pump, asked>>
  BY <1>2 DEF TellDisposition, TypeOK, Stages, Outcomes, legVars
<1> QED BY <1>1, <1>2 DEF TellDisposition

LEMMA TypeStep == TypeOK /\ TaskInv /\ [Next]_vars => TypeOK'
<1> SUFFICES ASSUME TypeOK, TaskInv, [Next]_vars PROVE TypeOK'
  OBVIOUS
<1>1. ASSUME NEW c \in Legs, LegStep(c) PROVE TypeOK'
  <2>1. CASE \E i \in Ids, t \in Threads : ObserveApproval(c, i, t)
    BY <2>1, ObserveType
  <2>2. CASE \E i \in Ids : ObserveOther(c, i)
    BY <2>2, ObserveOtherType
  <2>3. CASE ObserveUnclassifiable(c) \/ LegEnds(c)
    BY <2>3, CloseType
  <2>4. CASE \E i \in Ids : KeyboardAnswer(c, i) \/ PhoneAnswer(c, i)
    BY <2>4, AnswerType
  <2>5. CASE PhoneAuthorize(c)
    BY <2>5, AuthorizeType
  <2>6. CASE \/ HandOff(c) \/ HandOffRefused(c) \/ BudgetExpires(c)
             \/ PumpWrites(c) \/ PumpRefused(c) \/ PumpEnds(c) \/ ReadReceipt(c)
    BY <2>6, WriteType
  <2>7. CASE TellDisposition(c)
    BY <2>7, TellType
  <2> QED BY <1>1, <2>1, <2>2, <2>3, <2>4, <2>5, <2>6, <2>7 DEF LegStep
<1>2. ASSUME NEW t \in Threads \cup {NoThread}, HeadMoves(t) PROVE TypeOK'
  BY <1>2 DEF HeadMoves, TypeOK, legVars, taskVars
<1>3. CASE UNCHANGED vars
  BY <1>3 DEF vars, TypeOK
<1> QED BY <1>1, <1>2, <1>3 DEF Next
-----------------------------------------------------------------------------
(* What each kind of step does to slots, holders and answers.              *)

SlotInv == HolderInv /\ AnswerInv /\ BackedInv

\* The four things a step can do to the slots: nothing; a leg takes a free slot; a
\* holder's write is refused and the slot is free again; a holder's bytes left or may have.
SlotsKept ==
  /\ slots' = slots /\ answers' = answers /\ won' = won
  /\ \A c \in Legs : won[c] => Key(c)' = Key(c)

SlotTakenBy(c, k) ==
  /\ slots[k] = Free /\ ~won[c] /\ answers' = answers
  /\ slots' = [slots EXCEPT ![k] = Reserved(RoleOf(c))]
  /\ won' = [won EXCEPT ![c] = TRUE]
  /\ Key(c)' = k /\ \A d \in Legs \ {c} : Key(d)' = Key(d)

SlotReleasedBy(c) ==
  /\ won[c] /\ answers' = answers
  /\ slots' = [slots EXCEPT ![Key(c)] = Free]
  /\ won' = [won EXCEPT ![c] = FALSE]
  /\ \A d \in Legs : won[d] => Key(d)' = Key(d)

SlotSpentBy(c, f) ==
  /\ won[c]
  /\ answers' = answers \cup {[conn |-> c, key |-> Key(c), fate |-> f]}
  /\ slots' = [slots EXCEPT ![Key(c)] =
                 IF f = "written" THEN Confirmed(RoleOf(c)) ELSE Reserved(RoleOf(c))]
  /\ won' = [won EXCEPT ![c] = FALSE]
  /\ \A d \in Legs : won[d] => Key(d)' = Key(d)

SlotMove(c) ==
  \/ SlotsKept
  \/ \E k \in Keys : SlotTakenBy(c, k)
  \/ SlotReleasedBy(c)
  \/ \E f \in Fates : SlotSpentBy(c, f)

LEMMA SlotFrame ==
  ASSUME SlotInv, SlotsKept
  PROVE  SlotInv'
  BY DEF SlotsKept, SlotInv, HolderInv, AnswerInv, BackedInv, SpentSlot

LEMMA SlotTaken ==
  ASSUME TypeOK, SlotInv, NEW c \in Legs, NEW k \in Keys, SlotTakenBy(c, k)
  PROVE  SlotInv'
<1> USE DEF SlotTakenBy
<1>0. slots \in [Keys -> SlotState] /\ won \in [Legs -> BOOLEAN]
  BY DEF TypeOK
<1>1. \A d \in Legs : won[d] => Key(d) # k
  BY SlotTypes DEF SlotInv, HolderInv
<1>2. \A a \in answers : a.key # k
  BY SlotTypes, ZenonT(60) DEF SlotInv, AnswerInv, SpentSlot, TypeOK
<1>3. \A d \in Legs : won'[d] <=> d = c \/ won[d]
  BY <1>0
<1>4. \A j \in Keys : slots'[j] = IF j = k THEN Reserved(RoleOf(c)) ELSE slots[j]
  BY <1>0
<1>5. \A d \in Legs : won[d] => Key(d) \in Keys
  BY DEF SlotInv, HolderInv
<1>6. HolderInv'
  BY <1>1, <1>2, <1>3, <1>4, <1>5 DEF SlotInv, HolderInv
<1>7. AnswerInv'
  BY <1>2, <1>4 DEF SlotInv, AnswerInv, SpentSlot, TypeOK
<1>8. BackedInv'
  BY <1>1, <1>3, <1>4 DEF SlotInv, BackedInv
<1> QED BY <1>6, <1>7, <1>8 DEF SlotInv

LEMMA SlotReleased ==
  ASSUME TypeOK, SlotInv, NEW c \in Legs, SlotReleasedBy(c)
  PROVE  SlotInv'
<1> USE DEF SlotReleasedBy
<1>0. slots \in [Keys -> SlotState] /\ won \in [Legs -> BOOLEAN] /\ Key(c) \in Keys
  BY DEF TypeOK, SlotInv, HolderInv
<1>1. \A d \in Legs : won'[d] <=> d # c /\ won[d]
  BY <1>0
<1>2. \A j \in Keys : slots'[j] = IF j = Key(c) THEN Free ELSE slots[j]
  BY <1>0
<1>3. HolderInv'
  BY <1>1, <1>2 DEF SlotInv, HolderInv
<1>4. AnswerInv'
  BY <1>2 DEF SlotInv, HolderInv, AnswerInv, SpentSlot, TypeOK
<1>5. BackedInv'
  BY <1>1, <1>2 DEF SlotInv, BackedInv
<1> QED BY <1>3, <1>4, <1>5 DEF SlotInv

LEMMA SlotSpent ==
  ASSUME TypeOK, SlotInv, NEW c \in Legs, NEW f \in Fates, SlotSpentBy(c, f)
  PROVE  SlotInv'
<1> USE DEF SlotSpentBy
<1> DEFINE new == [conn |-> c, key |-> Key(c), fate |-> f]
<1>0. slots \in [Keys -> SlotState] /\ won \in [Legs -> BOOLEAN] /\ Key(c) \in Keys
  BY DEF TypeOK, SlotInv, HolderInv
<1>1. \A d \in Legs : won'[d] <=> d # c /\ won[d]
  BY <1>0
<1>2. \A j \in Keys : slots'[j] = IF j = Key(c) THEN SpentSlot(new) ELSE slots[j]
  BY <1>0 DEF SpentSlot
<1>3. /\ new \in answers' /\ new.key = Key(c)
      /\ \A a \in answers' : a = new \/ (a \in answers /\ a.key # Key(c) /\ a.key \in Keys)
  BY DEF SlotInv, HolderInv, TypeOK
<1> HIDE DEF new
<1>4. HolderInv'
  BY <1>1, <1>2, <1>3 DEF SlotInv, HolderInv
<1>5. AnswerInv'
  <2>1. ASSUME NEW a \in answers' PROVE slots'[a.key] = SpentSlot(a)'
    <3>1. SpentSlot(a)' = SpentSlot(a)
      BY DEF SpentSlot
    <3>2. CASE a = new
      BY <1>0, <1>2, <1>3, <3>1, <3>2
    <3>3. CASE a \in answers /\ a.key # Key(c) /\ a.key \in Keys
      BY <1>2, <3>1, <3>3 DEF SlotInv, AnswerInv
    <3> QED BY <1>3, <3>2, <3>3
  <2>2. ASSUME NEW a \in answers', NEW b \in answers', a.key = b.key PROVE a = b
    BY <1>3, <2>2 DEF SlotInv, AnswerInv
  <2> QED BY <2>1, <2>2 DEF AnswerInv
<1>6. BackedInv'
  <2> SUFFICES ASSUME NEW k \in Keys, slots'[k] # Free, ~\E a \in answers' : a.key = k
               PROVE  \E d \in Legs : won'[d] /\ Key(d)' = k
    BY DEF BackedInv
  <2>1. k # Key(c) /\ slots[k] # Free
    BY <1>2, <1>3
  <2>2. PICK d \in Legs : won[d] /\ Key(d) = k
    BY <2>1, <1>3 DEF SlotInv, BackedInv
  <2> QED BY <1>1, <2>1, <2>2
<1> QED BY <1>4, <1>5, <1>6 DEF SlotInv
-----------------------------------------------------------------------------
(* Every step preserves each part of the inductive invariant.              *)

\* What TaskInv and SlotInv read of leg d is untouched.
SameTask(d) ==
  /\ stage'[d] = stage[d] /\ ans'[d] = ans[d] /\ won'[d] = won[d]
  /\ view'[d] = view[d] /\ poisoned'[d] = poisoned[d]

\* Every step of a leg leaves the tasks of the others alone.
LEMMA OtherTasks ==
  ASSUME TypeOK, NEW c \in Legs, LegStep(c), NEW d \in Legs \ {c}
  PROVE  SameTask(d)
<1>0. view \in [Legs -> [Ids -> Threads \cup {Unseen, Tombstoned}]]
  BY DEF TypeOK
<1>1. CASE \E i \in Ids, t \in Threads : ObserveApproval(c, i, t)
  BY <1>0, <1>1, ViewWrites DEF ObserveApproval, SameTask, taskVars
<1>2. CASE \E i \in Ids : ObserveOther(c, i)
  BY <1>0, <1>2, ViewWrites DEF ObserveOther, SameTask, taskVars
<1>3. CASE ObserveUnclassifiable(c) \/ LegEnds(c)
  BY <1>3 DEF ObserveUnclassifiable, LegEnds, CloseLeg, SameTask, taskVars, TypeOK
<1>4. CASE \E i \in Ids : KeyboardAnswer(c, i) \/ PhoneAnswer(c, i)
  BY <1>4 DEF KeyboardAnswer, PhoneAnswer, SameTask, legVars, TypeOK
<1>5. CASE PhoneAuthorize(c)
  BY <1>5 DEF PhoneAuthorize, SameTask, legVars, TypeOK
<1>6. CASE HandOff(c) \/ PumpWrites(c) \/ PumpRefused(c) \/ PumpEnds(c)
  BY <1>6 DEF HandOff, PumpWrites, PumpRefused, PumpEnds, SameTask, legVars, TypeOK
<1>7. CASE HandOffRefused(c) \/ BudgetExpires(c) \/ ReadReceipt(c)
  BY <1>7 DEF HandOffRefused, BudgetExpires, ReadReceipt, Settle, SameTask, legVars, TypeOK
<1>8. CASE TellDisposition(c)
  BY <1>8 DEF TellDisposition, CloseLeg, SameTask, legVars, TypeOK
<1> QED BY <1>1, <1>2, <1>3, <1>4, <1>5, <1>6, <1>7, <1>8 DEF LegStep

LEMMA SameTaskKeeps ==
  ASSUME NEW d \in Legs, SameTask(d)
  PROVE  Key(d)' = Key(d) /\ (TaskOK(d) => TaskOK(d)')
  BY DEF SameTask, TaskOK, Key, SlotKey, NamesSlot, Writing

LEMMA TaskStep ==
  ASSUME TypeOK, TaskInv, NEW c \in Legs, LegStep(c)
  PROVE  TaskInv'
<1> SUFFICES TaskOK(c)'
  BY OtherTasks, SameTaskKeeps DEF TaskInv
<1>0. TaskOK(c) /\ won \in [Legs -> BOOLEAN] /\ stage \in [Legs -> Stages] /\ ans \in [Legs -> Ids \cup {NoId}]
  BY DEF TaskInv, TypeOK
<1>1. CASE \/ \E i \in Ids, t \in Threads : ObserveApproval(c, i, t)
           \/ \E i \in Ids : ObserveOther(c, i)
           \/ ObserveUnclassifiable(c) \/ LegEnds(c)
  <2>1. stage[c] = "idle" /\ stage' = stage /\ won' = won
    BY <1>1 DEF ObserveApproval, ObserveOther, ObserveUnclassifiable, LegEnds, Reading, taskVars
  <2> QED BY <1>0, <2>1 DEF TaskOK, Writing
<1>2. CASE \E i \in Ids : KeyboardAnswer(c, i)
  <2>1. PICK i \in Ids : KeyboardAnswer(c, i)
    BY <1>2
  <2>2. stage[c] = "idle" /\ c \notin CcdLegs /\ ~won[c] /\ view' = view /\ poisoned' = poisoned
    BY <1>0, <2>1, ArbiterAssumption DEF KeyboardAnswer, CanRead, Reading, TaskOK, Writing, legVars
  <2> QED BY <1>0, <2>1, <2>2 DEF KeyboardAnswer, TaskOK, Writing, NamesSlot
<1>3. CASE \E i \in Ids : PhoneAnswer(c, i)
  BY <1>0, <1>3 DEF PhoneAnswer, CanRead, Reading, TaskOK, Writing
<1>4. CASE PhoneAuthorize(c)
  BY <1>0, <1>4 DEF PhoneAuthorize, Authorized, TaskOK, Writing, NamesSlot, legVars
<1>5. CASE HandOff(c) \/ PumpWrites(c) \/ PumpRefused(c) \/ PumpEnds(c)
  BY <1>0, <1>5 DEF HandOff, PumpWrites, PumpRefused, PumpEnds, TaskOK, Writing, NamesSlot, legVars
<1>6. CASE HandOffRefused(c) \/ BudgetExpires(c) \/ ReadReceipt(c)
  BY <1>0, <1>6 DEF HandOffRefused, BudgetExpires, ReadReceipt, Settle, TaskOK, Writing
<1>7. CASE TellDisposition(c)
  BY <1>0, <1>7 DEF TellDisposition, TaskOK, Writing
<1> QED BY <1>1, <1>2, <1>3, <1>4, <1>5, <1>6, <1>7 DEF LegStep
\* The release and confirmation of a write, by leg c while it writes, act on its own
\* reservation or on nothing.
LEMMA WriteVerdicts ==
  ASSUME TypeOK, TaskInv, SlotInv, NEW c \in Legs, Writing(c)
  PROVE  /\ won[c] => NamesSlot(c, ans[c]) /\ Key(c) \in Keys
         /\ ConfirmWrite(c) => slots' = IF won[c] THEN [slots EXCEPT ![Key(c)] = Confirmed(RoleOf(c))] ELSE slots
         /\ ReleaseWrite(c) => slots' = IF won[c] THEN [slots EXCEPT ![Key(c)] = Free] ELSE slots
<1>1. (won[c] <=> NamesSlot(c, ans[c])) /\ (won[c] => Key(c) \in Keys /\ slots[Key(c)] = Reserved(RoleOf(c)))
  BY DEF TaskInv, TaskOK, SlotInv, HolderInv
<1>2. slots \in [Keys -> SlotState] /\ RoleOf(c) \in Role
  BY SlotTypes DEF TypeOK
<1>3. won[c] => /\ Confirm(Key(c), RoleOf(c)) = [slots EXCEPT ![Key(c)] = Confirmed(RoleOf(c))]
                /\ Release(Key(c), RoleOf(c)) = [slots EXCEPT ![Key(c)] = Free]
  BY <1>1, <1>2, SlotWrites
<1> QED BY <1>1, <1>3 DEF ConfirmWrite, ReleaseWrite, Key

\* What a leg's verdict on its own write does to the slots.
LEMMA SettleMoves ==
  ASSUME TypeOK, TaskInv, SlotInv, NEW c \in Legs, Writing(c), UNCHANGED <<ans, view>>,
         NEW how, Settle(c, how),
         \/ ReleaseWrite(c) /\ answers' = answers
         \/ ConfirmWrite(c) /\ Record(c, "written")
         \/ slots' = slots /\ Record(c, "unproven")
  PROVE  SlotMove(c)
<1>1. \A d \in Legs : Key(d)' = Key(d)
  BY DEF Key, SlotKey
<1>2. won' = [won EXCEPT ![c] = FALSE] /\ won \in [Legs -> BOOLEAN] /\ slots \in [Keys -> SlotState]
  BY DEF Settle, TypeOK
<1>3. CASE ~won[c]
  <2>1. won' = won /\ slots' = slots /\ answers' = answers
    BY <1>2, <1>3, WriteVerdicts DEF Record
  <2> QED BY <1>1, <2>1 DEF SlotMove, SlotsKept
<1>4. CASE won[c] /\ ReleaseWrite(c) /\ answers' = answers
  BY <1>1, <1>2, <1>4, WriteVerdicts DEF SlotMove, SlotReleasedBy
<1>5. CASE won[c] /\ ConfirmWrite(c) /\ Record(c, "written")
  <2>1. answers' = answers \cup {[conn |-> c, key |-> Key(c), fate |-> "written"]}
    BY <1>5 DEF Record, Key
  <2>2. slots' = [slots EXCEPT ![Key(c)] = IF "written" = "written" THEN Confirmed(RoleOf(c)) ELSE Reserved(RoleOf(c))]
    BY <1>5, WriteVerdicts
  <2>3. "written" \in Fates
    BY DEF Fates
  <2>4. SlotSpentBy(c, "written")
    BY <1>1, <1>2, <1>5, <2>1, <2>2 DEF SlotSpentBy
  <2> QED BY <2>3, <2>4 DEF SlotMove
<1>6. CASE won[c] /\ slots' = slots /\ Record(c, "unproven")
  <2>1. answers' = answers \cup {[conn |-> c, key |-> Key(c), fate |-> "unproven"]}
    BY <1>6 DEF Record, Key
  <2>2. slots' = [slots EXCEPT ![Key(c)] = IF "unproven" = "written" THEN Confirmed(RoleOf(c)) ELSE Reserved(RoleOf(c))]
    BY <1>2, <1>6 DEF SlotInv, HolderInv
  <2>3. "unproven" \in Fates
    BY DEF Fates
  <2>4. SlotSpentBy(c, "unproven")
    BY <1>1, <1>2, <1>6, <2>1, <2>2 DEF SlotSpentBy
  <2> QED BY <2>3, <2>4 DEF SlotMove
<1> QED BY <1>3, <1>4, <1>5, <1>6

\* Every step of a leg is one of the four.
LEMMA SlotMoves ==
  ASSUME TypeOK, TaskInv, SlotInv, NEW c \in Legs, LegStep(c)
  PROVE  SlotMove(c)
<1>0. /\ \A d \in Legs \ {c} : Key(d)' = Key(d)
      /\ won \in [Legs -> BOOLEAN] /\ slots \in [Keys -> SlotState] /\ ans \in [Legs -> Ids \cup {NoId}]
      /\ won[c] => Writing(c)
  BY OtherTasks, SameTaskKeeps DEF TypeOK, TaskInv, TaskOK
<1>1. CASE \/ \E i \in Ids, t \in Threads : ObserveApproval(c, i, t)
           \/ \E i \in Ids : ObserveOther(c, i) \/ PhoneAnswer(c, i)
           \/ ObserveUnclassifiable(c) \/ LegEnds(c) \/ TellDisposition(c)
  <2>1. slots' = slots /\ answers' = answers /\ won' = won /\ ~won[c]
    BY <1>0, <1>1 DEF ObserveApproval, ObserveOther, PhoneAnswer, ObserveUnclassifiable, LegEnds,
                      TellDisposition, Reading, CanRead, Writing, taskVars
  <2> QED BY <1>0, <2>1 DEF SlotMove, SlotsKept
<1>2. CASE \E i \in Ids : KeyboardAnswer(c, i)
  <2>1. PICK i \in Ids : KeyboardAnswer(c, i)
    BY <1>2
  <2>2. ~won[c] /\ RoleOf(c) = "tui" /\ answers' = answers
    BY <1>0, <2>1 DEF KeyboardAnswer, CanRead, Reading, Writing, RoleOf
  <2>3. CASE NamesSlot(c, i) /\ CanConsume(SlotKey(c, i))
    <3>1. SlotKey(c, i) \in Keys /\ slots[SlotKey(c, i)] = Free
      BY <2>3, KeyType DEF CanConsume
    <3>2. Key(c)' = SlotKey(c, i)
      BY <1>0, <2>1, <2>3 DEF KeyboardAnswer, Key, SlotKey, legVars
    <3>3. slots' = [slots EXCEPT ![SlotKey(c, i)] = Reserved("tui")] /\ won' = [won EXCEPT ![c] = TRUE]
      BY <2>1, <2>3 DEF KeyboardAnswer
    <3> QED BY <1>0, <2>2, <3>1, <3>2, <3>3 DEF SlotMove, SlotTakenBy
  <2>4. CASE ~(NamesSlot(c, i) /\ CanConsume(SlotKey(c, i)))
    <3>1. slots' = slots /\ won' = won
      BY <2>1, <2>4 DEF KeyboardAnswer
    <3> QED BY <1>0, <2>2, <3>1 DEF SlotMove, SlotsKept
  <2> QED BY <2>3, <2>4
<1>3. CASE PhoneAuthorize(c)
  <2>1. ~won[c] /\ answers' = answers /\ Key(c)' = Key(c) /\ ans[c] \in Ids
    BY <1>0, <1>3 DEF PhoneAuthorize, Writing, Key, SlotKey, legVars, TaskInv, TaskOK
  <2>2. CASE Authorized(c)
    <3>1. Key(c) \in Keys /\ slots[Key(c)] = Free
      BY <2>1, <2>2, KeyType DEF Authorized, CanConsume, Key
    <3>2. CASE c \in CcdLegs
      <4>1. RoleOf(c) = "ccd"
        BY <3>2, ArbiterAssumption DEF RoleOf
      <4>2. slots' = [slots EXCEPT ![Key(c)] = Reserved("ccd")] /\ won' = [won EXCEPT ![c] = TRUE]
        BY <1>3, <2>2 DEF PhoneAuthorize, Key
      <4> QED BY <1>0, <2>1, <3>1, <4>1, <4>2 DEF SlotMove, SlotTakenBy
    <3>3. c \in CcdLegs
      BY <1>3 DEF PhoneAuthorize, TaskInv, TaskOK
    <3> QED BY <3>2, <3>3
  <2>3. CASE ~Authorized(c)
    <3>1. slots' = slots /\ won' = won
      BY <1>3, <2>3 DEF PhoneAuthorize
    <3> QED BY <1>0, <2>1, <3>1 DEF SlotMove, SlotsKept
  <2> QED BY <2>2, <2>3
<1>4. CASE HandOff(c) \/ PumpWrites(c) \/ PumpRefused(c) \/ PumpEnds(c)
  <2>1. slots' = slots /\ answers' = answers /\ won' = won /\ Key(c)' = Key(c)
    BY <1>4 DEF HandOff, PumpWrites, PumpRefused, PumpEnds, Key, SlotKey, legVars
  <2> QED BY <1>0, <2>1 DEF SlotMove, SlotsKept
<1>5. CASE HandOffRefused(c)
  BY <1>5, SettleMoves DEF HandOffRefused, Writing, legVars
<1>6. CASE BudgetExpires(c)
  BY <1>6, SettleMoves DEF BudgetExpires, Writing, legVars
<1>7. CASE ReadReceipt(c)
  BY <1>7, SettleMoves DEF ReadReceipt, Writing, legVars
<1> QED BY <1>1, <1>2, <1>3, <1>4, <1>5, <1>6, <1>7 DEF LegStep

LEMMA SlotStep ==
  ASSUME TypeOK, TaskInv, SlotInv, NEW c \in Legs, LegStep(c)
  PROVE  SlotInv'
  BY SlotMoves, SlotFrame, SlotTaken, SlotReleased, SlotSpent DEF SlotMove

\* A leg's view after one more request under id i.
LEMMA ViewRegister ==
  ASSUME TypeOK, NEW c \in Legs, ViewOK(c), NEW i \in Ids, NEW o \in Threads \cup {Tombstoned},
         view' = IF poisoned[c] THEN view ELSE Register(c, i, o),
         asked' = [asked EXCEPT ![c][i] = Bump(@)], poisoned' = poisoned
  PROVE  ViewOK(c)'
<1> SUFFICES ASSUME ~poisoned[c], NEW j \in Ids
             PROVE  /\ view'[c][j] \in Threads => asked'[c][j] = 1
                    /\ view'[c][j] = Unseen => asked'[c][j] = 0 \/ Cardinality(Tracked(c)') >= MaxTrackedIds
  BY DEF ViewOK
<1>1. /\ view \in [Legs -> [Ids -> Threads \cup {Unseen, Tombstoned}]]
      /\ asked \in [Legs -> [Ids -> 0..2]]
  BY DEF TypeOK
<1>2. /\ \A k \in Ids \ {i} : view'[c][k] = view[c][k] /\ asked'[c][k] = asked[c][k]
      /\ view'[c][i] = IF view[c][i] # Unseen THEN Tombstoned
                       ELSE IF Cardinality(Tracked(c)) >= MaxTrackedIds THEN Unseen ELSE o
      /\ asked'[c][i] = Bump(asked[c][i])
  BY <1>1, ViewWrites
<1>3. Unseen \notin Threads /\ Tombstoned \notin Threads /\ Unseen # Tombstoned
  BY ArbiterAssumption DEF Unseen, Tombstoned
<1>4. \A k \in Ids : /\ view[c][k] \in Threads => asked[c][k] = 1
                     /\ view[c][k] = Unseen => asked[c][k] = 0 \/ Cardinality(Tracked(c)) >= MaxTrackedIds
  BY DEF ViewOK
<1>5. CASE Cardinality(Tracked(c)) >= MaxTrackedIds
  <2>1. Tracked(c)' = Tracked(c)
    BY <1>2, <1>3, <1>5 DEF Tracked
  <2> QED BY <1>2, <1>3, <1>4, <1>5, <2>1
<1>6. CASE ~(Cardinality(Tracked(c)) >= MaxTrackedIds)
  <2>1. \A k \in Ids : view[c][k] = Unseen => asked[c][k] = 0
    BY <1>4, <1>6
  <2> QED BY <1>2, <1>3, <1>4, <1>6, <2>1 DEF Bump
<1> QED BY <1>5, <1>6

LEMMA ViewStep ==
  ASSUME TypeOK, ViewInv, NEW c \in Legs, LegStep(c)
  PROVE  ViewInv'
<1>0. /\ view \in [Legs -> [Ids -> Threads \cup {Unseen, Tombstoned}]]
      /\ asked \in [Legs -> [Ids -> 0..2]] /\ poisoned \in [Legs -> BOOLEAN]
      /\ Unseen \notin Threads
      /\ ViewOK(c)
  BY ArbiterAssumption DEF TypeOK, ViewInv
<1>1. ASSUME NEW d \in Legs, view'[d] = view[d], asked'[d] = asked[d], poisoned'[d] = poisoned[d]
      PROVE  ViewOK(d)'
  BY <1>1 DEF ViewInv, ViewOK, Tracked
<1>2. ASSUME CloseLeg(c) PROVE ViewInv'
  <2>1. ViewOK(c)'
    BY <1>0, <1>2 DEF CloseLeg, ViewOK
  <2>2. \A d \in Legs \ {c} : view'[d] = view[d] /\ asked'[d] = asked[d] /\ poisoned'[d] = poisoned[d]
    BY <1>0, <1>2 DEF CloseLeg
  <2> QED BY <1>1, <2>1, <2>2 DEF ViewInv
<1>3. CASE \E i \in Ids, t \in Threads : ObserveApproval(c, i, t)
  <2>1. PICK i \in Ids, t \in Threads : ObserveApproval(c, i, t)
    BY <1>3
  <2> DEFINE o == IF c \in TuiLegs \/ head = t THEN t ELSE Tombstoned
  <2>2. /\ view' = IF poisoned[c] THEN view ELSE Register(c, i, o)
        /\ asked' = [asked EXCEPT ![c][i] = Bump(@)] /\ poisoned' = poisoned
        /\ o \in Threads \cup {Tombstoned}
    BY <2>1 DEF ObserveApproval
  <2> HIDE DEF o
  <2>3. ViewOK(c)'
    BY <1>0, <2>2, ViewRegister
  <2>4. \A d \in Legs \ {c} : view'[d] = view[d] /\ asked'[d] = asked[d] /\ poisoned'[d] = poisoned[d]
    BY <1>0, <2>2, ViewWrites
  <2> QED BY <1>1, <2>3, <2>4 DEF ViewInv
<1>4. CASE \E i \in Ids : ObserveOther(c, i)
  <2>1. PICK i \in Ids : ObserveOther(c, i)
    BY <1>4
  <2>2. /\ view' = IF poisoned[c] THEN view ELSE Register(c, i, Tombstoned)
        /\ asked' = [asked EXCEPT ![c][i] = Bump(@)] /\ poisoned' = poisoned
        /\ Tombstoned \in Threads \cup {Tombstoned}
    BY <2>1 DEF ObserveOther
  <2>3. ViewOK(c)'
    BY <1>0, <2>2, ViewRegister
  <2>4. \A d \in Legs \ {c} : view'[d] = view[d] /\ asked'[d] = asked[d] /\ poisoned'[d] = poisoned[d]
    BY <1>0, <2>2, ViewWrites
  <2> QED BY <1>1, <2>3, <2>4 DEF ViewInv
<1>5. CASE ObserveUnclassifiable(c)
  <2>1. CASE CloseLeg(c)
    BY <1>2, <2>1
  <2>2. CASE /\ poisoned' = [poisoned EXCEPT ![c] = TRUE]
             /\ asked' = [asked EXCEPT ![c] = [i \in Ids |-> Bump(@[i])]]
             /\ UNCHANGED <<view, open, pump>>
    <3>1. ViewOK(c)'
      BY <1>0, <2>2 DEF ViewOK
    <3>2. \A d \in Legs \ {c} : view'[d] = view[d] /\ asked'[d] = asked[d] /\ poisoned'[d] = poisoned[d]
      BY <1>0, <2>2
    <3> QED BY <1>1, <3>1, <3>2 DEF ViewInv
  <2> QED BY <1>5, <2>1, <2>2 DEF ObserveUnclassifiable
<1>6. CASE LegEnds(c)
  BY <1>2, <1>6 DEF LegEnds
<1>7. CASE TellDisposition(c)
  <2>1. CASE CloseLeg(c)
    BY <1>2, <2>1
  <2>2. CASE UNCHANGED <<legVars, pump, asked>>
    BY <1>1, <2>2 DEF ViewInv, legVars
  <2> QED BY <1>7, <2>1, <2>2 DEF TellDisposition
<1>8. CASE \/ \E i \in Ids : KeyboardAnswer(c, i) \/ PhoneAnswer(c, i)
           \/ PhoneAuthorize(c) \/ HandOff(c) \/ HandOffRefused(c) \/ BudgetExpires(c)
           \/ PumpWrites(c) \/ PumpRefused(c) \/ PumpEnds(c) \/ ReadReceipt(c)
  <2>1. view' = view /\ asked' = asked /\ poisoned' = poisoned
    BY <1>8 DEF KeyboardAnswer, PhoneAnswer, PhoneAuthorize, HandOff, HandOffRefused, BudgetExpires,
                PumpWrites, PumpRefused, PumpEnds, ReadReceipt, legVars
  <2> QED BY <1>1, <2>1 DEF ViewInv
<1> QED BY <1>3, <1>4, <1>5, <1>6, <1>7, <1>8 DEF LegStep

LEMMA ToldStep ==
  ASSUME TypeOK, TaskInv, ToldInv, NEW c \in Legs, LegStep(c)
  PROVE  ToldInv'
<1>0. answers \subseteq answers'
  BY DEF LegStep, ObserveApproval, ObserveOther, ObserveUnclassifiable, KeyboardAnswer, PhoneAnswer,
         PhoneAuthorize, HandOff, HandOffRefused, BudgetExpires, PumpWrites, PumpRefused, PumpEnds,
         ReadReceipt, Record, TellDisposition, LegEnds
<1>1. ASSUME NEW d \in CcdLegs, ToldOK(d), SameTask(d), outcome'[d] = outcome[d]
      PROVE  ToldOK(d)'
  BY <1>0, <1>1 DEF ToldOK, SameTask, Key, SlotKey, Tells, NamesSlot
<1>2. \A d \in Legs \ {c} : outcome'[d] = outcome[d]
  BY DEF LegStep, ObserveApproval, ObserveOther, ObserveUnclassifiable, KeyboardAnswer, PhoneAnswer,
         PhoneAuthorize, HandOff, HandOffRefused, BudgetExpires, PumpWrites, PumpRefused, PumpEnds,
         ReadReceipt, Settle, TellDisposition, LegEnds, TypeOK, taskVars
<1>3. SUFFICES ASSUME c \in CcdLegs PROVE ToldOK(c)'
  BY <1>1, <1>2, OtherTasks DEF ToldInv, Legs
<1>4. outcome \in [Legs -> Outcomes] /\ stage \in [Legs -> Stages] /\ ToldOK(c) /\ TaskOK(c)
  BY <1>3 DEF ToldInv, TaskInv, TypeOK
<1>5. CASE \/ \E i \in Ids, t \in Threads : ObserveApproval(c, i, t)
           \/ \E i \in Ids : ObserveOther(c, i) \/ KeyboardAnswer(c, i) \/ PhoneAnswer(c, i)
           \/ ObserveUnclassifiable(c) \/ LegEnds(c) \/ HandOff(c) \/ TellDisposition(c)
  BY <1>4, <1>5 DEF ObserveApproval, ObserveOther, ObserveUnclassifiable, KeyboardAnswer, PhoneAnswer,
         HandOff, LegEnds, TellDisposition, Reading, CanRead, taskVars, ToldOK
<1>6. CASE PumpWrites(c) \/ PumpRefused(c) \/ PumpEnds(c)
  BY <1>1, <1>3, <1>4, <1>6 DEF PumpWrites, PumpRefused, PumpEnds, SameTask, legVars
<1>7. CASE PhoneAuthorize(c) \/ HandOffRefused(c) \/ BudgetExpires(c)
  BY <1>4, <1>7 DEF PhoneAuthorize, HandOffRefused, BudgetExpires, Settle, ToldOK
<1>8. CASE ReadReceipt(c)
  <2>1. CASE outcome'[c] # "delivered"
    BY <2>1 DEF ToldOK
  <2>2. CASE outcome'[c] = "delivered"
    <3>1. Record(c, "written") /\ won[c] /\ Key(c)' = Key(c)
      BY <1>3, <1>4, <1>8, <2>2 DEF ReadReceipt, Settle, TaskOK, Writing, Key, SlotKey, legVars
    <3>2. [conn |-> c, key |-> Key(c), fate |-> "written"] \in answers'
      BY <3>1 DEF Record, Key
    <3> QED BY <3>1, <3>2 DEF ToldOK
  <2> QED BY <2>1, <2>2
<1> QED BY <1>5, <1>6, <1>7, <1>8 DEF LegStep
-----------------------------------------------------------------------------
(* The theorems.                                                           *)

LEMMA InitIInv == Init => IInv
<1> SUFFICES ASSUME Init PROVE IInv
  OBVIOUS
<1>1. TypeOK
  BY InitType
<1>2. TaskInv /\ ToldInv
  BY DEF Init, TaskInv, TaskOK, Writing, ToldInv, ToldOK, Legs
<1>3. SlotInv
  BY DEF Init, SlotInv, HolderInv, AnswerInv, BackedInv
<1>4. ViewInv
  BY ArbiterAssumption DEF Init, ViewInv, ViewOK
<1> QED BY <1>1, <1>2, <1>3, <1>4 DEF IInv, SlotInv

LEMMA StepIInv == IInv /\ [Next]_vars => IInv'
<1> SUFFICES ASSUME IInv, [Next]_vars PROVE IInv'
  OBVIOUS
<1>0. TypeOK /\ TaskInv /\ SlotInv /\ ViewInv /\ ToldInv /\ TypeOK'
  BY TypeStep DEF IInv, SlotInv
<1>1. ASSUME NEW c \in Legs, LegStep(c) PROVE TaskInv' /\ SlotInv' /\ ViewInv' /\ ToldInv'
  BY <1>0, <1>1, TaskStep, SlotStep, ViewStep, ToldStep
<1>2. ASSUME UNCHANGED <<slots, answers, won, ans, stage, view, poisoned, asked, outcome>>
      PROVE  TaskInv' /\ SlotInv' /\ ViewInv' /\ ToldInv'
  <2>1. TaskInv'
    BY <1>0, <1>2 DEF TaskInv, TaskOK, Writing, NamesSlot
  <2>2. SlotInv'
    <3>1. \A c \in Legs : Key(c)' = Key(c)
      BY <1>2 DEF Key, SlotKey
    <3> QED BY <1>0, <1>2, <3>1, SlotFrame DEF SlotsKept
  <2>3. ViewInv'
    BY <1>0, <1>2 DEF ViewInv, ViewOK, Tracked
  <2>4. ToldInv'
    BY <1>0, <1>2 DEF ToldInv, ToldOK, Tells, NamesSlot, Key, SlotKey
  <2> QED BY <2>1, <2>2, <2>3, <2>4
<1>3. ASSUME NEW t \in Threads \cup {NoThread}, HeadMoves(t) PROVE TaskInv' /\ SlotInv' /\ ViewInv' /\ ToldInv'
  BY <1>2, <1>3 DEF HeadMoves, legVars, taskVars
<1>4. CASE UNCHANGED vars
  BY <1>0, <1>2, <1>4 DEF vars, IInv, SlotInv
<1>5. CASE Next
  BY <1>0, <1>1, <1>3, <1>5 DEF Next, IInv, SlotInv
<1> QED BY <1>4, <1>5

\* Where every leg's task is accounts for every slot: the inductive invariant.
THEOREM Invariant == Spec => []IInv
  BY InitIInv, StepIInv, PTL DEF Spec

\* Every variable keeps its type, whatever the legs, the pumps and the head do.
THEOREM TypeCorrect == Spec => []TypeOK
<1>1. IInv => TypeOK
  BY DEF IInv
<1> QED BY <1>1, Invariant, PTL

\* One approval, one answer: consume and release never let two arbitrated answers to
\* one approval be in flight, written or possibly written, on any number of legs.
THEOREM OneAnswerHolds == Spec => []OneAnswer
<1>1. IInv => OneAnswer
  BY DEF IInv, HolderInv, AnswerInv, OneAnswer, Holds, Key
<1> QED BY <1>1, Invariant, PTL

\* No lockout: a slot is taken only by an answer in flight or one whose bytes left or
\* may have, so release_write and the refused hand-off strand no approval.
THEOREM NoLockoutHolds == Spec => []NoLockout
<1>1. IInv => NoLockout
  BY DEF IInv, TaskInv, TaskOK, Writing, BackedInv, NoLockout, Holds, Key
<1> QED BY <1>1, Invariant, PTL

\* A bare id never aliases: register, its tombstones, its cap and the poison flag let an
\* answer take a slot only where its id can mean one request.
THEOREM NoAliasHolds == Spec => []NoAlias
<1>1. IInv => NoAlias
  <2> SUFFICES ASSUME IInv, NEW c \in Legs, won[c] PROVE asked[c][ans[c]] = 1
    BY DEF NoAlias
  <2>1. NamesSlot(c, ans[c]) /\ ans[c] \in Ids
    BY DEF IInv, TaskInv, TaskOK, Writing
  <2> QED BY <2>1 DEF IInv, ViewInv, ViewOK, NamesSlot
<1> QED BY <1>1, Invariant, PTL

\* What response_disposition tells a daemon leg is true: delivered means its own bytes
\* were written, a named winner is a role whose answer was written.
THEOREM TruthfulHolds == Spec => []TruthfulDisposition
<1>1. IInv => TruthfulDisposition
  <2> SUFFICES ASSUME IInv, NEW c \in CcdLegs, stage[c] = "tell", Tells(c)
               PROVE  LET d == DispositionFor(c) IN
                        /\ d.delivered => [conn |-> c, key |-> d.key, fate |-> "written"] \in answers
                        /\ d.winner # "nobody" =>
                             \E a \in answers : /\ a.key = d.key /\ a.fate = "written"
                                                /\ RoleOf(a.conn) = d.winner
    BY DEF TruthfulDisposition
  <2> DEFINE d == DispositionFor(c)
  <2>0. c \in Legs /\ ans[c] \in Ids /\ TypeOK
    BY DEF Legs, IInv, TaskInv, TaskOK
  <2>1. d.key = Key(c) /\ Key(c) \in Keys
    BY <2>0, KeyType DEF DispositionFor, Key, Tells
  <2>2. d.delivered => [conn |-> c, key |-> d.key, fate |-> "written"] \in answers
    BY <2>1 DEF DispositionFor, IInv, ToldInv, ToldOK
  <2>3. ASSUME d.winner # "nobody"
        PROVE  \E a \in answers : a.key = d.key /\ a.fate = "written" /\ RoleOf(a.conn) = d.winner
    <3>1. slots[Key(c)].st = "confirmed" /\ d.winner = slots[Key(c)].role
      BY <2>3 DEF DispositionFor, Winner, Key
    <3>2. slots[Key(c)] # Free
      BY <3>1, SlotTypes
    <3>3. ~\E e \in Legs : won[e] /\ Key(e) = Key(c)
      BY <3>1, SlotTypes DEF IInv, HolderInv
    <3>4. PICK a \in answers : a.key = Key(c)
      BY <2>1, <3>2, <3>3 DEF IInv, BackedInv
    <3>5. slots[Key(c)] = SpentSlot(a) /\ a.conn \in Legs
      BY <2>0, <3>4 DEF IInv, AnswerInv, TypeOK
    <3>6. a.fate = "written" /\ d.winner = RoleOf(a.conn)
      BY <3>1, <3>5, SlotTypes DEF SpentSlot
    <3> QED BY <2>1, <3>4, <3>6
  <2> QED BY <2>2, <2>3
<1> QED BY <1>1, Invariant, PTL
-----------------------------------------------------------------------------
(* The refinement of the abstract one-use slot.                            *)

\* A leg holds the slot of k: what tells "answering" from "unproven".
Held(k) == \E c \in Legs : won[c] /\ Key(c) = k

\* The mapped state, slot by slot, in terms of what the inductive invariant speaks of.
LEMMA MappedSlot ==
  ASSUME TaskInv, NEW k \in Keys
  PROVE  /\ SlotStatus[k] = IF slots[k] = Free THEN "open"
                            ELSE IF slots[k].st = "confirmed" THEN "answered"
                            ELSE IF Held(k) THEN "answering" ELSE "unproven"
         /\ SlotAnswerer[k] = slots[k].role
<1>1. (\E c \in Legs : Holds(c, k)) <=> Held(k)
  BY DEF Holds, Held, Key, TaskInv, TaskOK, Writing
<1> QED BY <1>1 DEF SlotStatus, SlotAnswerer

LEMMA MappedSlotNext ==
  ASSUME TaskInv', NEW k \in Keys
  PROVE  /\ SlotStatus'[k] = IF slots'[k] = Free THEN "open"
                            ELSE IF slots'[k].st = "confirmed" THEN "answered"
                            ELSE IF Held(k)' THEN "answering" ELSE "unproven"
         /\ SlotAnswerer'[k] = slots'[k].role
<1>1. (\E c \in Legs : Holds(c, k)') <=> Held(k)'
  BY DEF Holds, Held, Key, TaskInv, TaskOK, Writing
<1> QED BY <1>1 DEF SlotStatus, SlotAnswerer

\* The mapped state is one function per abstract variable.
LEMMA MappedShape ==
  /\ SlotStatus = [k \in Keys |-> SlotStatus[k]]
  /\ SlotAnswerer = [k \in Keys |-> SlotAnswerer[k]]
<1>1. SlotStatus = [k \in Keys |-> SlotStatus[k]]
  BY Zenon DEF SlotStatus
<1>2. SlotAnswerer = [k \in Keys |-> SlotAnswerer[k]]
  BY Zenon DEF SlotAnswerer
<1> QED BY <1>1, <1>2

LEMMA MappedShapeNext ==
  /\ SlotStatus' = [k \in Keys |-> SlotStatus'[k]]
  /\ SlotAnswerer' = [k \in Keys |-> SlotAnswerer'[k]]
<1>1. SlotStatus' = [k \in Keys |-> SlotStatus'[k]]
  BY Zenon DEF SlotStatus
<1>2. SlotAnswerer' = [k \in Keys |-> SlotAnswerer'[k]]
  BY Zenon DEF SlotAnswerer
<1> QED BY <1>1, <1>2

\* One slot goes from one abstract status to another and every other slot stays.
LEMMA AbstractStep ==
  ASSUME NEW k \in Keys, NEW from, NEW to, NEW who,
         SlotStatus[k] = from, SlotStatus'[k] = to, SlotAnswerer'[k] = who,
         \A j \in Keys \ {k} : SlotStatus'[j] = SlotStatus[j] /\ SlotAnswerer'[j] = SlotAnswerer[j]
  PROVE  Abstract!Step(k, from, to, who)
<1>1. SlotStatus' = [SlotStatus EXCEPT ![k] = to]
  BY MappedShape, MappedShapeNext
<1>2. SlotAnswerer' = [SlotAnswerer EXCEPT ![k] = who]
  BY MappedShape, MappedShapeNext
<1> QED BY <1>1, <1>2 DEF Abstract!Step

LEMMA RefineKept ==
  ASSUME TaskInv, TaskInv', SlotsKept
  PROVE  UNCHANGED Abstract!vars
<1>1. \A k \in Keys : Held(k)' <=> Held(k)
  BY DEF SlotsKept, Held
<1>2. ASSUME NEW k \in Keys
      PROVE  SlotStatus'[k] = SlotStatus[k] /\ SlotAnswerer'[k] = SlotAnswerer[k]
  BY <1>1, MappedSlot, MappedSlotNext DEF SlotsKept
<1>3. SlotStatus' = SlotStatus /\ SlotAnswerer' = SlotAnswerer
  BY <1>2, MappedShape, MappedShapeNext
<1> QED BY <1>3 DEF Abstract!vars

LEMMA RefineTaken ==
  ASSUME IInv, TaskInv', NEW c \in Legs, NEW k \in Keys, SlotTakenBy(c, k)
  PROVE  Abstract!Answer(k)
<1>0. slots \in [Keys -> SlotState] /\ won \in [Legs -> BOOLEAN] /\ TaskInv /\ RoleOf(c) \in Role
  BY SlotTypes DEF IInv, TypeOK
<1>1. \A j \in Keys : slots'[j] = IF j = k THEN Reserved(RoleOf(c)) ELSE slots[j]
  BY <1>0 DEF SlotTakenBy
<1>2. \A d \in Legs : won'[d] <=> d = c \/ won[d]
  BY <1>0 DEF SlotTakenBy
<1>3. Held(k)' /\ \A j \in Keys \ {k} : Held(j)' <=> Held(j)
  BY <1>2 DEF Held, SlotTakenBy
<1>4. SlotStatus[k] = "open" /\ SlotStatus'[k] = "answering" /\ SlotAnswerer'[k] = RoleOf(c)
  <2>1. slots[k] = Free /\ slots'[k] = Reserved(RoleOf(c))
    BY <1>1 DEF SlotTakenBy
  <2>2. slots'[k] # Free /\ slots'[k].st # "confirmed" /\ slots'[k].role = RoleOf(c)
    BY <1>0, <2>1, SlotTypes
  <2> QED BY <1>0, <1>3, <2>1, <2>2, MappedSlot, MappedSlotNext
<1>5. \A j \in Keys \ {k} : SlotStatus'[j] = SlotStatus[j] /\ SlotAnswerer'[j] = SlotAnswerer[j]
  BY <1>0, <1>1, <1>3, MappedSlot, MappedSlotNext
<1>6. Abstract!Step(k, "open", "answering", RoleOf(c))
  BY <1>4, <1>5, AbstractStep
<1> QED BY <1>0, <1>6 DEF Abstract!Answer, Abstract!Answerers

\* What a holder's verdict does to the holders: its slot has none, the others keep theirs.
LEMMA HolderLeaves ==
  ASSUME IInv, NEW c \in Legs, won[c], won' = [won EXCEPT ![c] = FALSE],
         \A d \in Legs : won[d] => Key(d)' = Key(d)
  PROVE  /\ Key(c) \in Keys /\ Held(Key(c)) /\ slots[Key(c)] = Reserved(RoleOf(c))
         /\ \A d \in Legs : ~(won'[d] /\ Key(d)' = Key(c))
         /\ \A j \in Keys \ {Key(c)} : Held(j)' <=> Held(j)
<1>1. won \in [Legs -> BOOLEAN] /\ HolderInv
  BY DEF IInv, TypeOK
<1>2. \A d \in Legs : won'[d] <=> d # c /\ won[d]
  BY <1>1
<1>3. Key(c) \in Keys /\ Held(Key(c)) /\ slots[Key(c)] = Reserved(RoleOf(c))
  BY <1>1 DEF HolderInv, Held
<1>4. \A d \in Legs : ~(won'[d] /\ Key(d)' = Key(c))
  BY <1>1, <1>2 DEF HolderInv
<1>5. \A j \in Keys \ {Key(c)} : Held(j)' <=> Held(j)
  BY <1>2 DEF Held
<1> QED BY <1>3, <1>4, <1>5

LEMMA RefineReleased ==
  ASSUME IInv, TaskInv', NEW c \in Legs, SlotReleasedBy(c)
  PROVE  Key(c) \in Keys /\ Abstract!Refused(Key(c))
<1> DEFINE k == Key(c)
<1>0. slots \in [Keys -> SlotState] /\ TaskInv /\ RoleOf(c) \in Role
  BY SlotTypes DEF IInv, TypeOK
<1>1. /\ k \in Keys /\ Held(k) /\ slots[k] = Reserved(RoleOf(c))
      /\ \A j \in Keys \ {k} : Held(j)' <=> Held(j)
  BY HolderLeaves DEF SlotReleasedBy
<1>2. \A j \in Keys : slots'[j] = IF j = k THEN Free ELSE slots[j]
  BY <1>0 DEF SlotReleasedBy
<1> HIDE DEF k
<1>3. SlotStatus[k] = "answering"
  <2>1. slots[k] # Free /\ slots[k].st # "confirmed"
    BY <1>0, <1>1, SlotTypes
  <2> QED BY <1>0, <1>1, <2>1, MappedSlot
<1>4. SlotStatus'[k] = "open" /\ SlotAnswerer'[k] = "nobody"
  BY <1>1, <1>2, MappedSlotNext DEF Free
<1>5. \A j \in Keys \ {k} : SlotStatus'[j] = SlotStatus[j] /\ SlotAnswerer'[j] = SlotAnswerer[j]
  BY <1>0, <1>1, <1>2, MappedSlot, MappedSlotNext
<1>6. Abstract!Step(k, "answering", "open", "nobody")
  BY <1>1, <1>3, <1>4, <1>5, AbstractStep
<1> QED BY <1>1, <1>6 DEF Abstract!Refused, k

LEMMA RefineSpent ==
  ASSUME IInv, TaskInv', NEW c \in Legs, NEW f \in Fates, SlotSpentBy(c, f)
  PROVE  Key(c) \in Keys /\ (Abstract!Written(Key(c)) \/ Abstract!GiveUp(Key(c)))
<1>0. slots \in [Keys -> SlotState] /\ TaskInv /\ RoleOf(c) \in Role
  BY SlotTypes DEF IInv, TypeOK
<1>1. PICK k \in Keys :
      /\ k = Key(c) /\ Held(k) /\ slots[k] = Reserved(RoleOf(c))
      /\ \A d \in Legs : ~(won'[d] /\ Key(d)' = k)
      /\ \A j \in Keys \ {k} : Held(j)' <=> Held(j)
  BY HolderLeaves DEF SlotSpentBy
<1>2. \A j \in Keys : slots'[j] = IF j = k
                                  THEN IF f = "written" THEN Confirmed(RoleOf(c)) ELSE Reserved(RoleOf(c))
                                  ELSE slots[j]
  BY <1>0, <1>1 DEF SlotSpentBy
<1>3. ~Held(k)'
  BY <1>1 DEF Held
<1>4. SlotStatus[k] = "answering" /\ SlotAnswerer[k] = RoleOf(c)
  <2>1. slots[k] # Free /\ slots[k].st # "confirmed" /\ slots[k].role = RoleOf(c)
    BY <1>0, <1>1, SlotTypes
  <2> QED BY <1>0, <1>1, <2>1, MappedSlot
<1>5. \A j \in Keys \ {k} : SlotStatus'[j] = SlotStatus[j] /\ SlotAnswerer'[j] = SlotAnswerer[j]
  BY <1>0, <1>1, <1>2, MappedSlot, MappedSlotNext
<1>6. CASE f = "written"
  <2>1. slots'[k] # Free /\ slots'[k].st = "confirmed" /\ slots'[k].role = RoleOf(c)
    BY <1>0, <1>1, <1>2, <1>6, SlotTypes
  <2>2. SlotStatus'[k] = "answered" /\ SlotAnswerer'[k] = SlotAnswerer[k]
    BY <1>1, <1>4, <2>1, MappedSlotNext
  <2>3. Abstract!Step(k, "answering", "answered", SlotAnswerer[k])
    BY <1>1, <1>4, <1>5, <2>2, AbstractStep
  <2> QED BY <1>1, <2>3 DEF Abstract!Written
<1>7. CASE f # "written"
  <2>1. slots'[k] # Free /\ slots'[k].st # "confirmed" /\ slots'[k].role = RoleOf(c)
    BY <1>0, <1>1, <1>2, <1>7, SlotTypes
  <2>2. SlotStatus'[k] = "unproven" /\ SlotAnswerer'[k] = SlotAnswerer[k]
    BY <1>1, <1>3, <1>4, <2>1, MappedSlotNext
  <2>3. Abstract!Step(k, "answering", "unproven", SlotAnswerer[k])
    BY <1>1, <1>4, <1>5, <2>2, AbstractStep
  <2> QED BY <1>1, <2>3 DEF Abstract!GiveUp
<1> QED BY <1>6, <1>7

LEMMA RefineInit == Init => Abstract!Init
<1> SUFFICES ASSUME Init PROVE Abstract!Init
  OBVIOUS
<1>1. \A k \in Keys : slots[k] = Free
  BY DEF Init
<1>2. \A k \in Keys : SlotStatus[k] = "open" /\ SlotAnswerer[k] = "nobody"
  BY <1>1 DEF SlotStatus, SlotAnswerer, Free
<1>3. SlotStatus = [k \in Keys |-> "open"] /\ SlotAnswerer = [k \in Keys |-> "nobody"]
  BY <1>2, MappedShape
<1> QED BY <1>3 DEF Abstract!Init

LEMMA RefineStep == IInv /\ IInv' /\ [Next]_vars => [Abstract!Next]_(Abstract!vars)
<1> SUFFICES ASSUME IInv, IInv', [Next]_vars PROVE Abstract!Next \/ UNCHANGED Abstract!vars
  OBVIOUS
<1>0. TypeOK /\ TaskInv /\ SlotInv /\ TaskInv'
  BY DEF IInv, SlotInv
<1>1. ASSUME NEW c \in Legs, LegStep(c) PROVE Abstract!Next \/ UNCHANGED Abstract!vars
  <2>0. SlotMove(c)
    BY <1>0, <1>1, SlotMoves
  <2>1. CASE SlotsKept
    BY <1>0, <2>1, RefineKept
  <2>2. CASE \E k \in Keys : SlotTakenBy(c, k)
    <3>1. PICK k \in Keys : Abstract!Answer(k)
      BY <1>0, <2>2, RefineTaken
    <3> QED BY <3>1 DEF Abstract!Next
  <2>3. CASE SlotReleasedBy(c)
    BY <1>0, <2>3, RefineReleased DEF Abstract!Next
  <2>4. CASE \E f \in Fates : SlotSpentBy(c, f)
    BY <1>0, <2>4, RefineSpent DEF Abstract!Next
  <2> QED BY <2>0, <2>1, <2>2, <2>3, <2>4 DEF SlotMove
<1>2. ASSUME UNCHANGED <<slots, answers, won, ans, view>> PROVE UNCHANGED Abstract!vars
  <2>1. SlotsKept
    BY <1>2 DEF SlotsKept, Key, SlotKey
  <2> QED BY <1>0, <2>1, RefineKept
<1>3. ASSUME NEW t \in Threads \cup {NoThread}, HeadMoves(t) PROVE UNCHANGED Abstract!vars
  BY <1>2, <1>3 DEF HeadMoves, legVars, taskVars
<1>4. CASE UNCHANGED vars
  BY <1>2, <1>4 DEF vars
<1> QED BY <1>1, <1>3, <1>4 DEF Next

\* The broker implements the one-use slot: over any legs, pumps and head, every step of
\* consume, confirm and release is a step the abstract approval allows, or none of its.
THEOREM Refinement == Spec => RefinesOneUseSlot
<1>1. Init => Abstract!Init
  BY RefineInit
<1>2. IInv /\ IInv' /\ [Next]_vars => [Abstract!Next]_(Abstract!vars)
  BY RefineStep
<1> QED BY <1>1, <1>2, Invariant, PTL DEF Spec, RefinesOneUseSlot, Abstract!Spec
=============================================================================
