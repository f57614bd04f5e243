------------------------------ MODULE HeadFanout ------------------------------
(***************************************************************************)
(* How the head reaches the daemon's legs.                                 *)
(*                                                                         *)
(* The head binds on the task of the keyboard leg whose answer carried it; *)
(* a daemon leg's socket belongs to another task.  A table under one mutex *)
(* says what every daemon leg was last told, each leg has a wake-up permit *)
(* that coalesces, and the leg chooses the frame when it can send it.      *)
(* Announcements (thread/started) travel on every leg at its own pace.     *)
(*                                                                         *)
(* Source: codex-broker/src/relay.rs (HeadFanout, note_announcement,       *)
(* deliver_head, owed_head, and their callers in handle_connection and     *)
(* handle_text), composed with SessionHead.                                *)
(***************************************************************************)
EXTENDS SessionHead, Sequences

CONSTANTS
  Ccds,              \* daemon connections
  MaxAnnouncements,  \* MAX_ANNOUNCEMENTS
  MaxChatter         \* bound: server frames that no keyboard move caused

ASSUME FanoutAssumption == MaxAnnouncements \in Nat \ {0} /\ MaxChatter \in Nat

VARIABLES
  sub,        \* what each daemon leg's task is doing
  told,       \* CcdSubscriber.told
  wake,       \* CcdSubscriber.wake: a stored permit
  announced,  \* HeadFanout.announced
  news,       \* announcements on their way to each leg
  asking,     \* keyboard legs that rolled a move back and have not yet asked
  chatter,    \* how many frames of the server no keyboard move caused
  missed      \* history: a keyboard died with its frame, and nobody has asked since

fanVars == <<sub, told, wake, announced, news, asking, chatter, missed>>
allVars == <<vars, fanVars>>

Legs == Conns \cup Ccds

FanoutTypeOK ==
  /\ TypeOK
  /\ sub \in [Ccds -> {"connected", "asking", "reading", "delivering", "closed"}]
  /\ told \in [Ccds -> Threads \cup {NoThread}]
  /\ wake \in [Ccds -> BOOLEAN]
  /\ announced \in Seq(Threads) /\ Len(announced) <= MaxAnnouncements
  /\ news \in [Legs -> Seq(Threads)]
  /\ asking \subseteq Conns
  /\ chatter \in 0..MaxChatter
  /\ missed \in BOOLEAN

FanoutInit ==
  /\ Init
  /\ sub = [l \in Ccds |-> "connected"]
  /\ told = [l \in Ccds |-> NoThread]
  /\ wake = [l \in Ccds |-> FALSE]
  /\ announced = <<>>
  /\ news = [k \in Legs |-> <<>>]
  /\ asking = {}
  /\ chatter = 0
  /\ missed = FALSE

-----------------------------------------------------------------------------
(* The table.                                                              *)

\* The legs in the subscriber table.
Subscribed == {l \in Ccds : sub[l] \in {"asking", "reading", "delivering"}}

\* The head is bound and the leg was last told another thread.
Owed(l) == l \in Subscribed /\ BoundThread \notin {NoThread, told[l]}

\* deliver_head: wake every leg whose head is out of date; permits coalesce.
DeliverHead ==
  /\ wake' = [l \in Ccds |-> wake[l] \/ Owed(l)]
  /\ missed' = FALSE

\* Slip: the newest announcement is not bounded.
Announce_Slip(t) == Append(announced, t)

\* note_announcement: first bytes per thread win, oldest out.
Announce(t) ==
  IF \E k \in DOMAIN announced : announced[k] = t THEN announced
  ELSE LET a == Append(announced, t)
       IN  IF Len(a) > MaxAnnouncements THEN Tail(a) ELSE a

-----------------------------------------------------------------------------
(* Keyboard legs: SessionHead's steps, with what they do to the table.      *)

KeyboardQuiet(c) ==
  /\ \/ KeyboardMove(c) \/ HandedOver(c) \/ HandOffExpires(c) \/ LegEnds(c)
     \/ \E t \in Threads : Unsubscribe(c, t)
     \/ \E n \in Moves : ObserveAnswer(c, n)
  /\ UNCHANGED fanVars

\* Slip: a head put back is not a head that bound.
KeyboardRefused_Slip(c) == HandOffRefused(c) /\ UNCHANGED fanVars

\* The refused hand-off rolls the move back, then asks.
KeyboardRefused(c) ==
  /\ HandOffRefused(c)
  /\ asking' = asking \cup {c}
  /\ UNCHANGED <<sub, told, wake, announced, news, chatter, missed>>

KeyboardAsks(c) ==
  /\ c \in asking
  /\ DeliverHead
  /\ asking' = asking \ {c}
  /\ UNCHANGED <<vars, sub, told, announced, news, chatter>>

\* An announcement on a keyboard leg is kept for late subscribers and passed on.
KeyboardHearsNews(c) ==
  /\ stage[c] = "reading" /\ news[c] # <<>>
  /\ stage' = [stage EXCEPT ![c] = "delivering"]
  /\ announced' = Announce(Head(news[c]))
  /\ news' = [news EXCEPT ![c] = Tail(@)]
  /\ UNCHANGED <<headVars, sending, moveVars, off, been, sub, told, wake, asking, chatter, missed>>

\* The frame reached the keyboard, then deliver_head.
KeyboardDelivered(c) ==
  /\ FrameDelivered(c)
  /\ DeliverHead
  /\ UNCHANGED <<sub, told, announced, news, asking, chatter>>

\* The keyboard is gone: the leg's task returns before it asks.
KeyboardUndeliverable(c) ==
  /\ FrameUndeliverable(c)
  /\ missed' = TRUE
  /\ UNCHANGED <<sub, told, wake, announced, news, asking, chatter>>

KeyboardCloses(c) ==
  /\ LegCloses(c)
  /\ c \notin asking
  /\ news' = [news EXCEPT ![c] = <<>>]
  /\ UNCHANGED <<sub, told, wake, announced, asking, chatter, missed>>

-----------------------------------------------------------------------------
(* Daemon legs.                                                             *)

\* initialize was forwarded: the leg enters the table, told nothing.
CcdSubscribes(l) ==
  /\ sub[l] = "connected"
  /\ sub' = [sub EXCEPT ![l] = "asking"]
  /\ UNCHANGED <<vars, told, wake, announced, news, asking, chatter, missed>>

CcdAsks(l) ==
  /\ sub[l] = "asking"
  /\ DeliverHead
  /\ sub' = [sub EXCEPT ![l] = "reading"]
  /\ UNCHANGED <<vars, told, announced, news, asking, chatter>>

CcdHearsNews(l) ==
  /\ sub[l] = "reading" /\ news[l] # <<>>
  /\ sub' = [sub EXCEPT ![l] = "delivering"]
  /\ announced' = Announce(Head(news[l]))
  /\ told' = [told EXCEPT ![l] = Head(news[l])]
  /\ news' = [news EXCEPT ![l] = Tail(@)]
  /\ UNCHANGED <<vars, wake, asking, chatter, missed>>

CcdHearsOther(l) ==
  /\ sub[l] = "reading"
  /\ chatter < MaxChatter
  /\ chatter' = chatter + 1
  /\ sub' = [sub EXCEPT ![l] = "delivering"]
  /\ UNCHANGED <<vars, told, wake, announced, news, asking, missed>>

\* Slip: a frame of a daemon leg is taken to move nothing.
CcdDelivered_Slip(l) ==
  /\ sub[l] = "delivering"
  /\ sub' = [sub EXCEPT ![l] = "reading"]
  /\ UNCHANGED <<vars, told, wake, announced, news, asking, chatter, missed>>

\* The frame was sent, then deliver_head: after a late announcement it is this very leg
\* that is owed the head again.
CcdDelivered(l) ==
  /\ sub[l] = "delivering"
  /\ DeliverHead
  /\ sub' = [sub EXCEPT ![l] = "reading"]
  /\ UNCHANGED <<vars, told, announced, news, asking, chatter>>

\* The wake arm: owed_head. It is the last of three, but an announcement still in the
\* socket or in the leg's pump is not ready and may come after it.
CcdWoken(l) ==
  /\ sub[l] = "reading" /\ wake[l]
  /\ wake' = [wake EXCEPT ![l] = FALSE]
  /\ told' = IF Owed(l) THEN [told EXCEPT ![l] = BoundThread] ELSE told
  /\ UNCHANGED <<vars, sub, announced, news, asking, chatter, missed>>

\* The daemon closed, its socket failed, or the upstream ended; the table forgets the leg.
CcdEnds(l) ==
  /\ sub[l] \in {"connected", "reading", "delivering"}
  /\ sub' = [sub EXCEPT ![l] = "closed"]
  /\ told' = [told EXCEPT ![l] = NoThread]
  /\ wake' = [wake EXCEPT ![l] = FALSE]
  /\ news' = [news EXCEPT ![l] = <<>>]
  /\ UNCHANGED <<vars, announced, asking, chatter, missed>>

-----------------------------------------------------------------------------
(* The app-server: a new thread is announced to the keyboards and to those *)
(* daemon legs it has already answered; a resumed one to nobody.           *)

Broadcast(t) ==
  \E S \in SUBSET Subscribed :
    news' = [k \in Legs |->
      IF k \in S \/ (k \in Conns /\ stage[k] # "closed") THEN Append(news[k], t) ELSE news[k]]

ServerMoves(n, t) ==
  /\ ServerLands(n, t)
  /\ UNCHANGED news \/ ((\A m \in Moves : dest[m] # t) /\ Broadcast(t))
  /\ UNCHANGED <<sub, told, wake, announced, asking, chatter, missed>>

\* A thread that no keyboard move asked for is announced, or one is announced again.
ServerAnnounces(t) ==
  /\ chatter < MaxChatter
  /\ chatter' = chatter + 1
  /\ Broadcast(t)
  /\ UNCHANGED <<vars, sub, told, wake, announced, asking, missed>>

KeyboardTask(c) == KeyboardDelivered(c) \/ KeyboardUndeliverable(c) \/ KeyboardAsks(c)
CcdTask(l) == CcdAsks(l) \/ CcdDelivered(l) \/ CcdWoken(l)

FanoutNext ==
  \/ \E c \in Conns : \/ KeyboardQuiet(c) \/ KeyboardRefused(c) \/ KeyboardHearsNews(c)
                      \/ KeyboardTask(c) \/ KeyboardCloses(c)
  \/ \E l \in Ccds : \/ CcdSubscribes(l) \/ CcdHearsNews(l) \/ CcdHearsOther(l)
                     \/ CcdTask(l) \/ CcdEnds(l)
  \/ \E n \in Moves : \/ ServerRefuses(n) /\ UNCHANGED fanVars
                      \/ \E t \in Threads : ServerMoves(n, t)
  \/ \E t \in Threads : ServerAnnounces(t)

FanoutSpec == FanoutInit /\ [][FanoutNext]_allVars

\* A task that can run runs: the runtime polls every leg's task, a send to a client ends
\* or fails, and a leg reads what its upstream already holds.
FairFanoutSpec ==
  /\ FanoutSpec
  /\ \A c \in Conns : WF_allVars(KeyboardTask(c))
  /\ \A l \in Ccds : WF_allVars(CcdTask(l)) /\ WF_allVars(CcdHearsNews(l))

-----------------------------------------------------------------------------
(* Properties.                                                             *)

\* A step is under way that will wake l if it is still owed the head.
AskComing(l) ==
  \/ wake[l]
  \/ sub[l] \in {"asking", "delivering"}
  \/ asking # {}
  \/ \E c \in Conns : stage[c] = "delivering"

\* No daemon leg is forgotten (deliver_head): whenever a leg is owed the head, it has been
\* woken or a task is on its way to wake it, unless a keyboard died with its own frame.
OwedIsAsked == \A l \in Ccds : Owed(l) => AskComing(l) \/ missed

\* The head reaches every daemon leg (owed_head): a leg that is owed it is told, or the
\* debt ends another way.
HeadReaches == \A l \in Ccds : Owed(l) ~> (~Owed(l) \/ missed)
=============================================================================
