----------------------------- MODULE SessionHead -----------------------------
(***************************************************************************)
(* The head of a Codex session: the one thread the phone may act on.       *)
(*                                                                         *)
(* The broker learns it by watching the keyboard's thread/start, resume    *)
(* and fork requests on their way to the app-server and the app-server's   *)
(* answers on their way back.  A move is recorded before its bytes leave,  *)
(* may be refused by a dead pump, may be answered in several ways or not   *)
(* at all, and may be overtaken by another move on the same or on another  *)
(* keyboard connection.                                                    *)
(*                                                                         *)
(* Sources: codex-broker/src/session.rs (head, retired) and relay.rs       *)
(* (handle_connection, handle_text and spawn_leg of a keyboard leg).       *)
(***************************************************************************)
EXTENDS Integers, FiniteSets

CONSTANTS
  Threads,     \* Codex thread ids
  Conns,       \* keyboard connections
  MaxMoves,    \* bound: head moves in one behaviour
  MaxRetired   \* MAX_RETIRED_THREADS

NoThread == "no-thread"
NoConn   == "no-conn"

ASSUME HeadAssumption ==
  /\ NoThread \notin Threads
  /\ NoConn \notin Conns
  /\ MaxMoves \in Nat
  /\ MaxRetired \in Nat

Moves == 1..MaxMoves

VARIABLES
  head,     \* Binding.head; thread and left are On's, or those of Moving's "from"
  retired,  \* Binding.retired
  stage,    \* what each keyboard leg's task is doing
  sending,  \* the move it is handing to its pump, or 0
  moves,    \* how many moves were observed
  asker,    \* the connection each move was sent on
  reply,    \* the app-server's answer to each move, until its leg observes it
  truth,    \* history: what each move did at the app-server
  dest,     \* history: the thread it landed on, when the answer names it
  off,      \* history: threads unsubscribed since they last landed
  been      \* history: threads that have been the head

headVars == <<head, retired>>
moveVars == <<moves, asker, reply, truth, dest>>
legVars  == <<stage, sending>>
vars == <<head, retired, stage, sending, moves, asker, reply, truth, dest, off, been>>

Unbound == [st |-> "unbound", conn |-> NoConn, move |-> 0, thread |-> NoThread, left |-> FALSE]
On(t, l) == [st |-> "on", conn |-> NoConn, move |-> 0, thread |-> t, left |-> l]
Moving(c, n, t, l) == [st |-> "moving", conn |-> c, move |-> n, thread |-> t, left |-> l]

Stages  == {"reading", "sending", "delivering", "ending", "closed"}
Replies == {"none", "result", "unusable", "ambiguous", "error"}
Truths  == {"unknown", "landed", "never"}

TypeOK ==
  /\ head \in [st : {"unbound", "on", "moving"}, conn : Conns \cup {NoConn}, move : Moves \cup {0},
               thread : Threads \cup {NoThread}, left : BOOLEAN]
  /\ retired \subseteq Threads
  /\ stage \in [Conns -> Stages]
  /\ sending \in [Conns -> Moves \cup {0}]
  /\ moves \in Moves \cup {0}
  /\ asker \in [Moves -> Conns \cup {NoConn}]
  /\ reply \in [Moves -> Replies]
  /\ truth \in [Moves -> Truths]
  /\ dest \in [Moves -> Threads \cup {NoThread}]
  /\ off \subseteq Threads
  /\ been \subseteq Threads

Init ==
  /\ head = Unbound
  /\ retired = {}
  /\ stage = [c \in Conns |-> "reading"]
  /\ sending = [c \in Conns |-> 0]
  /\ moves = 0
  /\ asker = [n \in Moves |-> NoConn]
  /\ reply = [n \in Moves |-> "none"]
  /\ truth = [n \in Moves |-> "unknown"]
  /\ dest = [n \in Moves |-> NoThread]
  /\ off = {}
  /\ been = {}

-----------------------------------------------------------------------------
(* The binding.                                                            *)

\* retire: once, and never past the cap.
Retire(t) ==
  IF t = NoThread \/ Cardinality(retired) >= MaxRetired THEN retired ELSE retired \cup {t}

\* Refused or rolled back: the head a move started from, if it may be put back.
PutBack == IF head.thread = NoThread THEN Unbound ELSE On(head.thread, head.left)

\* bound_thread: what the phone is judged against.
BoundThread == IF head.st = "on" /\ ~head.left THEN head.thread ELSE NoThread

\* is_session_thread: the head or the thread it is moving from, left or not, and the retired.
Readable == retired \cup ({head.thread} \ {NoThread})

\* Slip: a second move in flight keeps what the first would put back.
BeginMove_Slip(c, n) ==
  /\ head' = Moving(c, n, head.thread, head.left)
  /\ UNCHANGED retired

\* observe_tui_request, a move: a second one in flight replaces the first and can put
\* nothing back.
BeginMove(c, n) ==
  IF head.st = "moving"
  THEN head' = Moving(c, n, NoThread, FALSE) /\ retired' = Retire(head.thread)
  ELSE head' = Moving(c, n, head.thread, head.left) /\ UNCHANGED retired

\* Slip: the thread the keyboard moved from is forgotten.
Land_Slip(t) ==
  /\ head' = On(t, FALSE)
  /\ UNCHANGED retired

\* MoveOutcome::Landed
Land(t) ==
  /\ head' = On(t, FALSE)
  /\ retired' = IF head.thread = t THEN retired ELSE Retire(head.thread)

\* MoveOutcome::Refused, and rollback_move
Restore == head' = PutBack /\ UNCHANGED retired

\* Slip: an answer that proves nothing is read as a refusal.
Forget_Slip == head' = PutBack /\ UNCHANGED retired

\* MoveOutcome::Unknown, and close_connection with the move in flight
Forget == head' = Unbound /\ retired' = Retire(head.thread)

-----------------------------------------------------------------------------
(* A keyboard leg's task, one frame at a time.                             *)

\* A thread/start, resume or fork that is not ephemeral, watched before it is forwarded.
KeyboardMove(c) ==
  /\ stage[c] = "reading"
  /\ moves < MaxMoves
  /\ moves' = moves + 1
  /\ asker' = [asker EXCEPT ![moves + 1] = c]
  /\ BeginMove(c, moves + 1)
  /\ stage' = [stage EXCEPT ![c] = "sending"]
  /\ sending' = [sending EXCEPT ![c] = moves + 1]
  /\ UNCHANGED <<reply, truth, dest, off, been>>

\* The pump's channel took the bytes.
HandedOver(c) ==
  /\ stage[c] = "sending"
  /\ stage' = [stage EXCEPT ![c] = "reading"]
  /\ sending' = [sending EXCEPT ![c] = 0]
  /\ UNCHANGED <<headVars, moveVars, off, been>>

\* The pump is gone: zero bytes left, the move is rolled back if it is still the one in
\* flight, and the leg closes.
HandOffRefused(c) ==
  /\ stage[c] = "sending"
  /\ truth' = [truth EXCEPT ![sending[c]] = "never"]
  /\ IF head.st = "moving" /\ head.conn = c /\ head.move = sending[c]
     THEN Restore ELSE UNCHANGED headVars
  /\ stage' = [stage EXCEPT ![c] = "ending"]
  /\ sending' = [sending EXCEPT ![c] = 0]
  /\ UNCHANGED <<moves, asker, reply, dest, off, been>>

\* The channel would not take the bytes within the budget: nothing is rolled back.
HandOffExpires(c) ==
  /\ stage[c] = "sending"
  /\ truth' = [truth EXCEPT ![sending[c]] = "never"]
  /\ stage' = [stage EXCEPT ![c] = "ending"]
  /\ sending' = [sending EXCEPT ![c] = 0]
  /\ UNCHANGED <<headVars, moves, asker, reply, dest, off, been>>

MarkLeft(t) ==
  head' = IF head.st # "unbound" /\ head.thread = t THEN [head EXCEPT !.left = TRUE] ELSE head

\* thread/unsubscribe naming the head, or the head a move would put back.
Unsubscribe(c, t) ==
  /\ stage[c] = "reading"
  /\ MarkLeft(t)
  /\ off' = off \cup {t}
  /\ UNCHANGED <<retired, legVars, moveVars, been>>

\* observe_server_frame: the answer to move n, on the connection that asked.  Only the
\* move in flight is settled; a success with ambiguous members leaves it in flight.
ObserveAnswer(c, n) ==
  /\ stage[c] = "reading"
  /\ asker[n] = c
  /\ reply[n] # "none"
  /\ reply' = [reply EXCEPT ![n] = "none"]
  /\ IF head.st = "moving" /\ head.conn = c /\ head.move = n
     THEN \/ reply[n] = "result" /\ Land(dest[n]) /\ off' = off \ {dest[n]} /\ been' = been \cup {dest[n]}
          \/ reply[n] = "error" /\ Restore /\ UNCHANGED <<off, been>>
          \/ reply[n] = "unusable" /\ Forget /\ UNCHANGED <<off, been>>
          \/ reply[n] = "ambiguous" /\ UNCHANGED <<headVars, off, been>>
     ELSE UNCHANGED <<headVars, off, been>>
  /\ stage' = [stage EXCEPT ![c] = "delivering"]
  /\ UNCHANGED <<sending, moves, asker, truth, dest>>

\* The frame just observed goes on to the keyboard, or the keyboard is gone.
FrameDelivered(c) ==
  /\ stage[c] = "delivering"
  /\ stage' = [stage EXCEPT ![c] = "reading"]
  /\ UNCHANGED <<headVars, sending, moveVars, off, been>>

FrameUndeliverable(c) ==
  /\ stage[c] = "delivering"
  /\ stage' = [stage EXCEPT ![c] = "ending"]
  /\ UNCHANGED <<headVars, sending, moveVars, off, been>>

\* The keyboard closed, or the upstream ended.
LegEnds(c) ==
  /\ stage[c] = "reading"
  /\ stage' = [stage EXCEPT ![c] = "ending"]
  /\ UNCHANGED <<headVars, sending, moveVars, off, been>>

\* close_connection: a move still in flight on it may have reached the server.
LegCloses(c) ==
  /\ stage[c] = "ending"
  /\ stage' = [stage EXCEPT ![c] = "closed"]
  /\ IF head.st = "moving" /\ head.conn = c THEN Forget ELSE UNCHANGED headVars
  /\ UNCHANGED <<sending, moveVars, off, been>>

-----------------------------------------------------------------------------
(* The app-server.                                                         *)

\* A move whose bytes left may be acted on at any later time, its connection closed or not.
AtServer(n) == n <= moves /\ truth[n] = "unknown" /\ \A c \in Conns : sending[c] # n

ServerLands(n, t) ==
  /\ AtServer(n)
  /\ truth' = [truth EXCEPT ![n] = "landed"]
  /\ dest' = [dest EXCEPT ![n] = t]
  /\ \E r \in {"result", "unusable", "ambiguous"} : reply' = [reply EXCEPT ![n] = r]
  /\ UNCHANGED <<headVars, legVars, moves, asker, off, been>>

ServerRefuses(n) ==
  /\ AtServer(n)
  /\ truth' = [truth EXCEPT ![n] = "never"]
  /\ reply' = [reply EXCEPT ![n] = "error"]
  /\ UNCHANGED <<headVars, legVars, moves, asker, dest, off, been>>

LegStep(c) ==
  \/ KeyboardMove(c) \/ HandedOver(c) \/ HandOffRefused(c) \/ HandOffExpires(c)
  \/ \E t \in Threads : Unsubscribe(c, t)
  \/ \E n \in Moves : ObserveAnswer(c, n)
  \/ FrameDelivered(c) \/ FrameUndeliverable(c)
  \/ LegEnds(c) \/ LegCloses(c)

Next ==
  \/ \E c \in Conns : LegStep(c)
  \/ \E n \in Moves : ServerRefuses(n) \/ \E t \in Threads : ServerLands(n, t)

Spec == Init /\ [][Next]_vars

-----------------------------------------------------------------------------
(* Properties.                                                             *)

\* Move n put the keyboard on t, and every move observed since provably did not happen.
KeyboardIsOn(t, n) ==
  /\ n <= moves
  /\ truth[n] = "landed" /\ dest[n] = t
  /\ \A m \in Moves : n < m /\ m <= moves => truth[m] = "never"

\* The phone acts only where the keyboard provably is (bound_thread): the head it is
\* judged against is where the last move that may have happened put the keyboard, and
\* the keyboard has not unsubscribed from it since.
HeadIsProven ==
  BoundThread # NoThread =>
    /\ \E n \in Moves : KeyboardIsOn(BoundThread, n)
    /\ BoundThread \notin off

\* Every thread that was the head stays readable from the phone (is_session_thread),
\* until the retired list is full.
HeadsStayReadable == been \subseteq Readable \/ Cardinality(retired) >= MaxRetired

\* A head comes and goes only by proof (observe_server_frame, rollback_move): a step that
\* binds a thread either carries that thread's own landing answer, or follows a move that
\* provably did not happen.
BindsByProof ==
  [][BoundThread' # BoundThread /\ BoundThread' # NoThread =>
       \/ \E n \in Moves : reply[n] = "result" /\ reply'[n] = "none" /\ dest[n] = BoundThread'
       \/ head.st = "moving" /\ head.thread = BoundThread' /\ truth'[head.move] = "never"]_vars
=============================================================================
