----------------------------- MODULE SessionTurns -----------------------------
(***************************************************************************)
(* Which turns are running, and which phone requests are outstanding.      *)
(*                                                                         *)
(* The broker marks a thread busy from three sources that arrive on        *)
(* different legs in different orders: a turn/start it saw go out, the     *)
(* answer to it, and the app-server's broadcast turn/started and           *)
(* turn/completed.  A phone's turn/start is admitted only on an idle head, *)
(* in one critical section with the request-id ledger.                     *)
(*                                                                         *)
(* Source: codex-broker/src/session.rs (TurnActivity, TerminalEpochs,      *)
(* admit_id, try_admit_idle_turn, observe_server_frame).  The moves of the *)
(* head are SessionHead's; here it is simply anywhere.                     *)
(***************************************************************************)
EXTENDS Integers, Sequences, FiniteSets

CONSTANTS
  Threads,         \* Codex thread ids
  Keyboards,       \* keyboard connections
  Phones,          \* phone connections
  Ids,             \* request ids a client may choose
  MaxTurns,        \* bound: turns per thread
  MaxStarts,       \* bound: requests sent in one behaviour
  MaxCleared,      \* MAX_CLEARED_TURNS
  MaxRunning,      \* MAX_RUNNING_THREADS
  MaxActive,       \* MAX_ACTIVE_TURNS
  MaxOutstanding,  \* MAX_OUTSTANDING_REQUESTS
  MaxTracked       \* MAX_TRACKED_CONNECTIONS

Conns == Keyboards \cup Phones
NoThread == "no-thread"
NoTurn == 0
NoId == "no-id"
Turns == 1..MaxTurns

ASSUME TurnAssumption ==
  /\ NoThread \notin Threads
  /\ Keyboards \cap Phones = {}
  /\ NoId \notin Ids
  /\ MaxTurns \in Nat /\ MaxStarts \in Nat
  /\ MaxCleared \in Nat \ {0} /\ MaxRunning \in Nat \ {0}

VARIABLES
  conn,      \* each connection: not yet made, open, or gone
  head,      \* bound_thread, or NoThread
  admitted,  \* TurnActivity.admitted, by connection and request id
  running,   \* TurnActivity.running, NoTurn where there is none
  cleared,   \* TerminalEpochs: its order; "seen" is the same set
  ledger,    \* Binding.conns: the outstanding ids of each tracked phone connection
  c2s,       \* requests on their way to the app-server
  s2c,       \* the app-server's frames on their way to each leg
  srv,       \* the turn the app-server is running on each thread
  minted,    \* how many turns it has started there
  sent,      \* how many requests were sent
  heard,     \* history: terminals some leg has observed
  unknown,   \* history: turns whose mark the broker dropped knowingly
  strangers, \* history: connections made while some turn's terminal was on its way to others
  late,      \* history: turns started by those
  overrun    \* history: a terminal was forgotten while a leg still had frames of it

brokerVars == <<admitted, running, cleared, ledger>>
serverVars == <<srv, minted>>
histVars == <<heard, unknown, strangers, late, overrun>>
vars == <<conn, head, admitted, running, cleared, ledger, c2s, s2c, srv, minted, sent,
          heard, unknown, strangers, late, overrun>>

NoEntry == [st |-> "none", thread |-> NoThread, turn |-> NoTurn]
Unanswered(t) == [st |-> "unanswered", thread |-> t, turn |-> NoTurn]
Answered(t, u) == [st |-> "answered", thread |-> t, turn |-> u]

Entry == [st : {"none", "unanswered", "answered"}, thread : Threads \cup {NoThread},
          turn : Turns \cup {NoTurn}]

Request == [id : Ids, thread : Threads \cup {NoThread}]
Start(i, t) == [id |-> i, thread |-> t]
Other(i) == [id |-> i, thread |-> NoThread]

Notice   == [kind : {"started", "completed"}, thread : Threads, turn : Turns, id : {NoId}]
Response == [kind : {"result", "error"}, thread : Threads \cup {NoThread},
             turn : Turns \cup {NoTurn}, id : Ids]
Frame(k, t, u, i) == [kind |-> k, thread |-> t, turn |-> u, id |-> i]

TypeOK ==
  /\ conn \in [Conns -> {"new", "open", "gone"}]
  /\ head \in Threads \cup {NoThread}
  /\ admitted \in [Conns -> [Ids -> Entry]]
  /\ running \in [Threads -> Turns \cup {NoTurn}]
  /\ cleared \in Seq(Threads \X Turns) /\ Len(cleared) <= MaxCleared
  /\ DOMAIN ledger \subseteq Phones /\ \A p \in DOMAIN ledger : ledger[p] \subseteq Ids
  /\ c2s \in [Conns -> Seq(Request)]
  /\ s2c \in [Conns -> Seq(Notice \cup Response)]
  /\ srv \in [Threads -> Turns \cup {NoTurn}]
  /\ minted \in [Threads -> Turns \cup {0}]
  /\ sent \in 0..MaxStarts
  /\ heard \subseteq Threads \X Turns
  /\ unknown \subseteq Threads \X Turns
  /\ strangers \subseteq Conns /\ late \subseteq Threads \X Turns
  /\ overrun \in BOOLEAN

Init ==
  /\ conn = [c \in Conns |-> "new"]
  /\ head = NoThread
  /\ admitted = [c \in Conns |-> [i \in Ids |-> NoEntry]]
  /\ running = [t \in Threads |-> NoTurn]
  /\ cleared = <<>>
  /\ ledger = [p \in {} |-> {}]
  /\ c2s = [c \in Conns |-> <<>>]
  /\ s2c = [c \in Conns |-> <<>>]
  /\ srv = [t \in Threads |-> NoTurn]
  /\ minted = [t \in Threads |-> 0]
  /\ sent = 0
  /\ heard = {} /\ unknown = {} /\ strangers = {} /\ late = {} /\ overrun = FALSE

-----------------------------------------------------------------------------
(* TurnActivity.                                                           *)

Seen == {cleared[k] : k \in DOMAIN cleared}

BusyOn(t) == running[t] # NoTurn \/ \E c \in Conns, i \in Ids : admitted[c][i].thread = t

IsActive(t, u) ==
  \/ running[t] = u
  \/ \E c \in Conns, i \in Ids : admitted[c][i] = Answered(t, u)

Live == {ci \in Conns \X Ids : admitted[ci[1]][ci[2]] # NoEntry}

Admit(c, i, t) == admitted' = [admitted EXCEPT ![c][i] = Unanswered(t)]

\* Slip: a lagging announcement marks a turn that has ended.
Started_Slip(t, u) ==
  /\ running' = [running EXCEPT ![t] = u]
  /\ UNCHANGED <<admitted, cleared>>

\* started: past the cap every mark but the head's is forgotten.
Started(t, u) ==
  /\ UNCHANGED <<admitted, cleared>>
  /\ running' =
       IF <<t, u>> \in Seen THEN running
       ELSE LET full == Cardinality({r \in Threads : running[r] # NoTurn}) >= MaxRunning
                        /\ running[t] = NoTurn
                kept == [r \in Threads |-> IF full /\ r # head THEN NoTurn ELSE running[r]]
            IN  [kept EXCEPT ![t] = u]

\* Slip: an error response leaves the start's mark.
ErrorOf_Slip(c, i) == UNCHANGED admitted

\* release: the turn/start provably did not start.
ErrorOf(c, i) == admitted' = [admitted EXCEPT ![c][i] = NoEntry]

\* answered: the turn may already have ended on another leg.
ResultOf(c, i, u) ==
  admitted' = [admitted EXCEPT ![c][i] =
                 IF <<admitted[c][i].thread, u>> \in Seen THEN NoEntry
                 ELSE Answered(admitted[c][i].thread, u)]

\* Slip: nothing is ever forgotten.
Remember_Slip(tu) == Append(cleared, tu)

\* TerminalEpochs::admit, of a terminal not seen before: oldest out.
Remember(tu) == Append(IF Len(cleared) >= MaxCleared THEN Tail(cleared) ELSE cleared, tu)

\* Slip: a terminal ends the unanswered starts as well.
EndAnswered_Slip(t) ==
  [c \in Conns |-> [i \in Ids |-> IF admitted[c][i].thread = t THEN NoEntry ELSE admitted[c][i]]]

\* What a terminal on t ends: every answered start there, whatever turn it names.
EndAnswered(t) ==
  [c \in Conns |-> [i \in Ids |->
     IF admitted[c][i].thread = t /\ admitted[c][i].st = "answered" THEN NoEntry ELSE admitted[c][i]]]

\* terminal: only the first sight of one clears anything.
Terminal(t, u) ==
  IF <<t, u>> \in Seen THEN UNCHANGED <<admitted, running, cleared>>
  ELSE /\ cleared' = Remember(<<t, u>>)
       /\ running' = [running EXCEPT ![t] = IF @ = u THEN NoTurn ELSE @]
       /\ admitted' = EndAnswered(t)

Outstanding(p) == IF p \in DOMAIN ledger THEN ledger[p] ELSE {}

\* Slip: an id already outstanding is admitted again.
CanLedger_Slip(p, i) == Cardinality(Outstanding(p)) < MaxOutstanding

\* admit_id: no id twice, and two bounds.
CanLedger(p, i) ==
  /\ p \in DOMAIN ledger \/ Cardinality(DOMAIN ledger) < MaxTracked
  /\ i \notin Outstanding(p)
  /\ Cardinality(Outstanding(p)) < MaxOutstanding

Ledger(p, i) ==
  ledger' = [q \in DOMAIN ledger \cup {p} |-> Outstanding(q) \cup IF q = p THEN {i} ELSE {}]

-----------------------------------------------------------------------------
(* The legs.                                                               *)

Send(c, r) ==
  /\ sent < MaxStarts
  /\ sent' = sent + 1
  /\ c2s' = [c2s EXCEPT ![c] = Append(@, r)]

Connect(c) ==
  /\ conn[c] = "new"
  /\ conn' = [conn EXCEPT ![c] = "open"]
  /\ strangers' = IF \E k \in Conns : \E j \in DOMAIN s2c[k] :
                       s2c[k][j].kind = "completed" /\ <<s2c[k][j].thread, s2c[k][j].turn>> \notin Seen
                  THEN strangers \cup {c} ELSE strangers
  /\ UNCHANGED <<head, brokerVars, c2s, s2c, serverVars, sent, heard, unknown, late, overrun>>

HeadMoves(t) ==
  /\ head' = t /\ t # head
  /\ UNCHANGED <<conn, brokerVars, c2s, s2c, serverVars, sent, histVars>>

\* observe_tui_request, a turn/start; a keyboard picks an id it is not using.
KeyboardStarts(c, i, t) ==
  /\ conn[c] = "open"
  /\ admitted[c][i] = NoEntry
  /\ \A k \in DOMAIN c2s[c] : c2s[c][k].id # i
  /\ \A k \in DOMAIN s2c[c] : s2c[c][k].id # i
  /\ Admit(c, i, t)
  /\ Send(c, Start(i, t))
  /\ UNCHANGED <<conn, head, running, cleared, ledger, s2c, serverVars, histVars>>

\* try_admit_idle_turn: the head, no live turn under this id, idle, the caps and the ledger.
PhoneStarts(p, i) ==
  /\ conn[p] = "open"
  /\ head # NoThread
  /\ admitted[p][i] = NoEntry
  /\ ~BusyOn(head)
  /\ Cardinality(Live) < MaxActive
  /\ CanLedger(p, i)
  /\ Ledger(p, i)
  /\ Admit(p, i, head)
  /\ Send(p, Start(i, head))
  /\ UNCHANGED <<conn, head, running, cleared, s2c, serverVars, histVars>>

\* try_admit_request: any other phone request that is forwarded.
PhoneAsks(p, i) ==
  /\ conn[p] = "open"
  /\ CanLedger(p, i)
  /\ Ledger(p, i)
  /\ Send(p, Other(i))
  /\ UNCHANGED <<conn, head, admitted, running, cleared, s2c, serverVars, histVars>>

\* The mark of another thread's turn that a full table drops.
Dropped(t) == {ru \in (Threads \ {t}) \X Turns : running[ru[1]] = ru[2] /\ running'[ru[1]] = NoTurn}

\* A frame of a turn still queued on some leg other than the one being observed.
Queued(tu) ==
  \E c \in Conns : \E k \in DOMAIN s2c'[c] : s2c'[c][k].turn = tu[2] /\ s2c'[c][k].thread = tu[1]

\* observe_server_frame on c's next frame.
Observe(c) ==
  /\ s2c[c] # <<>>
  /\ s2c' = [s2c EXCEPT ![c] = Tail(@)]
  /\ LET f == Head(s2c[c]) IN
     \/ /\ f.kind = "started"
        /\ Started(f.thread, f.turn)
        /\ unknown' = unknown \cup Dropped(f.thread)
        /\ UNCHANGED <<ledger, heard, strangers, late, overrun>>
     \/ /\ f.kind = "completed"
        /\ Terminal(f.thread, f.turn)
        /\ heard' = heard \cup {<<f.thread, f.turn>>}
        /\ overrun' = (overrun \/ \E tu \in Seen : tu \notin Seen' /\ Queued(tu))
        /\ UNCHANGED <<ledger, unknown, strangers, late>>
     \/ /\ f.kind \in {"result", "error"}
        /\ IF admitted[c][f.id].st # "unanswered" THEN UNCHANGED admitted
           ELSE \/ f.kind = "error" /\ ErrorOf(c, f.id)
                \/ f.kind = "result" /\ ResultOf(c, f.id, f.turn)
        /\ ledger' = [p \in DOMAIN ledger |-> ledger[p] \ IF p = c THEN {f.id} ELSE {}]
        /\ UNCHANGED <<running, cleared, histVars>>
  /\ UNCHANGED <<conn, head, c2s, serverVars, sent>>

\* An answered turn/start outlives its connection, an unanswered one does not.
Survives(e) == e.st = "answered"

\* close_connection: frames queued for it are lost; requests already written may still be read.
Close(c) ==
  /\ conn[c] = "open"
  /\ conn' = [conn EXCEPT ![c] = "gone"]
  /\ admitted' = [admitted EXCEPT ![c] = [i \in Ids |-> IF Survives(@[i]) THEN @[i] ELSE NoEntry]]
  /\ ledger' = [p \in DOMAIN ledger \ {c} |-> ledger[p]]
  /\ s2c' = [s2c EXCEPT ![c] = <<>>]
  /\ unknown' = unknown \cup {tu \in Threads \X Turns :
                   srv[tu[1]] = tu[2] /\ \E i \in Ids : admitted[c][i] = Unanswered(tu[1])}
  /\ UNCHANGED <<head, running, cleared, c2s, serverVars, sent, heard, strangers, late, overrun>>

-----------------------------------------------------------------------------
(* The app-server: one turn per thread, every frame of a turn to every connection. *)

Broadcast(f) == [k \in Conns |-> IF conn[k] = "open" THEN Append(s2c[k], f) ELSE s2c[k]]

Reply(q, c, f) == IF conn[c] = "open" THEN [q EXCEPT ![c] = Append(@, f)] ELSE q

Takes(c) == c2s[c] # <<>> /\ c2s' = [c2s EXCEPT ![c] = Tail(@)]

ServerRefuses(c) ==
  /\ Takes(c)
  /\ s2c' = Reply(s2c, c, Frame("error", NoThread, NoTurn, Head(c2s[c]).id))
  /\ UNCHANGED <<conn, head, brokerVars, serverVars, sent, histVars>>

ServerAnswers(c) ==
  /\ Takes(c)
  /\ Head(c2s[c]).thread = NoThread
  /\ s2c' = Reply(s2c, c, Frame("result", NoThread, NoTurn, Head(c2s[c]).id))
  /\ UNCHANGED <<conn, head, brokerVars, serverVars, sent, histVars>>

\* A turn/start on a busy thread joins the running turn and is answered with its id.
ServerJoins(c) ==
  LET t == Head(c2s[c]).thread IN
  /\ Takes(c)
  /\ t # NoThread /\ srv[t] # NoTurn
  /\ s2c' = Reply(s2c, c, Frame("result", t, srv[t], Head(c2s[c]).id))
  /\ UNCHANGED <<conn, head, brokerVars, serverVars, sent, histVars>>

\* The answer and the announcement leave in either order; the answer's turn id may be unreadable.
ServerStarts(c, u, first) ==
  LET t == Head(c2s[c]).thread
      n == minted[t] + 1
      answer == Frame("result", t, u, Head(c2s[c]).id)
      news == Frame("started", t, n, NoId)
  IN
  /\ Takes(c)
  /\ t # NoThread /\ srv[t] = NoTurn /\ minted[t] < MaxTurns
  /\ u \in {n, NoTurn}
  /\ srv' = [srv EXCEPT ![t] = n]
  /\ minted' = [minted EXCEPT ![t] = n]
  /\ s2c' = [k \in Conns |->
               IF conn[k] # "open" THEN s2c[k]
               ELSE s2c[k] \o IF k # c THEN <<news>>
                              ELSE IF first THEN <<answer, news>> ELSE <<news, answer>>]
  /\ unknown' = IF conn[c] = "open" THEN unknown ELSE unknown \cup {<<t, n>>}
  /\ late' = IF c \in strangers THEN late \cup {<<t, n>>} ELSE late
  /\ UNCHANGED <<conn, head, brokerVars, sent, heard, strangers, overrun>>

ServerCompletes(t) ==
  /\ srv[t] # NoTurn
  /\ srv' = [srv EXCEPT ![t] = NoTurn]
  /\ s2c' = Broadcast(Frame("completed", t, srv[t], NoId))
  /\ UNCHANGED <<conn, head, brokerVars, c2s, minted, sent, histVars>>

Next ==
  \/ \E c \in Conns : Connect(c) \/ Observe(c) \/ Close(c)
  \/ \E c \in Conns : ServerRefuses(c) \/ ServerAnswers(c) \/ ServerJoins(c)
                      \/ \E u \in Turns \cup {NoTurn}, first \in BOOLEAN : ServerStarts(c, u, first)
  \/ \E t \in Threads \cup {NoThread} : HeadMoves(t)
  \/ \E t \in Threads : ServerCompletes(t)
  \/ \E c \in Keyboards, i \in Ids, t \in Threads : KeyboardStarts(c, i, t)
  \/ \E p \in Phones, i \in Ids : PhoneStarts(p, i) \/ PhoneAsks(p, i)

Spec == Init /\ [][Next]_vars

-----------------------------------------------------------------------------
(* Properties.                                                             *)

\* A running turn is known to be running (busy_on), whichever legs carried its news and
\* in whatever order, unless its starter's connection closed unanswered, a full table
\* dropped its mark, a leg lags further behind than terminals are remembered, or its
\* starter connected while an earlier turn's terminal was still on its way to the others.
KnownBusy ==
  \A t \in Threads : srv[t] # NoTurn =>
    BusyOn(t) \/ <<t, srv[t]>> \in unknown \cup late \/ overrun

\* A turn whose terminal is remembered is never active again (is_active_turn): no late
\* announcement, answer or duplicate revives it.
EndedStaysEnded == \A tu \in Seen : ~IsActive(tu[1], tu[2])

Quiet ==
  /\ \A c \in Conns : s2c[c] = <<>> /\ (conn[c] = "open" => c2s[c] = <<>>)
  /\ \A t \in Threads : srv[t] = NoTurn

\* A thread is not left busy for ever (TurnActivity): once nothing runs and nothing is on
\* its way, a mark remains only for a turn whose terminal reached no leg, for an answer
\* whose turn id could not be read, or after a leg lagged too far.
NoStuckBusy ==
  Quiet /\ ~overrun =>
    \A t \in Threads : BusyOn(t) =>
      \/ \E u \in 1..minted[t] : <<t, u>> \notin heard
      \/ \E c \in Conns, i \in Ids : admitted[c][i] = Answered(t, NoTurn)

\* Two phone requests in flight on one open connection never share an id (admit_id), so
\* every response names one request: not two on their way to the app-server, not two
\* answers on their way back, and not one of each.
IdsCorrelate ==
  \A p \in Phones : conn[p] = "open" =>
    /\ \A j, k \in DOMAIN c2s[p] : c2s[p][j].id = c2s[p][k].id => j = k
    /\ \A j, k \in DOMAIN s2c[p] : s2c[p][j].id = s2c[p][k].id /\ s2c[p][j].id # NoId => j = k
    /\ \A j \in DOMAIN c2s[p], k \in DOMAIN s2c[p] : c2s[p][j].id # s2c[p][k].id
=============================================================================
