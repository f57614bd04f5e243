-------------------------- MODULE SessionTurns_proofs --------------------------
(***************************************************************************)
(* Theorems about running turns, for any threads, connections and bounds:  *)
(* type correctness; that a turn whose terminal is remembered is never     *)
(* active again; that ids in flight are apart; that a running turn is      *)
(* known; and that a quiet thread is not left busy.                        *)
(*                                                                         *)
(* The second is inductive given the first, because each of the three ways *)
(* a turn becomes active asks the memory of terminals, and a terminal      *)
(* removes all three.  The others rest on TurnsInv, which follows every    *)
(* request, answer and terminal along the wires: the lemmas say what each  *)
(* action does to a wire, then what each conjunct makes of that.           *)
(***************************************************************************)
EXTENDS SessionTurns, TLAPS

USE TurnAssumption DEF Turns, NoTurn

\* The three forms of an entry are entries, and are told apart.
LEMMA EntryForms ==
  ASSUME NEW t \in Threads \cup {NoThread}, NEW u \in Turns \cup {NoTurn}
  PROVE  /\ NoEntry \in Entry /\ Unanswered(t) \in Entry /\ Answered(t, u) \in Entry
         /\ \A v : Unanswered(t) # Answered(t, v) /\ NoEntry # Answered(t, v)
  BY DEF NoEntry, Unanswered, Answered, Entry

\* The memory of terminals stays typed and bounded, and gains one terminal at most.
LEMMA RememberForms ==
  ASSUME TypeOK, NEW tu \in Threads \X Turns
  PROVE  /\ Remember(tu) \in Seq(Threads \X Turns)
         /\ Len(Remember(tu)) <= MaxCleared
         /\ {Remember(tu)[k] : k \in DOMAIN Remember(tu)} \subseteq Seen \cup {tu}
<1>1. cleared \in Seq(Threads \X Turns) /\ Len(cleared) <= MaxCleared /\ MaxCleared \in Nat \ {0}
  BY DEF TypeOK
<1>2. CASE Len(cleared) >= MaxCleared
  <2>1. cleared # <<>> /\ Remember(tu) = Append(Tail(cleared), tu)
    BY <1>1, <1>2 DEF Remember
  <2>2. Tail(cleared) \in Seq(Threads \X Turns) /\ Len(Tail(cleared)) = Len(cleared) - 1
    BY <1>1, <2>1
  <2>3. ASSUME NEW k \in DOMAIN Remember(tu) PROVE Remember(tu)[k] \in Seen \cup {tu}
    <3>1. k \in 1..Len(cleared) /\ Len(Remember(tu)) = Len(cleared)
      BY <1>1, <2>1, <2>2, <2>3
    <3>2. k < Len(cleared) => Remember(tu)[k] = cleared[k + 1] /\ k + 1 \in DOMAIN cleared
      BY <1>1, <2>1, <2>2, <3>1
    <3>3. k = Len(cleared) => Remember(tu)[k] = tu
      BY <1>1, <2>1, <2>2, <3>1
    <3> QED BY <1>1, <3>1, <3>2, <3>3 DEF Seen
  <2> QED BY <1>1, <2>1, <2>2, <2>3
<1>3. CASE ~(Len(cleared) >= MaxCleared)
  <2>1. Remember(tu) = Append(cleared, tu)
    BY <1>3 DEF Remember
  <2> QED BY <1>1, <1>3, <2>1 DEF Seen
<1> QED BY <1>2, <1>3

\* The parts of the type invariant that an observed frame touches.
LEMMA StartedType ==
  ASSUME TypeOK, NEW t \in Threads, NEW u \in Turns, Started(t, u)
  PROVE  running' \in [Threads -> Turns \cup {NoTurn}] /\ UNCHANGED <<admitted, cleared>>
  BY DEF Started, TypeOK

\* The parts a terminal touches.
LEMMA TerminalType ==
  ASSUME TypeOK, NEW t \in Threads, NEW u \in Turns, Terminal(t, u)
  PROVE  /\ running' \in [Threads -> Turns \cup {NoTurn}]
         /\ admitted' \in [Conns -> [Ids -> Entry]]
         /\ cleared' \in Seq(Threads \X Turns) /\ Len(cleared') <= MaxCleared
<1>1. NoEntry \in Entry
  BY DEF NoEntry, Entry
<1>2. /\ Remember(<<t, u>>) \in Seq(Threads \X Turns)
      /\ Len(Remember(<<t, u>>)) <= MaxCleared
  BY RememberForms
<1>3. EndAnswered(t) \in [Conns -> [Ids -> Entry]]
  BY <1>1 DEF EndAnswered, TypeOK
<1>4. CASE <<t, u>> \in Seen
  BY <1>4 DEF Terminal, TypeOK
<1>5. CASE <<t, u>> \notin Seen
  BY <1>2, <1>3, <1>5 DEF Terminal, TypeOK
<1> QED BY <1>4, <1>5

\* Writing one entry.
LEMMA SetEntry ==
  ASSUME NEW A \in [Conns -> [Ids -> Entry]], NEW c \in Conns, NEW i \in Ids, NEW e \in Entry
  PROVE  /\ [A EXCEPT ![c][i] = e] \in [Conns -> [Ids -> Entry]]
         /\ \A d \in Conns, j \in Ids :
              [A EXCEPT ![c][i] = e][d][j] = IF d = c /\ j = i THEN e ELSE A[d][j]
<1>1. A[c] \in [Ids -> Entry]
  OBVIOUS
<1>2. [A[c] EXCEPT ![i] = e] \in [Ids -> Entry]
  BY <1>1
<1>3. [A EXCEPT ![c][i] = e] = [A EXCEPT ![c] = [A[c] EXCEPT ![i] = e]]
  OBVIOUS
<1> DEFINE B == [A EXCEPT ![c] = [A[c] EXCEPT ![i] = e]]
<1>4. B \in [Conns -> [Ids -> Entry]]
  BY <1>2
<1>5. ASSUME NEW d \in Conns, NEW j \in Ids PROVE B[d][j] = IF d = c /\ j = i THEN e ELSE A[d][j]
  BY <1>1
<1> QED BY <1>3, <1>4, <1>5

\* The part a response touches.
LEMMA ResponseType ==
  ASSUME TypeOK, NEW c \in Conns, NEW i \in Ids, NEW u \in Turns \cup {NoTurn},
         UNCHANGED admitted \/ ErrorOf(c, i) \/ ResultOf(c, i, u)
  PROVE  admitted' \in [Conns -> [Ids -> Entry]]
<1>0. admitted \in [Conns -> [Ids -> Entry]]
  BY DEF TypeOK
<1>1. admitted[c][i] \in Entry /\ admitted[c][i].thread \in Threads \cup {NoThread}
  BY <1>0 DEF Entry
<1>2. NoEntry \in Entry /\ Answered(admitted[c][i].thread, u) \in Entry
  BY <1>1, EntryForms
<1>3. CASE ErrorOf(c, i)
  BY <1>0, <1>2, <1>3, SetEntry DEF ErrorOf
<1>4. CASE ResultOf(c, i, u)
  <2> DEFINE e == IF <<admitted[c][i].thread, u>> \in Seen THEN NoEntry
                  ELSE Answered(admitted[c][i].thread, u)
  <2>1. e \in Entry /\ admitted' = [admitted EXCEPT ![c][i] = e]
    BY <1>2, <1>4 DEF ResultOf
  <2> HIDE DEF e
  <2> QED BY <1>0, <2>1, SetEntry
<1> QED BY <1>0, <1>3, <1>4

\* Every step keeps the types.
LEMMA TypeStep == TypeOK /\ [Next]_vars => TypeOK'
<1> SUFFICES ASSUME TypeOK, [Next]_vars PROVE TypeOK'
  OBVIOUS
<1>0. admitted \in [Conns -> [Ids -> Entry]] /\ Phones \subseteq Conns /\ Keyboards \subseteq Conns
  BY DEF TypeOK, Conns
<1>1. ASSUME NEW c \in Conns, Connect(c) PROVE TypeOK'
  BY <1>1 DEF Connect, TypeOK, brokerVars, serverVars
<1>2. ASSUME NEW t \in Threads \cup {NoThread}, HeadMoves(t) PROVE TypeOK'
  BY <1>2 DEF HeadMoves, TypeOK, brokerVars, serverVars, histVars
<1>3. ASSUME NEW c \in Conns, NEW i \in Ids, NEW t \in Threads, Admit(c, i, t)
      PROVE  admitted' \in [Conns -> [Ids -> Entry]]
  BY <1>0, <1>3, SetEntry, EntryForms DEF Admit
<1>4. ASSUME NEW c \in Conns, NEW r \in Request, Send(c, r)
      PROVE  c2s' \in [Conns -> Seq(Request)] /\ sent' \in 0..MaxStarts
  BY <1>4 DEF Send, TypeOK
<1>5. ASSUME NEW p \in Phones, NEW i \in Ids, Ledger(p, i)
      PROVE  DOMAIN ledger' \subseteq Phones /\ \A q \in DOMAIN ledger' : ledger'[q] \subseteq Ids
  BY <1>5 DEF Ledger, Outstanding, TypeOK
<1>6. ASSUME NEW c \in Keyboards, NEW i \in Ids, NEW t \in Threads, KeyboardStarts(c, i, t) PROVE TypeOK'
  <2>1. /\ Start(i, t) \in Request /\ c \in Conns
        /\ Admit(c, i, t) /\ Send(c, Start(i, t))
        /\ UNCHANGED <<conn, head, running, cleared, ledger, s2c, srv, minted, heard, unknown,
                       strangers, late, overrun>>
    BY <1>0, <1>6 DEF KeyboardStarts, Start, Request, serverVars, histVars
  <2>2. c2s' \in [Conns -> Seq(Request)] /\ sent' \in 0..MaxStarts
    BY <1>4, <2>1
  <2>3. admitted' \in [Conns -> [Ids -> Entry]]
    BY <1>3, <2>1
  <2> QED BY <2>1, <2>2, <2>3 DEF TypeOK
<1>7. ASSUME NEW p \in Phones, NEW i \in Ids, PhoneStarts(p, i) PROVE TypeOK'
  <2>1. /\ head \in Threads /\ Start(i, head) \in Request /\ p \in Conns
        /\ Admit(p, i, head) /\ Send(p, Start(i, head)) /\ Ledger(p, i)
        /\ UNCHANGED <<conn, head, running, cleared, s2c, srv, minted, heard, unknown,
                       strangers, late, overrun>>
    BY <1>0, <1>7 DEF PhoneStarts, Start, Request, TypeOK, serverVars, histVars
  <2>2. c2s' \in [Conns -> Seq(Request)] /\ sent' \in 0..MaxStarts
    BY <1>4, <2>1
  <2>3. admitted' \in [Conns -> [Ids -> Entry]]
    BY <1>3, <2>1
  <2>4. DOMAIN ledger' \subseteq Phones /\ \A q \in DOMAIN ledger' : ledger'[q] \subseteq Ids
    BY <1>5, <2>1
  <2> QED BY <2>1, <2>2, <2>3, <2>4 DEF TypeOK
<1>8. ASSUME NEW p \in Phones, NEW i \in Ids, PhoneAsks(p, i) PROVE TypeOK'
  <2>1. /\ Other(i) \in Request /\ p \in Conns
        /\ Send(p, Other(i)) /\ Ledger(p, i)
        /\ UNCHANGED <<conn, head, admitted, running, cleared, s2c, srv, minted, heard, unknown,
                       strangers, late, overrun>>
    BY <1>0, <1>8 DEF PhoneAsks, Other, Request, serverVars, histVars
  <2>2. c2s' \in [Conns -> Seq(Request)] /\ sent' \in 0..MaxStarts
    BY <1>4, <2>1
  <2>3. DOMAIN ledger' \subseteq Phones /\ \A q \in DOMAIN ledger' : ledger'[q] \subseteq Ids
    BY <1>5, <2>1
  <2> QED BY <2>1, <2>2, <2>3 DEF TypeOK
<1>9. ASSUME NEW c \in Conns, Observe(c) PROVE TypeOK'
  <2> DEFINE f == Head(s2c[c])
  <2>1. f \in Notice \cup Response /\ s2c' \in [Conns -> Seq(Notice \cup Response)]
    BY <1>9 DEF Observe, TypeOK
  <2>2. f.kind \in {"started", "completed"} => f.thread \in Threads /\ f.turn \in Turns
    BY <2>1 DEF Notice, Response
  <2>3. f.kind \in {"result", "error"} => f.id \in Ids /\ f.turn \in Turns \cup {NoTurn}
    BY <2>1 DEF Notice, Response
  <2> HIDE DEF f
  <2>4. CASE f.kind = "started" /\ Started(f.thread, f.turn) /\ unknown' = unknown \cup Dropped(f.thread)
             /\ UNCHANGED <<ledger, heard, strangers, late, overrun>>
    <3>1. Dropped(f.thread) \subseteq Threads \X Turns
      BY DEF Dropped
    <3> QED BY <1>9, <2>1, <2>2, <2>4, <3>1, StartedType DEF Observe, TypeOK, serverVars
  <2>5. CASE f.kind = "completed" /\ Terminal(f.thread, f.turn) /\ heard' = heard \cup {<<f.thread, f.turn>>}
             /\ overrun' \in BOOLEAN /\ UNCHANGED <<ledger, unknown, strangers, late>>
    <3>1. /\ running' \in [Threads -> Turns \cup {NoTurn}]
          /\ admitted' \in [Conns -> [Ids -> Entry]]
          /\ cleared' \in Seq(Threads \X Turns) /\ Len(cleared') <= MaxCleared
      BY <2>2, <2>5, TerminalType
    <3>2. heard' \subseteq Threads \X Turns
      BY <2>2, <2>5 DEF TypeOK
    <3>3. UNCHANGED <<conn, head, c2s, srv, minted, sent>>
      BY <1>9 DEF Observe, serverVars
    <3> QED BY <2>1, <2>5, <3>1, <3>2, <3>3 DEF TypeOK
  <2>6. CASE /\ f.kind \in {"result", "error"}
             /\ UNCHANGED admitted \/ ErrorOf(c, f.id) \/ ResultOf(c, f.id, f.turn)
             /\ ledger' = [p \in DOMAIN ledger |-> ledger[p] \ IF p = c THEN {f.id} ELSE {}]
             /\ UNCHANGED <<running, cleared, histVars>>
    <3>1. admitted' \in [Conns -> [Ids -> Entry]]
      BY <2>3, <2>6, ResponseType
    <3>2. DOMAIN ledger' \subseteq Phones /\ \A q \in DOMAIN ledger' : ledger'[q] \subseteq Ids
      BY <2>6 DEF TypeOK
    <3> QED BY <1>9, <2>1, <2>6, <3>1, <3>2 DEF Observe, TypeOK, serverVars, histVars
  <2> QED BY <1>9, <2>4, <2>5, <2>6 DEF Observe, f
<1>10. ASSUME NEW c \in Conns, Close(c) PROVE TypeOK'
  <2>1. \A a \in [Ids -> Entry] : [i \in Ids |-> IF Survives(a[i]) THEN a[i] ELSE NoEntry] \in [Ids -> Entry]
    BY DEF NoEntry, Entry
  <2>2. admitted' \in [Conns -> [Ids -> Entry]]
    BY <1>0, <1>10, <2>1 DEF Close
  <2>3. DOMAIN ledger' \subseteq Phones /\ \A q \in DOMAIN ledger' : ledger'[q] \subseteq Ids
    BY <1>10 DEF Close, TypeOK
  <2>4. s2c' \in [Conns -> Seq(Notice \cup Response)] /\ unknown' \subseteq Threads \X Turns
    BY <1>10 DEF Close, TypeOK
  <2> QED BY <1>10, <2>2, <2>3, <2>4 DEF Close, TypeOK, serverVars
<1>11. ASSUME NEW c \in Conns, Takes(c)
       PROVE  Head(c2s[c]) \in Request /\ c2s' \in [Conns -> Seq(Request)]
  BY <1>11 DEF Takes, TypeOK
<1>12. ASSUME NEW c \in Conns, NEW f \in Notice \cup Response
       PROVE  Reply(s2c, c, f) \in [Conns -> Seq(Notice \cup Response)]
  BY DEF Reply, TypeOK
<1>13. ASSUME NEW c \in Conns, ServerRefuses(c) \/ ServerAnswers(c) \/ ServerJoins(c) PROVE TypeOK'
  <2>1. Takes(c) /\ UNCHANGED <<conn, head, brokerVars, serverVars, sent, histVars>>
    BY <1>13 DEF ServerRefuses, ServerAnswers, ServerJoins
  <2>2. Head(c2s[c]) \in Request /\ c2s' \in [Conns -> Seq(Request)]
    BY <1>11, <2>1
  <2>3. \E f \in Response : s2c' = Reply(s2c, c, f)
    BY <1>13, <2>2 DEF ServerRefuses, ServerAnswers, ServerJoins, Frame, Response, Request, TypeOK
  <2>4. s2c' \in [Conns -> Seq(Notice \cup Response)]
    BY <1>12, <2>3
  <2> QED BY <2>1, <2>2, <2>4 DEF TypeOK, brokerVars, serverVars, histVars
<1>14. ASSUME NEW c \in Conns, NEW u \in Turns \cup {NoTurn}, NEW first \in BOOLEAN, ServerStarts(c, u, first)
       PROVE  TypeOK'
  <2> DEFINE t == Head(c2s[c]).thread
             n == minted[t] + 1
             answer == Frame("result", t, u, Head(c2s[c]).id)
             notice == Frame("started", t, n, NoId)
  <2>1. Head(c2s[c]) \in Request /\ c2s' \in [Conns -> Seq(Request)]
    BY <1>11, <1>14 DEF ServerStarts
  <2>2. t \in Threads /\ Head(c2s[c]).id \in Ids
    BY <1>14, <2>1 DEF ServerStarts, Request
  <2>3. n \in Turns
    <3>1. minted[t] \in Turns \cup {0}
      BY <2>2 DEF TypeOK
    <3>2. minted[t] < MaxTurns
      BY <1>14, Zenon DEF ServerStarts
    <3> QED BY <3>1, <3>2, TurnAssumption DEF Turns
  <2>4. answer \in Response /\ notice \in Notice
    BY <2>2, <2>3 DEF Frame, Response, Notice
  <2>5. /\ srv' = [srv EXCEPT ![t] = n] /\ minted' = [minted EXCEPT ![t] = n]
        /\ unknown' = IF conn[c] = "open" THEN unknown ELSE unknown \cup {<<t, n>>}
        /\ late' = IF c \in strangers THEN late \cup {<<t, n>>} ELSE late
        /\ UNCHANGED <<conn, head, brokerVars, sent, heard, strangers, overrun>>
        /\ s2c' = [k \in Conns |->
               IF conn[k] # "open" THEN s2c[k]
               ELSE s2c[k] \o IF k # c THEN <<notice>>
                              ELSE IF first THEN <<answer, notice>> ELSE <<notice, answer>>]
    BY <1>14 DEF ServerStarts
  <2> HIDE DEF t, n, answer, notice
  <2>6. s2c' \in [Conns -> Seq(Notice \cup Response)]
    <3>1. /\ <<notice>> \in Seq(Notice \cup Response)
          /\ <<answer, notice>> \in Seq(Notice \cup Response)
          /\ <<notice, answer>> \in Seq(Notice \cup Response)
      BY <2>4
    <3>2. \A k \in Conns : s2c[k] \in Seq(Notice \cup Response)
      BY DEF TypeOK
    <3>3. \A k \in Conns : \A q \in Seq(Notice \cup Response) : s2c[k] \o q \in Seq(Notice \cup Response)
      BY <3>2
    <3> QED BY <2>5, <3>1, <3>2, <3>3
  <2>7. unknown' \subseteq Threads \X Turns /\ late' \subseteq Threads \X Turns
    BY <2>2, <2>3, <2>5 DEF TypeOK
  <2>8. srv' \in [Threads -> Turns \cup {NoTurn}] /\ minted' \in [Threads -> Turns \cup {0}]
    BY <2>3, <2>5 DEF TypeOK
  <2>9. UNCHANGED <<conn, head, admitted, running, cleared, ledger, sent, heard, strangers, overrun>>
    BY <2>5 DEF brokerVars
  <2> QED BY <2>1, <2>6, <2>7, <2>8, <2>9 DEF TypeOK
<1>15. ASSUME NEW t \in Threads, ServerCompletes(t) PROVE TypeOK'
  <2>1. Frame("completed", t, srv[t], NoId) \in Notice
    BY <1>15 DEF ServerCompletes, Frame, Notice, TypeOK
  <2>2. s2c' \in [Conns -> Seq(Notice \cup Response)]
    BY <1>15, <2>1 DEF ServerCompletes, Broadcast, TypeOK
  <2> QED BY <1>15, <2>2 DEF ServerCompletes, TypeOK, brokerVars, histVars
<1>16. CASE UNCHANGED vars
  BY <1>16 DEF vars, TypeOK
<1> QED BY <1>1, <1>2, <1>6, <1>7, <1>8, <1>9, <1>10, <1>13, <1>14, <1>15, <1>16 DEF Next

\* Every step keeps what has ended ended.
LEMMA EndedStep == TypeOK /\ EndedStaysEnded /\ [Next]_vars => EndedStaysEnded'
<1> SUFFICES ASSUME TypeOK, EndedStaysEnded, [Next]_vars, NEW tu \in Seen'
             PROVE  ~IsActive(tu[1], tu[2])'
  BY DEF EndedStaysEnded
<1>0. TypeOK'
  BY TypeStep
<1>1. tu \in Threads \X Turns /\ tu[1] \in Threads /\ tu[2] \in Turns /\ tu = <<tu[1], tu[2]>>
  BY <1>0 DEF TypeOK, Seen
<1> DEFINE t == tu[1]
           u == tu[2]
           Marked == running'[t] = u
           Mine(c, i) == admitted'[c][i] = Answered(t, u)
<1>2. SUFFICES ~Marked /\ \A c \in Conns, i \in Ids : ~Mine(c, i)
  BY DEF IsActive, Answered
<1>3. tu \in Seen => running[t] # u /\ \A c \in Conns, i \in Ids : admitted[c][i] # Answered(t, u)
  BY DEF EndedStaysEnded, IsActive
<1>4. /\ NoEntry # Answered(t, u) /\ \A r \in Threads \cup {NoThread} : Unanswered(r) # Answered(t, u)
      /\ \A r : Answered(r, NoTurn) # Answered(t, u) /\ Answered(t, u).thread = t /\ Answered(t, u).st = "answered"
      /\ \A r, v : Answered(r, v) = Answered(t, u) => r = t /\ v = u
  BY <1>1 DEF NoEntry, Unanswered, Answered
<1> HIDE DEF t, u
<1>5. ASSUME UNCHANGED <<running, admitted, cleared>> PROVE ~Marked /\ \A c \in Conns, i \in Ids : ~Mine(c, i)
  BY <1>3, <1>5 DEF Seen
<1>6. ASSUME NEW c \in Conns, NEW i \in Ids, NEW r \in Threads, Admit(c, i, r), UNCHANGED <<running, cleared>>
      PROVE  ~Marked /\ \A d \in Conns, j \in Ids : ~Mine(d, j)
  <2>1. tu \in Seen
    BY <1>6 DEF Seen
  <2>2. \A d \in Conns, j \in Ids :
          admitted'[d][j] = IF d = c /\ j = i THEN Unanswered(r) ELSE admitted[d][j]
    BY <1>6, SetEntry, EntryForms DEF Admit, TypeOK
  <2> QED BY <1>3, <1>4, <1>6, <2>1, <2>2
<1>7. ASSUME NEW c \in Conns, Observe(c) PROVE ~Marked /\ \A d \in Conns, j \in Ids : ~Mine(d, j)
  <2> DEFINE f == Head(s2c[c])
  <2>1. f \in Notice \cup Response
    BY <1>7 DEF Observe, TypeOK
  <2>2. /\ f.kind \in {"started", "completed"} => f.thread \in Threads /\ f.turn \in Turns
        /\ f.kind \in {"result", "error"} => f.id \in Ids /\ f.turn \in Turns \cup {NoTurn}
    BY <2>1 DEF Notice, Response
  <2>3. \/ f.kind = "started" /\ Started(f.thread, f.turn)
        \/ f.kind = "completed" /\ Terminal(f.thread, f.turn)
        \/ /\ f.kind \in {"result", "error"}
           /\ UNCHANGED admitted \/ ErrorOf(c, f.id) \/ ResultOf(c, f.id, f.turn)
           /\ UNCHANGED <<running, cleared>>
    BY <1>7 DEF Observe
  <2> HIDE DEF f
  <2>4. CASE f.kind = "started" /\ Started(f.thread, f.turn)
    <3>1. tu \in Seen /\ UNCHANGED admitted
      BY <2>4 DEF Started, Seen
    <3>2. CASE <<f.thread, f.turn>> \in Seen
      BY <1>3, <2>4, <3>1, <3>2 DEF Started
    <3>3. CASE <<f.thread, f.turn>> \notin Seen
      <4>1. t = f.thread => u # f.turn
        BY <1>1, <3>1, <3>3 DEF t, u
      <4>2. t = f.thread => running'[t] = f.turn
        BY <1>1, <2>4, <3>3 DEF Started, t
      <4>3. t # f.thread => running'[t] \in {running[t], NoTurn}
        BY <1>1, <2>2, <2>4, <3>3 DEF Started, t
      <4>4. u # NoTurn
        BY <1>1 DEF u
      <4> QED BY <1>3, <3>1, <4>1, <4>2, <4>3, <4>4
    <3> QED BY <3>2, <3>3
  <2>5. CASE f.kind = "completed" /\ Terminal(f.thread, f.turn)
    <3>1. CASE <<f.thread, f.turn>> \in Seen
      BY <1>5, <2>5, <3>1 DEF Terminal
    <3>2. CASE <<f.thread, f.turn>> \notin Seen
      <4>1. /\ cleared' = Remember(<<f.thread, f.turn>>) /\ admitted' = EndAnswered(f.thread)
            /\ running' = [running EXCEPT ![f.thread] = IF @ = f.turn THEN NoTurn ELSE @]
        BY <2>5, <3>2 DEF Terminal
      <4>2. tu \in Seen \cup {<<f.thread, f.turn>>}
        <5> DEFINE x == <<f.thread, f.turn>>
        <5>1. x \in Threads \X Turns
          BY <2>2, <2>5
        <5>2. tu \in {cleared'[k] : k \in DOMAIN cleared'}
          BY DEF Seen
        <5>3. cleared' = Remember(x)
          BY <4>1
        <5> HIDE DEF x
        <5>4. tu \in Seen \cup {x}
          BY <5>1, <5>2, <5>3, RememberForms
        <5> QED BY <5>4 DEF x
      <4>3. \A d \in Conns, j \in Ids :
              /\ admitted'[d][j] \in {admitted[d][j], NoEntry}
              /\ admitted[d][j].thread = f.thread /\ admitted[d][j].st = "answered" => admitted'[d][j] = NoEntry
        BY <4>1 DEF EndAnswered
      <4>4. running'[t] \in {running[t], NoTurn} /\ (t = f.thread => running'[t] # f.turn)
        BY <1>1, <2>2, <2>5, <4>1 DEF TypeOK, t
      <4>5. CASE tu \in Seen
        BY <1>1, <1>3, <1>4, <4>3, <4>4, <4>5 DEF u
      <4>6. CASE tu = <<f.thread, f.turn>>
        <5>1. t = f.thread /\ u = f.turn
          BY <4>6 DEF t, u
        <5>2. \A d \in Conns, j \in Ids : admitted[d][j] = Answered(t, u) => admitted'[d][j] = NoEntry
          BY <1>4, <4>3, <5>1
        <5> QED BY <1>4, <4>3, <4>4, <5>1, <5>2
      <4> QED BY <4>2, <4>5, <4>6
    <3> QED BY <3>1, <3>2
  <2>6. CASE /\ f.kind \in {"result", "error"}
             /\ UNCHANGED admitted \/ ErrorOf(c, f.id) \/ ResultOf(c, f.id, f.turn)
             /\ UNCHANGED <<running, cleared>>
    <3>1. tu \in Seen
      BY <2>6 DEF Seen
    <3>2. CASE UNCHANGED admitted
      BY <1>5, <2>6, <3>2
    <3>3. admitted \in [Conns -> [Ids -> Entry]] /\ f.id \in Ids /\ NoEntry \in Entry
      BY <2>2, <2>6 DEF TypeOK, NoEntry, Entry
    <3>4. CASE ErrorOf(c, f.id)
      <4>1. \A d \in Conns, j \in Ids : admitted'[d][j] \in {NoEntry, admitted[d][j]}
        BY <3>3, <3>4, SetEntry DEF ErrorOf
      <4> QED BY <1>3, <1>4, <2>6, <3>1, <4>1
    <3>5. CASE ResultOf(c, f.id, f.turn)
      <4> DEFINE r == admitted[c][f.id].thread
                 e == IF <<r, f.turn>> \in Seen THEN NoEntry ELSE Answered(r, f.turn)
      <4>1. r \in Threads \cup {NoThread}
        BY <3>3 DEF Entry
      <4>2. e \in Entry
        BY <2>2, <2>6, <3>3, <4>1, EntryForms
      <4>3. admitted' = [admitted EXCEPT ![c][f.id] = e]
        BY <3>5 DEF ResultOf
      <4>4. e # Answered(t, u)
        BY <1>1, <1>4, <3>1 DEF t, u
      <4> HIDE DEF e
      <4>5. \A d \in Conns, j \in Ids : admitted'[d][j] \in {e, admitted[d][j]}
        BY <3>3, <4>2, <4>3, SetEntry
      <4> QED BY <1>3, <2>6, <3>1, <4>4, <4>5
    <3> QED BY <2>6, <3>2, <3>4, <3>5
  <2> QED BY <2>3, <2>4, <2>5, <2>6
<1>8. ASSUME NEW c \in Conns, Close(c) PROVE ~Marked /\ \A d \in Conns, j \in Ids : ~Mine(d, j)
  <2>1. tu \in Seen /\ UNCHANGED running
    BY <1>8 DEF Close, Seen
  <2>2. \A d \in Conns, j \in Ids : admitted'[d][j] \in {NoEntry, admitted[d][j]}
    BY <1>8 DEF Close, TypeOK
  <2> QED BY <1>3, <1>4, <2>1, <2>2
<1>9. ASSUME NEW c \in Keyboards, NEW i \in Ids, NEW r \in Threads, KeyboardStarts(c, i, r)
      PROVE  ~Marked /\ \A d \in Conns, j \in Ids : ~Mine(d, j)
  BY <1>6, <1>9 DEF KeyboardStarts, Conns
<1>10. ASSUME NEW p \in Phones, NEW i \in Ids, PhoneStarts(p, i)
       PROVE  ~Marked /\ \A d \in Conns, j \in Ids : ~Mine(d, j)
  <2>1. head \in Threads /\ p \in Conns
    BY <1>10 DEF PhoneStarts, TypeOK, Conns
  <2> QED BY <1>6, <1>10, <2>1 DEF PhoneStarts
<1>11. ASSUME \/ \E c \in Conns : \/ Connect(c) \/ ServerRefuses(c) \/ ServerAnswers(c) \/ ServerJoins(c)
                                  \/ \E v \in Turns \cup {NoTurn}, first \in BOOLEAN : ServerStarts(c, v, first)
              \/ \E r \in Threads \cup {NoThread} : HeadMoves(r)
              \/ \E r \in Threads : ServerCompletes(r)
              \/ \E p \in Phones, i \in Ids : PhoneAsks(p, i)
              \/ UNCHANGED vars
       PROVE  ~Marked /\ \A d \in Conns, j \in Ids : ~Mine(d, j)
  <2>1. UNCHANGED <<running, admitted, cleared>>
    BY <1>11, ZenonT(60) DEF Connect, ServerRefuses, ServerAnswers, ServerJoins, ServerStarts, HeadMoves,
                 ServerCompletes, PhoneAsks, vars, brokerVars
  <2> QED BY <1>5, <2>1
<1> QED BY <1>7, <1>8, <1>9, <1>10, <1>11 DEF Next

-----------------------------------------------------------------------------

\* Type correctness: the broker's marks, memory and ledger, and the wires around it.
THEOREM TypeCorrect == Spec => []TypeOK
<1>1. Init => TypeOK
  <2> SUFFICES ASSUME Init PROVE TypeOK
    OBVIOUS
  <2>1. admitted \in [Conns -> [Ids -> Entry]]
    BY DEF Init, NoEntry, Entry
  <2>2. DOMAIN ledger \subseteq Phones /\ \A p \in DOMAIN ledger : ledger[p] \subseteq Ids
    BY DEF Init
  <2>3. cleared \in Seq(Threads \X Turns) /\ Len(cleared) <= MaxCleared
    BY DEF Init
  <2>4. c2s \in [Conns -> Seq(Request)] /\ s2c \in [Conns -> Seq(Notice \cup Response)]
    BY DEF Init
  <2>5. sent \in 0..MaxStarts
    BY DEF Init
  <2> QED BY <2>1, <2>2, <2>3, <2>4, <2>5 DEF Init, TypeOK
<1> QED BY <1>1, TypeStep, PTL DEF Spec

\* A turn whose terminal is remembered is never active again (is_active_turn), however the
\* legs lag, however often the terminal is repeated and whichever leg closes.
THEOREM EndedStaysEndedHolds == Spec => []EndedStaysEnded
<1>1. Init => EndedStaysEnded
  BY DEF Init, EndedStaysEnded, Seen
<1> QED BY <1>1, TypeCorrect, EndedStep, PTL DEF Spec

-----------------------------------------------------------------------------
(* The wires.                                                              *)

Wire == Notice \cup Response

\* A frame is a notice without an id or a response with one.
LEMMA FrameForms ==
  ASSUME NEW f \in Wire
  PROVE  /\ f \in Notice <=> f.kind \in {"started", "completed"}
         /\ f.id = NoId <=> f \in Notice
         /\ f.id # NoId => f.id \in Ids /\ f \in Response
         /\ f.kind \in {"started", "completed", "result", "error"} /\ f.turn \in Turns \cup {NoTurn}
         /\ f \in Notice => f.thread \in Threads /\ f.turn \in Turns
BY DEF Wire, Notice, Response

\* What the types say of the two wires of a connection.
LEMMA WireForms ==
  ASSUME TypeOK, NEW c \in Conns
  PROVE  /\ c2s[c] \in Seq(Request) /\ Len(c2s[c]) \in Nat /\ DOMAIN c2s[c] = 1..Len(c2s[c])
         /\ \A k \in 1..Len(c2s[c]) : c2s[c][k] \in Request /\ c2s[c][k].id \in Ids
         /\ s2c[c] \in Seq(Wire) /\ Len(s2c[c]) \in Nat /\ DOMAIN s2c[c] = 1..Len(s2c[c])
         /\ \A k \in 1..Len(s2c[c]) : s2c[c][k] \in Wire
<1>1. c2s[c] \in Seq(Request) /\ s2c[c] \in Seq(Wire)
  BY DEF TypeOK, Wire
<1>2. \A k \in 1..Len(c2s[c]) : c2s[c][k] \in Request
  BY <1>1
<1>3. \A r \in Request : r.id \in Ids
  BY DEF Request
<1> QED BY <1>1, <1>2, <1>3

\* A wire that lost its first frame, and one that gained frames at its end.
Shifted(r, s) == Len(s) >= 1 /\ Len(r) = Len(s) - 1 /\ \A k \in 1..Len(s) - 1 : r[k] = s[k + 1]
Longer(r, s) == Len(s) <= Len(r) /\ \A k \in 1..Len(s) : r[k] = s[k]

\* The tail is the sequence shifted.
LEMMA TailShifts ==
  ASSUME NEW S, NEW s \in Seq(S), s # <<>>
  PROVE  Shifted(Tail(s), s) /\ Head(s) = s[1] /\ 1 \in DOMAIN s
BY DEF Shifted

\* One more frame at the end.
LEMMA AppendLengthens ==
  ASSUME NEW S, NEW s \in Seq(S), NEW f \in S
  PROVE  Longer(Append(s, f), s) /\ Len(Append(s, f)) = Len(s) + 1 /\ Append(s, f)[Len(s) + 1] = f
BY DEF Longer

\* A request is sent on one wire.
LEMMA SendMakes ==
  ASSUME TypeOK, NEW c \in Conns, NEW r \in Request, Send(c, r)
  PROVE  /\ Longer(c2s'[c], c2s[c]) /\ Len(c2s'[c]) = Len(c2s[c]) + 1 /\ c2s'[c][Len(c2s[c]) + 1] = r
         /\ \A k \in Conns : k # c => c2s'[k] = c2s[k]
<1>1. c2s[c] \in Seq(Request) /\ c2s \in [Conns -> Seq(Request)]
  BY DEF TypeOK
<1>2. c2s'[c] = Append(c2s[c], r) /\ \A k \in Conns : k # c => c2s'[k] = c2s[k]
  BY <1>1 DEF Send
<1> QED BY <1>1, <1>2, AppendLengthens

\* The app-server takes a request off one wire.
LEMMA TakesMakes ==
  ASSUME TypeOK, NEW c \in Conns, Takes(c)
  PROVE  /\ Shifted(c2s'[c], c2s[c]) /\ Head(c2s[c]) = c2s[c][1] /\ c2s[c][1] \in Request
         /\ \A k \in Conns : k # c => c2s'[k] = c2s[k]
<1>1. c2s[c] \in Seq(Request) /\ c2s \in [Conns -> Seq(Request)] /\ c2s[c] # <<>>
  BY DEF TypeOK, Takes
<1>2. c2s'[c] = Tail(c2s[c]) /\ \A k \in Conns : k # c => c2s'[k] = c2s[k]
  BY <1>1 DEF Takes
<1> QED BY <1>1, <1>2, TailShifts

\* A leg observes the first frame of its wire.
LEMMA ObserveMakes ==
  ASSUME TypeOK, NEW c \in Conns, Observe(c)
  PROVE  /\ Shifted(s2c'[c], s2c[c]) /\ Head(s2c[c]) = s2c[c][1] /\ s2c[c][1] \in Wire
         /\ \A k \in Conns : k # c => s2c'[k] = s2c[k]
         /\ UNCHANGED <<conn, head, c2s, srv, minted, sent>>
<1>1. s2c[c] \in Seq(Wire) /\ s2c \in [Conns -> Seq(Wire)] /\ s2c[c] # <<>>
  BY DEF TypeOK, Wire, Observe
<1>2. s2c'[c] = Tail(s2c[c]) /\ \A k \in Conns : k # c => s2c'[k] = s2c[k]
  BY <1>1 DEF Observe
<1> QED BY <1>1, <1>2, TailShifts DEF Observe, serverVars

\* What the app-server writes: a response, f, to the leg c that asked, and perhaps a notice to all.
Serves(c, f) ==
  /\ f \in Response /\ f.id = c2s[c][1].id /\ c2s[c][1] \in Request
  /\ Shifted(c2s'[c], c2s[c]) /\ \A k \in Conns : k # c => c2s'[k] = c2s[k]
  /\ UNCHANGED <<conn, head, brokerVars, sent, heard, strangers, overrun>>
  /\ \A k \in Conns : Longer(s2c'[k], s2c[k]) /\ (conn[k] # "open" => s2c'[k] = s2c[k])
  /\ \A k \in Conns : \A m \in 1..Len(s2c'[k]) : m <= Len(s2c[k]) \/ (k = c /\ s2c'[k][m] = f)
                        \/ (s2c'[k][m] \in Notice /\ s2c'[k][m].kind = "started")
  /\ conn[c] = "open" =>
       \E m \in 1..Len(s2c'[c]) : m > Len(s2c[c]) /\ s2c'[c][m] = f
                                  /\ \A n \in 1..Len(s2c'[c]) : n > Len(s2c[c]) /\ n # m => s2c'[c][n] \in Notice

\* An answer that starts nothing.
Replies(c, f) == Serves(c, f) /\ UNCHANGED <<srv, minted, unknown, late>>

\* A reply is written to the leg that asked, if it is still there.
LEMMA ReplyMakes ==
  ASSUME TypeOK, NEW c \in Conns, NEW f \in Response, s2c' = Reply(s2c, c, f)
  PROVE  /\ \A k \in Conns : Longer(s2c'[k], s2c[k]) /\ (conn[k] # "open" => s2c'[k] = s2c[k])
         /\ \A k \in Conns : \A m \in 1..Len(s2c'[k]) : m <= Len(s2c[k]) \/ (k = c /\ s2c'[k][m] = f)
         /\ conn[c] = "open" => Len(s2c'[c]) = Len(s2c[c]) + 1 /\ s2c'[c][Len(s2c[c]) + 1] = f
<1>0. s2c \in [Conns -> Seq(Wire)] /\ f \in Wire
  BY DEF TypeOK, Wire
<1>1. \A k \in Conns : Len(s2c[k]) \in Nat /\ Longer(s2c[k], s2c[k])
  BY WireForms DEF Longer
<1>2. CASE conn[c] # "open"
  <2>1. s2c' = s2c
    BY <1>2 DEF Reply
  <2>2. \A k \in Conns : \A m \in 1..Len(s2c'[k]) : m <= Len(s2c[k])
    BY <1>1, <2>1
  <2> QED BY <1>1, <1>2, <2>1, <2>2
<1>3. CASE conn[c] = "open"
  <2>1. s2c'[c] = Append(s2c[c], f) /\ \A k \in Conns : k # c => s2c'[k] = s2c[k]
    BY <1>0, <1>3 DEF Reply
  <2>2. Longer(s2c'[c], s2c[c]) /\ Len(s2c'[c]) = Len(s2c[c]) + 1 /\ s2c'[c][Len(s2c[c]) + 1] = f
    BY <1>0, <2>1, AppendLengthens
  <2>3. \A m \in 1..Len(s2c'[c]) : m <= Len(s2c[c]) \/ s2c'[c][m] = f
    BY <1>1, <2>2
  <2>4. ASSUME NEW k \in Conns
        PROVE  /\ Longer(s2c'[k], s2c[k]) /\ (conn[k] # "open" => s2c'[k] = s2c[k])
               /\ \A m \in 1..Len(s2c'[k]) : m <= Len(s2c[k]) \/ (k = c /\ s2c'[k][m] = f)
    <3>1. CASE k = c
      BY <1>3, <2>2, <2>3, <3>1
    <3>2. CASE k # c
      BY <1>1, <2>1, <3>2
    <3> QED BY <3>1, <3>2
  <2> QED BY <2>2, <2>4
<1> QED BY <1>2, <1>3

\* Every answer of the app-server is one of these; a started turn is announced to all.
LEMMA RepliesMake ==
  ASSUME TypeOK, NEW c \in Conns, ServerRefuses(c) \/ ServerAnswers(c) \/ ServerJoins(c)
  PROVE  \E f \in Response :
           /\ Replies(c, f) /\ \A k \in Conns : \A m \in 1..Len(s2c'[k]) : m <= Len(s2c[k]) \/ (k = c /\ s2c'[k][m] = f)
           /\ f.thread \in Threads => f.turn = srv[f.thread] /\ f.thread = c2s[c][1].thread
           /\ f.thread = NoThread => f.turn = NoTurn
<1>1. Takes(c) /\ UNCHANGED <<conn, head, brokerVars, serverVars, sent, histVars>>
  BY DEF ServerRefuses, ServerAnswers, ServerJoins
<1>2. /\ Shifted(c2s'[c], c2s[c]) /\ Head(c2s[c]) = c2s[c][1] /\ c2s[c][1] \in Request
      /\ \A k \in Conns : k # c => c2s'[k] = c2s[k]
  BY <1>1, TakesMakes
<1>3. NoThread \notin Threads
  OBVIOUS
<1>4. PICK f \in Response : /\ s2c' = Reply(s2c, c, f) /\ f.id = c2s[c][1].id
                            /\ f.thread \in Threads => f.turn = srv[f.thread] /\ f.thread = c2s[c][1].thread
                            /\ f.thread = NoThread => f.turn = NoTurn
  <2> DEFINE i == c2s[c][1].id
             t == c2s[c][1].thread
  <2>1. i \in Ids /\ t \in Threads \cup {NoThread}
    BY <1>2 DEF Request
  <2>2. CASE ServerRefuses(c)
    <3>1. s2c' = Reply(s2c, c, Frame("error", NoThread, NoTurn, i))
      BY <1>2, <2>2 DEF ServerRefuses
    <3>2. /\ Frame("error", NoThread, NoTurn, i) \in Response /\ Frame("error", NoThread, NoTurn, i).id = i
          /\ Frame("error", NoThread, NoTurn, i).thread \notin Threads /\ Frame("error", NoThread, NoTurn, i).turn = NoTurn
      BY <1>3, <2>1 DEF Frame, Response
    <3> QED BY <3>1, <3>2
  <2>3. CASE ServerAnswers(c)
    <3>1. s2c' = Reply(s2c, c, Frame("result", NoThread, NoTurn, i))
      BY <1>2, <2>3 DEF ServerAnswers
    <3>2. /\ Frame("result", NoThread, NoTurn, i) \in Response /\ Frame("result", NoThread, NoTurn, i).id = i
          /\ Frame("result", NoThread, NoTurn, i).thread \notin Threads /\ Frame("result", NoThread, NoTurn, i).turn = NoTurn
      BY <1>3, <2>1 DEF Frame, Response
    <3> QED BY <3>1, <3>2
  <2>4. CASE ServerJoins(c)
    <3>1. s2c' = Reply(s2c, c, Frame("result", t, srv[t], i)) /\ t \in Threads
      BY <1>2, <2>1, <2>4 DEF ServerJoins
    <3>2. srv[t] \in Turns \cup {NoTurn}
      BY <3>1 DEF TypeOK
    <3>3. /\ Frame("result", t, srv[t], i) \in Response /\ Frame("result", t, srv[t], i).id = i
          /\ Frame("result", t, srv[t], i).thread = t /\ Frame("result", t, srv[t], i).turn = srv[t]
      BY <2>1, <3>1, <3>2 DEF Frame, Response
    <3> QED BY <1>3, <3>1, <3>3
  <2> QED BY <2>2, <2>3, <2>4
<1>5. /\ \A k \in Conns : Longer(s2c'[k], s2c[k]) /\ (conn[k] # "open" => s2c'[k] = s2c[k])
      /\ \A k \in Conns : \A m \in 1..Len(s2c'[k]) : m <= Len(s2c[k]) \/ (k = c /\ s2c'[k][m] = f)
      /\ conn[c] = "open" => Len(s2c'[c]) = Len(s2c[c]) + 1 /\ s2c'[c][Len(s2c[c]) + 1] = f
  <2>1. s2c' = Reply(s2c, c, f)
    BY <1>4
  <2> QED BY <2>1, ReplyMakes
<1>6. conn[c] = "open" =>
        \E m \in 1..Len(s2c'[c]) : m > Len(s2c[c]) /\ s2c'[c][m] = f
                                   /\ \A n \in 1..Len(s2c'[c]) : n > Len(s2c[c]) /\ n # m => s2c'[c][n] \in Notice
  <2> SUFFICES ASSUME conn[c] = "open"
               PROVE  \E m \in 1..Len(s2c'[c]) : m > Len(s2c[c]) /\ s2c'[c][m] = f
                        /\ \A n \in 1..Len(s2c'[c]) : n > Len(s2c[c]) /\ n # m => s2c'[c][n] \in Notice
    OBVIOUS
  <2>1. Len(s2c[c]) \in Nat /\ Len(s2c'[c]) = Len(s2c[c]) + 1
    BY <1>5, WireForms
  <2>2. Len(s2c[c]) + 1 \in 1..Len(s2c'[c]) /\ Len(s2c[c]) + 1 > Len(s2c[c])
    BY <2>1
  <2>3. \A n \in 1..Len(s2c'[c]) : n > Len(s2c[c]) => n = Len(s2c[c]) + 1
    BY <2>1
  <2> QED BY <1>5, <2>2, <2>3
<1>7. Replies(c, f)
  <2>1. f.id = c2s[c][1].id
    BY <1>4
  <2>2. \A k \in Conns : \A m \in 1..Len(s2c'[k]) : m <= Len(s2c[k]) \/ (k = c /\ s2c'[k][m] = f)
                        \/ (s2c'[k][m] \in Notice /\ s2c'[k][m].kind = "started")
    BY <1>5
  <2> QED BY <2>1, <2>2, <1>1, <1>2, <1>5, <1>6 DEF Replies, Serves, serverVars, histVars
<1>8. /\ f.thread \in Threads => f.turn = srv[f.thread] /\ f.thread = c2s[c][1].thread
      /\ f.thread = NoThread => f.turn = NoTurn
  BY <1>4
<1> QED BY <1>5, <1>7, <1>8

\* A turn starts: the next of its thread, answered with its id or an unreadable one.
Starts(c, t, f) ==
  /\ Serves(c, f) /\ t \in Threads /\ c2s[c][1].thread = t /\ srv[t] = NoTurn
  /\ minted[t] + 1 \in Turns /\ f.kind = "result" /\ f.thread = t /\ f.turn \in {minted[t] + 1, NoTurn}
  /\ srv' = [srv EXCEPT ![t] = minted[t] + 1] /\ minted' = [minted EXCEPT ![t] = minted[t] + 1]
  /\ unknown' = (IF conn[c] = "open" THEN unknown ELSE unknown \cup {<<t, minted[t] + 1>>})
  /\ late' = (IF c \in strangers THEN late \cup {<<t, minted[t] + 1>>} ELSE late)
  /\ \A k \in Conns : \A m \in 1..Len(s2c'[k]) : m <= Len(s2c[k]) \/ (k = c /\ s2c'[k][m] = f)
                        \/ (s2c'[k][m] = Frame("started", t, minted[t] + 1, NoId))

\* What the start of a turn makes of the wires.
LEMMA StartsMake ==
  ASSUME TypeOK, NEW c \in Conns, NEW u \in Turns \cup {NoTurn}, NEW first \in BOOLEAN, ServerStarts(c, u, first)
  PROVE  \E t \in Threads, f \in Response : Starts(c, t, f)
<1> DEFINE t == Head(c2s[c]).thread
           n == minted[t] + 1
           answer == Frame("result", t, u, Head(c2s[c]).id)
           notice == Frame("started", t, n, NoId)
<1>1. /\ Shifted(c2s'[c], c2s[c]) /\ Head(c2s[c]) = c2s[c][1] /\ c2s[c][1] \in Request
      /\ \A k \in Conns : k # c => c2s'[k] = c2s[k]
  BY TakesMakes DEF ServerStarts
<1>2. t \in Threads /\ Head(c2s[c]).id \in Ids
  BY <1>1 DEF ServerStarts, Request
<1>3. n \in Turns
  <2>1. minted[t] \in Turns \cup {0}
    BY <1>2 DEF TypeOK
  <2>2. minted[t] < MaxTurns
    BY Zenon DEF ServerStarts
  <2> QED BY <2>1, <2>2, TurnAssumption DEF Turns
<1>4. /\ answer \in Response /\ answer.id = Head(c2s[c]).id /\ answer.kind = "result" /\ answer.thread = t
      /\ answer.turn = u /\ notice \in Notice /\ notice.kind = "started" /\ answer \in Wire /\ notice \in Wire
  BY <1>2, <1>3 DEF Frame, Response, Notice, Wire
<1>5. /\ srv' = [srv EXCEPT ![t] = n] /\ minted' = [minted EXCEPT ![t] = n] /\ srv[t] = NoTurn
      /\ unknown' = (IF conn[c] = "open" THEN unknown ELSE unknown \cup {<<t, n>>})
      /\ late' = (IF c \in strangers THEN late \cup {<<t, n>>} ELSE late)
      /\ UNCHANGED <<conn, head, brokerVars, sent, heard, strangers, overrun>> /\ u \in {n, NoTurn}
      /\ s2c' = [k \in Conns |->
             IF conn[k] # "open" THEN s2c[k]
             ELSE s2c[k] \o IF k # c THEN <<notice>>
                            ELSE IF first THEN <<answer, notice>> ELSE <<notice, answer>>]
  BY DEF ServerStarts
<1> HIDE DEF t, n, answer, notice
<1>6. ASSUME NEW k \in Conns
      PROVE  /\ Longer(s2c'[k], s2c[k]) /\ (conn[k] # "open" => s2c'[k] = s2c[k])
             /\ \A m \in 1..Len(s2c'[k]) : m <= Len(s2c[k]) \/ (k = c /\ s2c'[k][m] = answer) \/ s2c'[k][m] = notice
             /\ conn[k] = "open" /\ k = c =>
                  \E m \in 1..Len(s2c'[k]) : m > Len(s2c[k]) /\ s2c'[k][m] = answer
                      /\ \A j \in 1..Len(s2c'[k]) : j > Len(s2c[k]) /\ j # m => s2c'[k][j] = notice
  <2>0. s2c[k] \in Seq(Wire) /\ Len(s2c[k]) \in Nat
    BY WireForms
  <2>1. CASE conn[k] # "open"
    BY <1>5, <2>0, <2>1 DEF Longer
  <2>2. CASE conn[k] = "open" /\ k # c
    <3>1. s2c'[k] = s2c[k] \o <<notice>>
      BY <1>5, <2>2
    <3>2. Longer(s2c'[k], s2c[k]) /\ Len(s2c'[k]) = Len(s2c[k]) + 1 /\ s2c'[k][Len(s2c[k]) + 1] = notice
      <4>1. notice \in Wire /\ s2c[k] \in Seq(Wire)
        BY <1>4, <2>0
      <4>2. \A s \in Seq(Wire), a \in Wire : Longer(s \o <<a>>, s) /\ Len(s \o <<a>>) = Len(s) + 1 /\ (s \o <<a>>)[Len(s) + 1] = a
        BY DEF Longer
      <4> QED BY <3>1, <4>1, <4>2
    <3> QED BY <2>0, <2>2, <3>2
  <2>3. ASSUME NEW a \in {answer, notice}, NEW b \in {answer, notice}, a # b, conn[k] = "open", k = c,
               s2c'[k] = s2c[k] \o <<a, b>>
        PROVE  /\ Longer(s2c'[k], s2c[k])
               /\ \A m \in 1..Len(s2c'[k]) : m <= Len(s2c[k]) \/ s2c'[k][m] = answer \/ s2c'[k][m] = notice
               /\ \E m \in 1..Len(s2c'[k]) : m > Len(s2c[k]) /\ s2c'[k][m] = answer
                      /\ \A j \in 1..Len(s2c'[k]) : j > Len(s2c[k]) /\ j # m => s2c'[k][j] = notice
    <3> DEFINE L == Len(s2c[k])
    <3>1. /\ Longer(s2c'[k], s2c[k]) /\ Len(s2c'[k]) = L + 2 /\ s2c'[k][L + 1] = a /\ s2c'[k][L + 2] = b
      <4>1. a \in Wire /\ b \in Wire /\ s2c[k] \in Seq(Wire) /\ s2c'[k] = s2c[k] \o <<a, b>>
        BY <1>4, <2>0, <2>3
      <4>2. \A s \in Seq(Wire), x, y \in Wire :
              /\ Longer(s \o <<x, y>>, s) /\ Len(s \o <<x, y>>) = Len(s) + 2
              /\ (s \o <<x, y>>)[Len(s) + 1] = x /\ (s \o <<x, y>>)[Len(s) + 2] = y
        BY DEF Longer
      <4> QED BY <4>1, <4>2
    <3>2. L \in Nat /\ L + 1 \in 1..L + 2 /\ L + 2 \in 1..L + 2 /\ L + 1 > L /\ L + 2 > L /\ L + 1 # L + 2
          /\ \A m \in 1..L + 2 : m <= L \/ m = L + 1 \/ m = L + 2
      BY <2>0
    <3>5. \A m \in 1..Len(s2c'[k]) : m <= Len(s2c[k]) \/ s2c'[k][m] = answer \/ s2c'[k][m] = notice
      BY <2>3, <3>1, <3>2
    <3>3. CASE a = answer /\ b = notice
      <4>1. L + 1 \in 1..Len(s2c'[k]) /\ L + 1 > Len(s2c[k]) /\ s2c'[k][L + 1] = answer
        BY <3>1, <3>2, <3>3
      <4>2. \A j \in 1..Len(s2c'[k]) : j > Len(s2c[k]) /\ j # L + 1 => s2c'[k][j] = notice
        BY <3>1, <3>2, <3>3
      <4> QED BY <3>1, <3>5, <4>1, <4>2
    <3>4. CASE b = answer /\ a = notice
      <4>1. L + 2 \in 1..Len(s2c'[k]) /\ L + 2 > Len(s2c[k]) /\ s2c'[k][L + 2] = answer
        BY <3>1, <3>2, <3>4
      <4>2. \A j \in 1..Len(s2c'[k]) : j > Len(s2c[k]) /\ j # L + 2 => s2c'[k][j] = notice
        BY <3>1, <3>2, <3>4
      <4> QED BY <3>1, <3>5, <4>1, <4>2
    <3>6. (a = answer /\ b = notice) \/ (b = answer /\ a = notice)
      BY <2>3
    <3> QED BY <3>3, <3>4, <3>6
  <2>4. CASE conn[k] = "open" /\ k = c
    <3>1. s2c'[k] = s2c[k] \o <<answer, notice>> \/ s2c'[k] = s2c[k] \o <<notice, answer>>
      BY <1>5, <2>4
    <3>2. answer # notice
      BY <1>4
    <3> QED BY <2>3, <2>4, <3>1, <3>2
  <2> QED BY <2>1, <2>2, <2>4
<1>7. \A k \in Conns : \A m \in 1..Len(s2c'[k]) : m <= Len(s2c[k]) \/ (k = c /\ s2c'[k][m] = answer) \/ s2c'[k][m] = notice
  BY <1>6
<1>8. Serves(c, answer)
  <2>1. \A k \in Conns : Longer(s2c'[k], s2c[k]) /\ (conn[k] # "open" => s2c'[k] = s2c[k])
    BY <1>6
  <2>2. \A k \in Conns : \A m \in 1..Len(s2c'[k]) : m <= Len(s2c[k]) \/ (k = c /\ s2c'[k][m] = answer)
                        \/ (s2c'[k][m] \in Notice /\ s2c'[k][m].kind = "started")
    BY <1>4, <1>7
  <2>3. conn[c] = "open" =>
         \E m \in 1..Len(s2c'[c]) : m > Len(s2c[c]) /\ s2c'[c][m] = answer
                 /\ \A n1 \in 1..Len(s2c'[c]) : n1 > Len(s2c[c]) /\ n1 # m => s2c'[c][n1] \in Notice
    BY <1>4, <1>6
  <2> QED BY <1>1, <1>4, <1>5, <2>1, <2>2, <2>3 DEF Serves
<1>9. Starts(c, t, answer)
  BY <1>1, <1>2, <1>3, <1>4, <1>5, <1>7, <1>8 DEF Starts, n, t, notice
<1> QED BY <1>2, <1>4, <1>9

\* The end of a turn is announced to all.
LEMMA CompletesMake ==
  ASSUME TypeOK, NEW t \in Threads, ServerCompletes(t)
  PROVE  LET f == Frame("completed", t, srv[t], NoId) IN
         /\ f \in Notice /\ f.kind = "completed" /\ f.thread = t /\ f.turn = srv[t] /\ f.id = NoId
         /\ srv[t] # NoTurn /\ srv' = [srv EXCEPT ![t] = NoTurn]
         /\ UNCHANGED <<conn, head, brokerVars, c2s, minted, sent, histVars>>
         /\ \A k \in Conns : Longer(s2c'[k], s2c[k]) /\ (conn[k] # "open" => s2c'[k] = s2c[k])
         /\ \A k \in Conns : \A m \in 1..Len(s2c'[k]) : m <= Len(s2c[k]) \/ s2c'[k][m] = f
         /\ \A k \in Conns : conn[k] = "open" =>
              Len(s2c'[k]) = Len(s2c[k]) + 1 /\ s2c'[k][Len(s2c[k]) + 1] = f
<1> DEFINE f == Frame("completed", t, srv[t], NoId)
<1>1. f \in Notice /\ f \in Wire /\ f.kind = "completed" /\ f.thread = t /\ f.turn = srv[t] /\ f.id = NoId
  BY DEF ServerCompletes, Frame, Notice, Wire, TypeOK
<1>2. /\ srv[t] # NoTurn /\ srv' = [srv EXCEPT ![t] = NoTurn] /\ s2c' = Broadcast(f)
      /\ UNCHANGED <<conn, head, brokerVars, c2s, minted, sent, histVars>>
  BY DEF ServerCompletes
<1> HIDE DEF f
<1>3. ASSUME NEW k \in Conns
      PROVE  /\ Longer(s2c'[k], s2c[k]) /\ (conn[k] # "open" => s2c'[k] = s2c[k])
             /\ \A m \in 1..Len(s2c'[k]) : m <= Len(s2c[k]) \/ s2c'[k][m] = f
             /\ conn[k] = "open" => Len(s2c'[k]) = Len(s2c[k]) + 1 /\ s2c'[k][Len(s2c[k]) + 1] = f
  <2>0. s2c[k] \in Seq(Wire) /\ Len(s2c[k]) \in Nat
    BY WireForms
  <2>1. CASE conn[k] # "open"
    BY <1>2, <2>0, <2>1 DEF Broadcast, Longer
  <2>2. CASE conn[k] = "open"
    <3>1. s2c'[k] = Append(s2c[k], f)
      BY <1>2, <2>2 DEF Broadcast
    <3>2. Longer(s2c'[k], s2c[k]) /\ Len(s2c'[k]) = Len(s2c[k]) + 1 /\ s2c'[k][Len(s2c[k]) + 1] = f
      BY <1>1, <2>0, <3>1, AppendLengthens
    <3> QED BY <2>0, <2>2, <3>2
  <2> QED BY <2>1, <2>2
<1> QED BY <1>1, <1>2, <1>3 DEF f

-----------------------------------------------------------------------------
(* The ids in flight.                                                      *)

\* No two requests q and responses w in flight on one connection have an id in common.
Apart(q, w) ==
  /\ \A j, k \in 1..Len(q) : q[j].id = q[k].id => j = k
  /\ \A j, k \in 1..Len(w) : w[j].id = w[k].id /\ w[j].id # NoId => j = k
  /\ \A j \in 1..Len(q), k \in 1..Len(w) : q[j].id # w[k].id

\* The ledger holds every id in flight.
Listed(q, w, ids) ==
  /\ \A k \in 1..Len(q) : q[k].id \in ids
  /\ \A k \in 1..Len(w) : w[k].id # NoId => w[k].id \in ids

Flight(c) ==
  /\ conn[c] = "new" => c2s[c] = <<>>
  /\ conn[c] # "open" => s2c[c] = <<>>
  /\ conn[c] = "open" => Apart(c2s[c], s2c[c]) /\ (c \in Phones => Listed(c2s[c], s2c[c], Outstanding(c)))

FlightInv == \A c \in Conns : Flight(c)

\* A request with a fresh id goes out.
LEMMA ApartSend ==
  ASSUME NEW q, NEW r, NEW w, NEW e, Len(q) \in Nat, Len(w) \in Nat,
         Longer(r, q), Len(r) = Len(q) + 1, r[Len(q) + 1] = e, Apart(q, w),
         \A k \in 1..Len(q) : q[k].id # e.id, \A k \in 1..Len(w) : w[k].id # e.id
  PROVE  Apart(r, w)
<1>1. \A k \in 1..Len(r) : (k \in 1..Len(q) /\ r[k] = q[k]) \/ (k = Len(q) + 1 /\ r[k] = e)
  BY DEF Longer
<1>2. ASSUME NEW j \in 1..Len(r), NEW k \in 1..Len(r), r[j].id = r[k].id PROVE j = k
  <2>1. CASE j \in 1..Len(q) /\ r[j] = q[j] /\ k \in 1..Len(q) /\ r[k] = q[k]
    BY <1>2, <2>1 DEF Apart
  <2>2. CASE j = Len(q) + 1 /\ r[j] = e /\ k \in 1..Len(q) /\ r[k] = q[k]
    BY <1>2, <2>2
  <2>3. CASE k = Len(q) + 1 /\ r[k] = e /\ j \in 1..Len(q) /\ r[j] = q[j]
    BY <1>2, <2>3
  <2> QED BY <1>1, <2>1, <2>2, <2>3
<1>3. \A j \in 1..Len(r), k \in 1..Len(w) : r[j].id # w[k].id
  BY <1>1 DEF Apart
<1> QED BY <1>2, <1>3 DEF Apart

\* A frame is observed: what is left does not name its id.
LEMMA ApartObserve ==
  ASSUME NEW q, NEW w, NEW v, Len(q) \in Nat, Len(w) \in Nat, Shifted(v, w), Apart(q, w)
  PROVE  /\ Apart(q, v)
         /\ \A k \in 1..Len(q) : q[k].id # w[1].id
         /\ \A k \in 1..Len(v) : v[k].id # NoId => v[k].id # w[1].id
<1>1. \A k \in 1..Len(v) : k + 1 \in 1..Len(w) /\ v[k] = w[k + 1] /\ k + 1 # 1
  BY DEF Shifted
<1>2. 1 \in 1..Len(w)
  BY DEF Shifted
<1>3. \A j, k \in 1..Len(v) : v[j].id = v[k].id /\ v[j].id # NoId => j + 1 = k + 1
  BY <1>1 DEF Apart
<1>4. \A j, k \in 1..Len(v) : j + 1 = k + 1 => j = k
  OBVIOUS
<1>5. ASSUME NEW j \in 1..Len(q), NEW k \in 1..Len(v) PROVE q[j].id # v[k].id
  <2>1. k + 1 \in 1..Len(w) /\ v[k] = w[k + 1]
    BY <1>1
  <2>2. \A a \in 1..Len(q), b \in 1..Len(w) : q[a].id # w[b].id
    BY DEF Apart
  <2> QED BY <2>1, <2>2
<1>6. \A k \in 1..Len(q) : q[k].id # w[1].id
  BY <1>2 DEF Apart
<1>7. ASSUME NEW k \in 1..Len(v), v[k].id # NoId PROVE v[k].id # w[1].id
  BY <1>1, <1>2, <1>7 DEF Apart
<1>8. Apart(q, v)
  BY <1>3, <1>4, <1>5 DEF Apart
<1> QED BY <1>6, <1>7, <1>8

\* A request is answered: its id moves from one wire to the other.
LEMMA ApartServe ==
  ASSUME NEW q, NEW r, NEW w, NEW v, NEW m \in 1..Len(v),
         Len(q) \in Nat, Len(w) \in Nat, Len(v) \in Nat, Shifted(r, q), Longer(v, w), Apart(q, w),
         m > Len(w), v[m].id = q[1].id, q[1].id # NoId, \A k \in 1..Len(r) : r[k].id # NoId,
         \A k \in 1..Len(v) : k > Len(w) /\ k # m => v[k].id = NoId
  PROVE  Apart(r, v)
<1>1. \A k \in 1..Len(r) : k + 1 \in 1..Len(q) /\ r[k] = q[k + 1] /\ k + 1 # 1
  BY DEF Shifted
<1>2. 1 \in 1..Len(q)
  BY DEF Shifted
<1>3. ASSUME NEW j \in 1..Len(r), NEW k \in 1..Len(r), r[j].id = r[k].id PROVE j + 1 = k + 1
  <2>1. j + 1 \in 1..Len(q) /\ k + 1 \in 1..Len(q) /\ q[j + 1].id = q[k + 1].id
    BY <1>1, <1>3
  <2>2. \A a, b \in 1..Len(q) : q[a].id = q[b].id => a = b
    BY DEF Apart
  <2> QED BY <2>1, <2>2
<1>4. \A j, k \in 1..Len(r) : j + 1 = k + 1 => j = k
  BY <1>1
<1>5. \A k \in 1..Len(v) : \/ k \in 1..Len(w) /\ v[k] = w[k] /\ v[k].id # q[1].id
                           \/ k = m
                           \/ v[k].id = NoId
  BY <1>2 DEF Longer, Apart
<1>6. \A j, k \in 1..Len(v) : v[j].id = v[k].id /\ v[j].id # NoId => j = k
  BY <1>5 DEF Apart
<1>7. ASSUME NEW j \in 1..Len(r), NEW k \in 1..Len(v) PROVE r[j].id # v[k].id
  <2>0. j + 1 \in 1..Len(q) /\ r[j] = q[j + 1] /\ j + 1 # 1
    BY <1>1
  <2>1. r[j].id # q[1].id
    BY <1>2, <2>0 DEF Apart
  <2>2. \A l \in 1..Len(w) : r[j].id # w[l].id
    BY <2>0 DEF Apart
  <2> QED BY <1>5, <2>1, <2>2
<1> QED BY <1>3, <1>4, <1>6, <1>7 DEF Apart

\* Notices carry no id.
LEMMA ApartNotice ==
  ASSUME NEW q, NEW w, NEW v, Len(q) \in Nat, Len(w) \in Nat, Len(v) \in Nat, Longer(v, w), Apart(q, w),
         \A k \in 1..Len(q) : q[k].id # NoId, \A k \in 1..Len(v) : k > Len(w) => v[k].id = NoId
  PROVE  Apart(q, v)
<1>1. \A k \in 1..Len(v) : (k \in 1..Len(w) /\ v[k] = w[k]) \/ v[k].id = NoId
  BY DEF Longer
<1> QED BY <1>1 DEF Apart

\* A request goes out under an id that nothing in flight on its connection has.
Sends(c, r) ==
  /\ r \in Request /\ conn[c] = "open" /\ Send(c, r)
  /\ UNCHANGED <<conn, running, cleared, s2c, srv, minted, heard, unknown, strangers, late, overrun>>
  /\ \A k \in 1..Len(c2s[c]) : c2s[c][k].id # r.id
  /\ \A k \in 1..Len(s2c[c]) : s2c[c][k].id # r.id
  /\ \/ r.thread = NoThread /\ UNCHANGED admitted
     \/ r.thread \in Threads /\ admitted[c][r.id] = NoEntry /\ Admit(c, r.id, r.thread)
  /\ \A p \in Phones : Outstanding(p) \subseteq Outstanding(p)' /\ (p = c => r.id \in Outstanding(p)')

\* What a phone's request leaves in the ledger.
LEMMA LedgerMakes ==
  ASSUME TypeOK, NEW p \in Phones, NEW i \in Ids, Ledger(p, i)
  PROVE  \A o \in Phones : Outstanding(o) \subseteq Outstanding(o)' /\ (o = p => i \in Outstanding(o)')
<1> SUFFICES ASSUME NEW o \in Phones
             PROVE  Outstanding(o) \subseteq Outstanding(o)' /\ (o = p => i \in Outstanding(o)')
  OBVIOUS
<1>1. DOMAIN ledger' = DOMAIN ledger \cup {p}
  BY DEF Ledger
<1>2. CASE o \in DOMAIN ledger \cup {p}
  <2>1. Outstanding(o)' = ledger'[o]
    BY <1>1, <1>2 DEF Outstanding
  <2>2. ledger'[o] = Outstanding(o) \cup IF o = p THEN {i} ELSE {}
    BY <1>2 DEF Ledger
  <2> QED BY <2>1, <2>2
<1>3. CASE o \notin DOMAIN ledger \cup {p}
  BY <1>1, <1>3 DEF Outstanding
<1> QED BY <1>2, <1>3

\* Each of the three ways to send is one.
LEMMA SendsMake ==
  ASSUME TypeOK, FlightInv, NEW i \in Ids,
         \/ \E c \in Keyboards, t \in Threads : KeyboardStarts(c, i, t)
         \/ \E p \in Phones : PhoneStarts(p, i) \/ PhoneAsks(p, i)
  PROVE  \E c \in Conns, r \in Request : Sends(c, r)
<1>0. Phones \subseteq Conns /\ Keyboards \subseteq Conns /\ NoThread \notin Threads
  BY DEF Conns
<1>1. ASSUME NEW c \in Keyboards, NEW t \in Threads, KeyboardStarts(c, i, t)
      PROVE  \E d \in Conns, r \in Request : Sends(d, r)
  <2>1. Start(i, t) \in Request /\ Start(i, t).id = i /\ Start(i, t).thread = t
    BY DEF Start, Request
  <2>2. /\ conn[c] = "open" /\ Send(c, Start(i, t)) /\ Admit(c, i, t) /\ admitted[c][i] = NoEntry
        /\ \A k \in DOMAIN c2s[c] : c2s[c][k].id # i
        /\ \A k \in DOMAIN s2c[c] : s2c[c][k].id # i
        /\ UNCHANGED <<conn, running, cleared, ledger, s2c, srv, minted, heard, unknown, strangers, late, overrun>>
    BY <1>1 DEF KeyboardStarts, serverVars, histVars
  <2>3. DOMAIN c2s[c] = 1..Len(c2s[c]) /\ DOMAIN s2c[c] = 1..Len(s2c[c])
    BY <1>0, WireForms
  <2>4. \A p \in Phones : Outstanding(p) \subseteq Outstanding(p)' /\ p # c
    BY <2>2 DEF Outstanding
  <2>5. Sends(c, Start(i, t))
    BY <2>1, <2>2, <2>3, <2>4 DEF Sends
  <2> QED BY <1>0, <2>1, <2>5
<1>2. ASSUME NEW p \in Phones, NEW r \in Request, conn[p] = "open", r.id = i, i \notin Outstanding(p)
      PROVE  /\ \A k \in 1..Len(c2s[p]) : c2s[p][k].id # r.id
             /\ \A k \in 1..Len(s2c[p]) : s2c[p][k].id # r.id
  <2>1. Listed(c2s[p], s2c[p], Outstanding(p))
    BY <1>0, <1>2 DEF FlightInv, Flight
  <2>2. i # NoId
    OBVIOUS
  <2> QED BY <1>2, <2>1, <2>2 DEF Listed
<1>3. ASSUME NEW p \in Phones, PhoneStarts(p, i)
      PROVE  \E d \in Conns, r \in Request : Sends(d, r)
  <2>0. head \in Threads
    BY <1>3 DEF PhoneStarts, TypeOK
  <2>1. Start(i, head) \in Request /\ Start(i, head).id = i /\ Start(i, head).thread = head
    BY <2>0 DEF Start, Request
  <2>2. /\ conn[p] = "open" /\ Send(p, Start(i, head)) /\ Admit(p, i, head) /\ admitted[p][i] = NoEntry
        /\ i \notin Outstanding(p) /\ Ledger(p, i)
        /\ UNCHANGED <<conn, running, cleared, s2c, srv, minted, heard, unknown, strangers, late, overrun>>
    BY <1>3 DEF PhoneStarts, CanLedger, serverVars, histVars
  <2>3. Sends(p, Start(i, head))
    BY <1>2, <2>0, <2>1, <2>2, LedgerMakes DEF Sends
  <2> QED BY <1>0, <2>1, <2>3
<1>4. ASSUME NEW p \in Phones, PhoneAsks(p, i)
      PROVE  \E d \in Conns, r \in Request : Sends(d, r)
  <2>1. Other(i) \in Request /\ Other(i).id = i /\ Other(i).thread = NoThread
    BY DEF Other, Request
  <2>2. /\ conn[p] = "open" /\ Send(p, Other(i)) /\ UNCHANGED admitted
        /\ i \notin Outstanding(p) /\ Ledger(p, i)
        /\ UNCHANGED <<conn, running, cleared, s2c, srv, minted, heard, unknown, strangers, late, overrun>>
    BY <1>4 DEF PhoneAsks, CanLedger, serverVars, histVars
  <2>3. Sends(p, Other(i))
    BY <1>2, <2>1, <2>2, LedgerMakes DEF Sends
  <2> QED BY <1>0, <2>1, <2>3
<1> QED BY <1>1, <1>3, <1>4

\* The steps, by what they do to the wires.
LEMMA StepCases ==
  ASSUME TypeOK, FlightInv, [Next]_vars
  PROVE  \/ \E c \in Conns : Connect(c) \/ Observe(c) \/ Close(c)
         \/ \E c \in Conns, r \in Request : Sends(c, r)
         \/ \E c \in Conns, f \in Response :
              /\ Replies(c, f) /\ (f.thread = NoThread => f.turn = NoTurn)
              /\ f.thread \in Threads => f.turn = srv[f.thread] /\ f.thread = c2s[c][1].thread
              /\ \A k \in Conns : \A m \in 1..Len(s2c'[k]) : m <= Len(s2c[k]) \/ (k = c /\ s2c'[k][m] = f)
         \/ \E c \in Conns, t \in Threads, f \in Response : Starts(c, t, f)
         \/ \E t \in Threads : ServerCompletes(t)
         \/ UNCHANGED <<conn, brokerVars, c2s, s2c, serverVars, sent, histVars>>
<1>1. CASE \E c \in Conns : Connect(c) \/ Observe(c) \/ Close(c)
  BY <1>1
<1>2. CASE \E c \in Conns : ServerRefuses(c) \/ ServerAnswers(c) \/ ServerJoins(c)
  BY <1>2, RepliesMake
<1>3. CASE \E c \in Conns, u \in Turns \cup {NoTurn}, first \in BOOLEAN : ServerStarts(c, u, first)
  BY <1>3, StartsMake
<1>4. CASE \/ \E c \in Keyboards, i \in Ids, t \in Threads : KeyboardStarts(c, i, t)
           \/ \E p \in Phones, i \in Ids : PhoneStarts(p, i) \/ PhoneAsks(p, i)
  BY <1>4, SendsMake
<1>5. CASE \E t \in Threads : ServerCompletes(t)
  BY <1>5
<1>6. CASE (\E t \in Threads \cup {NoThread} : HeadMoves(t)) \/ UNCHANGED vars
  BY <1>6 DEF HeadMoves, vars, brokerVars, serverVars, histVars
<1> QED BY <1>1, <1>2, <1>3, <1>4, <1>5, <1>6 DEF Next

\* The wires of one leg after it observes a frame, and the ledger.
LEMMA ObserveLedger ==
  ASSUME TypeOK, NEW c \in Conns, Observe(c)
  PROVE  /\ \A p \in Phones : p # c => Outstanding(p)' = Outstanding(p)
         /\ \A p \in Phones : \A i \in Outstanding(p) : i \in Outstanding(p)' \/ (i = s2c[c][1].id /\ i # NoId)
<1>1. s2c[c][1] \in Wire /\ Head(s2c[c]) = s2c[c][1]
  BY ObserveMakes
<1>2. CASE UNCHANGED ledger
  BY <1>2 DEF Outstanding
<1>3. CASE /\ s2c[c][1].kind \in {"result", "error"}
           /\ ledger' = [p \in DOMAIN ledger |-> ledger[p] \ IF p = c THEN {s2c[c][1].id} ELSE {}]
  <2>1. s2c[c][1].id # NoId
    BY <1>1, <1>3, FrameForms
  <2>2. DOMAIN ledger' = DOMAIN ledger
    BY <1>3
  <2>3. \A p \in DOMAIN ledger : ledger'[p] = ledger[p] \ IF p = c THEN {s2c[c][1].id} ELSE {}
    BY <1>3
  <2> QED BY <2>1, <2>2, <2>3 DEF Outstanding
<1> QED BY <1>1, <1>2, <1>3 DEF Observe

\* Every step keeps the ids in flight apart.
LEMMA FlightStep ==
  ASSUME TypeOK, FlightInv, [Next]_vars
  PROVE  FlightInv'
<1> SUFFICES ASSUME NEW k \in Conns PROVE Flight(k)'
  BY DEF FlightInv
<1>0. TypeOK' /\ NoId \notin Ids
  BY TypeStep
<1>1. /\ Len(c2s[k]) \in Nat /\ Len(s2c[k]) \in Nat /\ Len(s2c'[k]) \in Nat /\ Len(c2s'[k]) \in Nat
      /\ \A j \in 1..Len(c2s[k]) : c2s[k][j] \in Request /\ c2s[k][j].id \in Ids
      /\ \A j \in 1..Len(c2s'[k]) : c2s'[k][j].id \in Ids
  <2>1. c2s'[k] \in Seq(Request) /\ s2c'[k] \in Seq(Notice \cup Response)
    BY <1>0 DEF TypeOK
  <2>2. \A j \in 1..Len(c2s'[k]) : c2s'[k][j] \in Request
    BY <2>1
  <2>3. \A r \in Request : r.id \in Ids
    BY DEF Request
  <2>4. Len(s2c'[k]) \in Nat /\ Len(c2s'[k]) \in Nat
    BY <2>1
  <2> QED BY <2>2, <2>3, <2>4, WireForms
<1>2. Flight(k)
  BY DEF FlightInv
<1>3. ASSUME UNCHANGED <<conn, c2s, s2c>>, k \in Phones => Outstanding(k) \subseteq Outstanding(k)'
      PROVE  Flight(k)'
  BY <1>2, <1>3 DEF Flight, Listed, Apart
<1>4. ASSUME NEW c \in Conns, Connect(c) PROVE Flight(k)'
  <2>1. CASE k = c
    <3>1. /\ conn[c] = "new" /\ conn'[c] = "open" /\ UNCHANGED <<c2s, s2c>>
      BY <1>4 DEF Connect, TypeOK
    <3>2. c2s'[c] = <<>> /\ s2c'[c] = <<>>
      BY <1>2, <2>1, <3>1 DEF Flight
    <3>3. Len(c2s'[c]) = 0 /\ Len(s2c'[c]) = 0 /\ 1..0 = {}
      BY <3>2
    <3> QED BY <2>1, <3>1, <3>2, <3>3 DEF Flight, Apart, Listed
  <2>2. CASE k # c
    <3>1. UNCHANGED <<c2s, s2c, ledger>> /\ conn'[k] = conn[k]
      BY <1>4, <2>2 DEF Connect, TypeOK, brokerVars
    <3> QED BY <1>2, <3>1 DEF Flight, Apart, Listed, Outstanding
  <2> QED BY <2>1, <2>2
<1>5. ASSUME NEW c \in Conns, Close(c) PROVE Flight(k)'
  <2>1. conn[c] = "open" /\ UNCHANGED c2s
    BY <1>5 DEF Close
  <2>2. CASE k = c
    <3>1. conn'[c] = "gone" /\ s2c'[c] = <<>>
      BY <1>5 DEF Close, TypeOK
    <3> QED BY <2>2, <3>1 DEF Flight
  <2>3. CASE k # c
    <3>1. conn'[k] = conn[k] /\ s2c'[k] = s2c[k]
      BY <1>5, <2>3 DEF Close, TypeOK
    <3>2. Outstanding(k)' = Outstanding(k)
      BY <1>5, <2>3 DEF Close, Outstanding
    <3> QED BY <1>2, <2>1, <3>1, <3>2 DEF Flight, Apart, Listed
  <2> QED BY <2>2, <2>3
<1>6. ASSUME NEW c \in Conns, Observe(c) PROVE Flight(k)'
  <2>1. /\ Shifted(s2c'[c], s2c[c]) /\ s2c[c][1] \in Wire /\ UNCHANGED <<conn, c2s>>
        /\ \A d \in Conns : d # c => s2c'[d] = s2c[d]
    BY <1>6, ObserveMakes
  <2>2. CASE k # c
    <3>1. k \in Phones => Outstanding(k)' = Outstanding(k)
      BY <1>6, <2>2, ObserveLedger
    <3> QED BY <1>2, <2>1, <2>2, <3>1 DEF Flight, Apart, Listed
  <2>3. CASE k = c
    <3>1. s2c[k] # <<>> /\ conn[k] = "open"
      BY <1>2, <1>6, <2>3 DEF Flight, Observe
    <3>2. Apart(c2s[k], s2c[k]) /\ (k \in Phones => Listed(c2s[k], s2c[k], Outstanding(k)))
      BY <1>2, <3>1 DEF Flight
    <3>3. /\ Apart(c2s[k], s2c'[k])
          /\ \A j \in 1..Len(c2s[k]) : c2s[k][j].id # s2c[k][1].id
          /\ \A j \in 1..Len(s2c'[k]) : s2c'[k][j].id # NoId => s2c'[k][j].id # s2c[k][1].id
      BY <1>1, <2>1, <2>3, <3>2, ApartObserve
    <3>4. ASSUME k \in Phones PROVE Listed(c2s[k], s2c'[k], Outstanding(k)')
      <4>1. \A i \in Outstanding(k) : i # s2c[k][1].id => i \in Outstanding(k)'
        BY <1>6, <2>3, <3>4, ObserveLedger
      <4>2. \A j \in 1..Len(s2c'[k]) : j + 1 \in 1..Len(s2c[k]) /\ s2c'[k][j] = s2c[k][j + 1]
        BY <1>1, <2>1, <2>3 DEF Shifted
      <4> QED BY <3>2, <3>3, <3>4, <4>1, <4>2 DEF Listed
    <3>5. conn'[k] = "open" /\ c2s'[k] = c2s[k]
      BY <2>1, <3>1
    <3>6. Apart(c2s'[k], s2c'[k]) /\ (k \in Phones => Listed(c2s'[k], s2c'[k], Outstanding(k)'))
      BY <3>3, <3>4, <3>5
    <3> QED BY <3>5, <3>6 DEF Flight
  <2> QED BY <2>2, <2>3
<1>7. ASSUME NEW c \in Conns, NEW r \in Request, Sends(c, r) PROVE Flight(k)'
  <2>1. /\ Longer(c2s'[c], c2s[c]) /\ Len(c2s'[c]) = Len(c2s[c]) + 1 /\ c2s'[c][Len(c2s[c]) + 1] = r
        /\ \A d \in Conns : d # c => c2s'[d] = c2s[d]
    BY <1>7, SendMakes DEF Sends
  <2>2. /\ UNCHANGED <<conn, s2c>> /\ (k \in Phones => Outstanding(k) \subseteq Outstanding(k)')
    BY <1>7 DEF Sends
  <2>3. CASE k # c
    <3>1. c2s'[k] = c2s[k] /\ s2c'[k] = s2c[k] /\ conn'[k] = conn[k]
      BY <2>1, <2>2, <2>3
    <3>2. k \in Phones /\ conn[k] = "open" => Listed(c2s[k], s2c[k], Outstanding(k)')
      BY <1>2, <2>2 DEF Flight, Listed
    <3> QED BY <1>2, <3>1, <3>2 DEF Flight
  <2>4. CASE k = c
    <3>1. conn[k] = "open"
      BY <1>7, <2>4 DEF Sends
    <3>2. Apart(c2s[k], s2c[k]) /\ (k \in Phones => Listed(c2s[k], s2c[k], Outstanding(k)))
      BY <1>2, <3>1 DEF Flight
    <3>3. Apart(c2s'[k], s2c[k])
      <4>1. /\ \A j \in 1..Len(c2s[k]) : c2s[k][j].id # r.id
            /\ \A j \in 1..Len(s2c[k]) : s2c[k][j].id # r.id
        BY <1>7, <2>4 DEF Sends
      <4> QED BY <1>1, <2>1, <2>4, <3>2, <4>1, ApartSend
    <3>4. ASSUME k \in Phones PROVE Listed(c2s'[k], s2c[k], Outstanding(k)')
      <4>1. r.id \in Outstanding(k)'
        BY <1>7, <2>4, <3>4 DEF Sends
      <4>2. \A j \in 1..Len(c2s'[k]) : (j \in 1..Len(c2s[k]) /\ c2s'[k][j] = c2s[k][j]) \/ c2s'[k][j] = r
        BY <1>1, <2>1, <2>4 DEF Longer
      <4> QED BY <2>2, <3>2, <3>4, <4>1, <4>2 DEF Listed
    <3> QED BY <2>2, <3>1, <3>3, <3>4 DEF Flight
  <2> QED BY <2>3, <2>4
<1>8. ASSUME NEW c \in Conns, NEW f \in Response, Serves(c, f) PROVE Flight(k)'
  <2>1. /\ Shifted(c2s'[c], c2s[c]) /\ \A d \in Conns : d # c => c2s'[d] = c2s[d]
        /\ Longer(s2c'[k], s2c[k]) /\ (conn[k] # "open" => s2c'[k] = s2c[k])
        /\ UNCHANGED <<conn, ledger>> /\ f.id = c2s[c][1].id
    BY <1>8 DEF Serves, brokerVars
  <2>2. Outstanding(k)' = Outstanding(k)
    BY <2>1 DEF Outstanding
  <2>3. \A g \in Notice : g.id = NoId
    BY DEF Notice
  <2>4. CASE k # c
    <3>1. \A j \in 1..Len(s2c'[k]) : j > Len(s2c[k]) => s2c'[k][j].id = NoId
      <4>1. \A j \in 1..Len(s2c'[k]) : j <= Len(s2c[k]) \/ s2c'[k][j] \in Notice
        BY <1>8, <2>4 DEF Serves
      <4> QED BY <1>1, <2>3, <4>1
    <3>2. conn[k] = "open" => Apart(c2s'[k], s2c'[k])
      <4> SUFFICES ASSUME conn[k] = "open" PROVE Apart(c2s[k], s2c'[k])
        BY <2>1, <2>4
      <4>1. Apart(c2s[k], s2c[k]) /\ \A j \in 1..Len(c2s[k]) : c2s[k][j].id # NoId
        BY <1>0, <1>1, <1>2 DEF Flight
      <4> QED BY <1>1, <2>1, <3>1, <4>1, ApartNotice
    <3>3. ASSUME conn[k] = "open", k \in Phones PROVE Listed(c2s'[k], s2c'[k], Outstanding(k))
      <4>1. Listed(c2s[k], s2c[k], Outstanding(k))
        BY <1>2, <3>3 DEF Flight
      <4>2. \A j \in 1..Len(s2c'[k]) : (j \in 1..Len(s2c[k]) /\ s2c'[k][j] = s2c[k][j]) \/ s2c'[k][j].id = NoId
        BY <1>1, <2>1, <3>1 DEF Longer
      <4> QED BY <2>1, <2>4, <4>1, <4>2 DEF Listed
    <3> QED BY <1>2, <2>1, <2>2, <2>4, <3>2, <3>3 DEF Flight
  <2>5. CASE k = c /\ conn[k] # "open"
    <3>1. conn[k] # "new"
      <4>1. Len(c2s[k]) # 0
        BY <1>1, <2>1, <2>5 DEF Shifted
      <4> QED BY <1>2, <4>1 DEF Flight
    <3> QED BY <1>2, <2>1, <2>5, <3>1 DEF Flight
  <2>6. CASE k = c /\ conn[k] = "open"
    <3>1. PICK m \in 1..Len(s2c'[k]) : /\ m > Len(s2c[k]) /\ s2c'[k][m] = f
                                       /\ \A n \in 1..Len(s2c'[k]) : n > Len(s2c[k]) /\ n # m => s2c'[k][n] \in Notice
      <4>1. \E m \in 1..Len(s2c'[c]) : /\ m > Len(s2c[c]) /\ s2c'[c][m] = f
                                        /\ \A n \in 1..Len(s2c'[c]) : n > Len(s2c[c]) /\ n # m => s2c'[c][n] \in Notice
        BY <1>8, <2>6, Zenon DEF Serves
      <4> QED BY <2>6, <4>1
    <3>2. Apart(c2s[k], s2c[k]) /\ (k \in Phones => Listed(c2s[k], s2c[k], Outstanding(k)))
      BY <1>2, <2>6 DEF Flight
    <3>3. 1 \in 1..Len(c2s[k]) /\ c2s[k][1].id \in Ids
      BY <1>1, <2>1, <2>6 DEF Shifted
    <3>4. Apart(c2s'[k], s2c'[k])
      <4>1. \A n \in 1..Len(s2c'[k]) : n > Len(s2c[k]) /\ n # m => s2c'[k][n].id = NoId
        BY <2>3, <3>1
      <4>2. s2c'[k][m].id = c2s[k][1].id /\ c2s[k][1].id # NoId /\ \A j \in 1..Len(c2s'[k]) : c2s'[k][j].id # NoId
        BY <1>0, <1>1, <2>1, <2>6, <3>1, <3>3
      <4>3. Shifted(c2s'[k], c2s[k]) /\ Longer(s2c'[k], s2c[k]) /\ Apart(c2s[k], s2c[k])
        BY <2>1, <2>6, <3>2
      <4>4. Len(c2s[k]) \in Nat /\ Len(s2c[k]) \in Nat /\ Len(s2c'[k]) \in Nat /\ m > Len(s2c[k])
        BY <1>1, <3>1
      <4> QED BY <4>1, <4>2, <4>3, <4>4, ApartServe
    <3>5. ASSUME k \in Phones PROVE Listed(c2s'[k], s2c'[k], Outstanding(k))
      <4>1. Listed(c2s[k], s2c[k], Outstanding(k))
        BY <3>2, <3>5
      <4>2. \A j \in 1..Len(c2s'[k]) : j + 1 \in 1..Len(c2s[k]) /\ c2s'[k][j] = c2s[k][j + 1]
        BY <1>1, <2>1, <2>6 DEF Shifted
      <4>3. \A j \in 1..Len(s2c'[k]) : \/ j \in 1..Len(s2c[k]) /\ s2c'[k][j] = s2c[k][j]
                                       \/ s2c'[k][j] = f
                                       \/ s2c'[k][j].id = NoId
        BY <1>1, <2>1, <2>3, <3>1 DEF Longer
      <4>4. f.id \in Outstanding(k)
        BY <2>1, <2>6, <3>3, <4>1 DEF Listed
      <4> QED BY <4>1, <4>2, <4>3, <4>4 DEF Listed
    <3> QED BY <2>1, <2>2, <2>6, <3>4, <3>5 DEF Flight
  <2> QED BY <2>4, <2>5, <2>6
<1>9. ASSUME NEW t \in Threads, ServerCompletes(t) PROVE Flight(k)'
  <2> DEFINE f == Frame("completed", t, srv[t], NoId)
  <2>1. /\ f.id = NoId /\ Longer(s2c'[k], s2c[k]) /\ (conn[k] # "open" => s2c'[k] = s2c[k])
        /\ \A m \in 1..Len(s2c'[k]) : m <= Len(s2c[k]) \/ s2c'[k][m] = f
        /\ UNCHANGED <<conn, ledger, c2s>>
    BY <1>9, CompletesMake DEF brokerVars
  <2> HIDE DEF f
  <2>2. Outstanding(k)' = Outstanding(k)
    BY <2>1 DEF Outstanding
  <2>3. \A j \in 1..Len(s2c'[k]) : j > Len(s2c[k]) => s2c'[k][j].id = NoId
    BY <1>1, <2>1
  <2>4. conn[k] = "open" => Apart(c2s[k], s2c'[k])
    <3> SUFFICES ASSUME conn[k] = "open" PROVE Apart(c2s[k], s2c'[k])
      OBVIOUS
    <3>1. Apart(c2s[k], s2c[k]) /\ \A j \in 1..Len(c2s[k]) : c2s[k][j].id # NoId
      BY <1>0, <1>1, <1>2 DEF Flight
    <3> QED BY <1>1, <2>1, <2>3, <3>1, ApartNotice
  <2>5. ASSUME conn[k] = "open", k \in Phones PROVE Listed(c2s[k], s2c'[k], Outstanding(k))
    <3>1. Listed(c2s[k], s2c[k], Outstanding(k))
      BY <1>2, <2>5 DEF Flight
    <3>2. \A j \in 1..Len(s2c'[k]) : (j \in 1..Len(s2c[k]) /\ s2c'[k][j] = s2c[k][j]) \/ s2c'[k][j].id = NoId
      BY <1>1, <2>1, <2>3 DEF Longer
    <3> QED BY <3>1, <3>2 DEF Listed
  <2> QED BY <1>2, <2>1, <2>2, <2>4, <2>5 DEF Flight
<1>10. CASE UNCHANGED <<conn, brokerVars, c2s, s2c, serverVars, sent, histVars>>
  <2>1. UNCHANGED <<conn, c2s, s2c, ledger>>
    BY <1>10 DEF brokerVars
  <2> QED BY <1>3, <2>1 DEF Outstanding
<1> QED BY <1>4, <1>5, <1>6, <1>7, <1>8, <1>9, <1>10, StepCases DEF Replies, Starts

-----------------------------------------------------------------------------
(* The entries of the table.                                               *)

\* What the observation of frame f on leg c makes of the entry of d's request j.
Noted(c, f, d, j) ==
  /\ d = c /\ j = f.id /\ admitted[d][j].st = "unanswered" =>
       admitted'[d][j] = IF f.kind = "error" \/ <<admitted[d][j].thread, f.turn>> \in Seen THEN NoEntry
                         ELSE Answered(admitted[d][j].thread, f.turn)
  /\ admitted[d][j].st = "unanswered" /\ ~(d = c /\ j = f.id) => admitted'[d][j] = admitted[d][j]
  /\ admitted[d][j].st = "none" => admitted'[d][j] = admitted[d][j]
  /\ admitted[d][j].st = "answered" =>
       \/ admitted'[d][j] = admitted[d][j]
       \/ /\ f.kind = "completed" /\ f.thread = admitted[d][j].thread /\ <<f.thread, f.turn>> \notin Seen
          /\ admitted'[d][j] = NoEntry

\* Observing a frame does that to every entry.
LEMMA ObserveEntries ==
  ASSUME TypeOK, NEW c \in Conns, Observe(c), NEW f, f = s2c[c][1]
  PROVE  \A d \in Conns, j \in Ids : Noted(c, f, d, j)
<1> SUFFICES ASSUME NEW d \in Conns, NEW j \in Ids PROVE Noted(c, f, d, j)
  OBVIOUS
<1>0. f \in Wire /\ Head(s2c[c]) = f /\ admitted \in [Conns -> [Ids -> Entry]]
  BY ObserveMakes DEF TypeOK
<1>1. \/ f.kind = "started" /\ Started(f.thread, f.turn)
      \/ f.kind = "completed" /\ Terminal(f.thread, f.turn)
      \/ /\ f.kind \in {"result", "error"}
         /\ IF admitted[c][f.id].st # "unanswered" THEN UNCHANGED admitted
            ELSE \/ f.kind = "error" /\ ErrorOf(c, f.id)
                 \/ f.kind = "result" /\ ResultOf(c, f.id, f.turn)
  BY <1>0 DEF Observe
<1>2. f.kind \in {"started", "completed"} => f.id \notin Ids
  BY <1>0, FrameForms
<1>3. CASE f.kind = "started" /\ Started(f.thread, f.turn)
  BY <1>2, <1>3 DEF Noted, Started
<1>4. CASE f.kind = "completed" /\ Terminal(f.thread, f.turn)
  <2>1. CASE <<f.thread, f.turn>> \in Seen
    BY <1>2, <1>4, <2>1 DEF Noted, Terminal
  <2>2. CASE <<f.thread, f.turn>> \notin Seen
    <3>1. admitted' = EndAnswered(f.thread)
      BY <1>4, <2>2 DEF Terminal
    <3>2. admitted'[d][j] = IF admitted[d][j].thread = f.thread /\ admitted[d][j].st = "answered" THEN NoEntry
                            ELSE admitted[d][j]
      BY <3>1 DEF EndAnswered
    <3> QED BY <1>2, <1>4, <2>2, <3>2 DEF Noted
  <2> QED BY <2>1, <2>2
<1>5. CASE f.kind \in {"result", "error"} /\ UNCHANGED admitted /\ admitted[c][f.id].st # "unanswered"
  BY <1>5 DEF Noted
<1>6. ASSUME f.kind \in {"result", "error"}, admitted[c][f.id].st = "unanswered",
             \/ f.kind = "error" /\ ErrorOf(c, f.id)
             \/ f.kind = "result" /\ ResultOf(c, f.id, f.turn)
      PROVE  admitted'[d][j] =
               IF d = c /\ j = f.id
               THEN IF f.kind = "error" \/ <<admitted[d][j].thread, f.turn>> \in Seen THEN NoEntry
                    ELSE Answered(admitted[d][j].thread, f.turn)
               ELSE admitted[d][j]
  <2>0. f.id \in Ids /\ f.turn \in Turns \cup {NoTurn}
    BY <1>0, <1>6, FrameForms
  <2> DEFINE r == admitted[c][f.id].thread
             e == IF f.kind = "error" \/ <<r, f.turn>> \in Seen THEN NoEntry ELSE Answered(r, f.turn)
  <2>1. r \in Threads \cup {NoThread}
    BY <1>0, <2>0 DEF Entry
  <2>2. e \in Entry
    BY <2>0, <2>1, EntryForms
  <2>3. admitted' = [admitted EXCEPT ![c][f.id] = e]
    BY <1>6 DEF ErrorOf, ResultOf
  <2> HIDE DEF e
  <2>4. admitted'[d][j] = IF d = c /\ j = f.id THEN e ELSE admitted[d][j]
    BY <1>0, <2>0, <2>2, <2>3, SetEntry
  <2> QED BY <2>4 DEF e
<1>7. CASE /\ f.kind \in {"result", "error"} /\ admitted[c][f.id].st = "unanswered"
           /\ \/ f.kind = "error" /\ ErrorOf(c, f.id)
              \/ f.kind = "result" /\ ResultOf(c, f.id, f.turn)
  BY <1>6, <1>7 DEF Noted
<1> QED BY <1>1, <1>3, <1>4, <1>5, <1>7

\* What the wires are before and after a step.
LEMMA WireLens ==
  ASSUME TypeOK, [Next]_vars, NEW k \in Conns
  PROVE  /\ Len(c2s[k]) \in Nat /\ Len(s2c[k]) \in Nat /\ Len(s2c'[k]) \in Nat /\ Len(c2s'[k]) \in Nat
         /\ \A j \in 1..Len(c2s[k]) : c2s[k][j] \in Request /\ c2s[k][j].id \in Ids
         /\ \A j \in 1..Len(c2s'[k]) : c2s'[k][j] \in Request /\ c2s'[k][j].id \in Ids
         /\ \A j \in 1..Len(s2c[k]) : s2c[k][j] \in Wire
         /\ \A j \in 1..Len(s2c'[k]) : s2c'[k][j] \in Wire
<1>0. TypeOK'
  BY TypeStep
<1>1. c2s'[k] \in Seq(Request) /\ s2c'[k] \in Seq(Wire)
  BY <1>0 DEF TypeOK, Wire
<1>2. /\ \A j \in 1..Len(c2s'[k]) : c2s'[k][j] \in Request
      /\ \A j \in 1..Len(s2c'[k]) : s2c'[k][j] \in Wire
  BY <1>1
<1>3. \A r \in Request : r.id \in Ids
  BY DEF Request
<1>4. Len(s2c'[k]) \in Nat /\ Len(c2s'[k]) \in Nat
  BY <1>1
<1> QED BY <1>2, <1>3, <1>4, WireForms

\* A turn/start on its way, and its answer, have their entry.
StartOK(c) ==
  conn[c] = "open" =>
    /\ \A k \in 1..Len(c2s[c]) :
         c2s[c][k].thread # NoThread => admitted[c][c2s[c][k].id] = Unanswered(c2s[c][k].thread)
    /\ \A k \in 1..Len(s2c[c]) : s2c[c][k].id # NoId =>
         \/ s2c[c][k].thread = NoThread /\ s2c[c][k].turn = NoTurn
         \/ admitted[c][s2c[c][k].id] = Unanswered(s2c[c][k].thread)

StartInv == \A c \in Conns : StartOK(c)

\* Every step keeps the entries of what is on its way.
LEMMA StartStep ==
  ASSUME TypeOK, FlightInv, StartInv, [Next]_vars
  PROVE  StartInv'
<1> SUFFICES ASSUME NEW k \in Conns, conn'[k] = "open"
             PROVE  /\ \A j \in 1..Len(c2s'[k]) : c2s'[k][j].thread # NoThread =>
                         admitted'[k][c2s'[k][j].id] = Unanswered(c2s'[k][j].thread)
                    /\ \A j \in 1..Len(s2c'[k]) : s2c'[k][j].id # NoId =>
                         \/ s2c'[k][j].thread = NoThread /\ s2c'[k][j].turn = NoTurn
                         \/ admitted'[k][s2c'[k][j].id] = Unanswered(s2c'[k][j].thread)
  BY DEF StartInv, StartOK
<1> DEFINE Asks == \A j \in 1..Len(c2s'[k]) : c2s'[k][j].thread # NoThread =>
                     admitted'[k][c2s'[k][j].id] = Unanswered(c2s'[k][j].thread)
           Answers == \A j \in 1..Len(s2c'[k]) : s2c'[k][j].id # NoId =>
                        \/ s2c'[k][j].thread = NoThread /\ s2c'[k][j].turn = NoTurn
                        \/ admitted'[k][s2c'[k][j].id] = Unanswered(s2c'[k][j].thread)
<1>1. /\ Len(c2s[k]) \in Nat /\ Len(s2c[k]) \in Nat /\ Len(s2c'[k]) \in Nat /\ Len(c2s'[k]) \in Nat
      /\ \A j \in 1..Len(c2s[k]) : c2s[k][j] \in Request /\ c2s[k][j].id \in Ids
      /\ \A j \in 1..Len(s2c[k]) : s2c[k][j] \in Wire
      /\ \A j \in 1..Len(s2c'[k]) : s2c'[k][j] \in Wire
  BY WireLens
<1>2. StartOK(k) /\ Flight(k)
  BY DEF StartInv, FlightInv
<1>3. ASSUME conn[k] = "open", Len(c2s'[k]) = Len(c2s[k]), Len(s2c'[k]) = Len(s2c[k]),
             c2s'[k] = c2s[k], s2c'[k] = s2c[k], admitted'[k] = admitted[k]
      PROVE  Asks /\ Answers
  BY <1>2, <1>3 DEF StartOK
<1>4. ASSUME NEW c \in Conns, Connect(c) PROVE Asks /\ Answers
  <2>1. CASE k = c
    <3>1. conn[c] = "new" /\ UNCHANGED <<c2s, s2c>>
      BY <1>4 DEF Connect
    <3>2. c2s'[k] = <<>> /\ s2c'[k] = <<>>
      BY <1>2, <2>1, <3>1 DEF Flight
    <3>3. Len(c2s'[k]) = 0 /\ Len(s2c'[k]) = 0 /\ 1..0 = {}
      BY <3>2
    <3> QED BY <3>3
  <2>2. CASE k # c
    <3>1. UNCHANGED <<c2s, s2c, admitted>> /\ conn'[k] = conn[k]
      BY <1>4, <2>2 DEF Connect, TypeOK, brokerVars
    <3> QED BY <1>3, <3>1
  <2> QED BY <2>1, <2>2
<1>5. ASSUME NEW c \in Conns, Close(c) PROVE Asks /\ Answers
  <2>1. k # c
    BY <1>5 DEF Close, TypeOK
  <2>2. UNCHANGED c2s /\ conn'[k] = conn[k] /\ s2c'[k] = s2c[k] /\ admitted'[k] = admitted[k]
    BY <1>5, <2>1 DEF Close, TypeOK
  <2> QED BY <1>3, <2>2
<1>6. ASSUME NEW c \in Conns, Observe(c) PROVE Asks /\ Answers
  <2>0. PICK f : f = s2c[c][1]
    OBVIOUS
  <2>1. /\ Shifted(s2c'[c], s2c[c]) /\ f \in Wire /\ UNCHANGED <<conn, c2s>>
        /\ \A d \in Conns : d # c => s2c'[d] = s2c[d]
    BY <1>6, <2>0, ObserveMakes
  <2>2. \A i \in Ids : admitted[k][i].st = "unanswered" /\ ~(k = c /\ i = f.id) => admitted'[k][i] = admitted[k][i]
    <3>1. \A i \in Ids : Noted(c, f, k, i)
      BY <1>6, <2>0, ObserveEntries
    <3> QED BY <3>1 DEF Noted
  <2>3. \A t : Unanswered(t).st = "unanswered"
    BY DEF Unanswered
  <2>4. conn[k] = "open"
    BY <2>1
  <2>5. ASSUME NEW i \in Ids, NEW t, admitted[k][i] = Unanswered(t), k # c \/ i # f.id
        PROVE  admitted'[k][i] = Unanswered(t)
    BY <2>2, <2>3, <2>5
  <2>6. CASE k # c
    <3>1. Asks
      <4>1. c2s'[k] = c2s[k]
        BY <2>1
      <4> QED BY <1>1, <1>2, <2>4, <2>5, <2>6, <4>1 DEF StartOK
    <3>2. Answers
      <4>1. s2c'[k] = s2c[k]
        BY <2>1, <2>6
      <4>2. \A j \in 1..Len(s2c[k]) : s2c[k][j].id # NoId => s2c[k][j].id \in Ids
        BY <1>1, FrameForms
      <4> QED BY <1>2, <2>4, <2>5, <2>6, <4>1, <4>2 DEF StartOK
    <3> QED BY <3>1, <3>2
  <2>7. CASE k = c
    <3>1. Apart(c2s[k], s2c[k])
      BY <1>2, <2>4 DEF Flight
    <3>2. /\ \A j \in 1..Len(c2s[k]) : c2s[k][j].id # f.id
          /\ \A j \in 1..Len(s2c'[k]) : s2c'[k][j].id # NoId => s2c'[k][j].id # f.id
      BY <1>1, <2>0, <2>1, <2>7, <3>1, ApartObserve
    <3>3. Asks
      <4>1. c2s'[k] = c2s[k]
        BY <2>1
      <4> QED BY <1>1, <1>2, <2>4, <2>5, <3>2, <4>1 DEF StartOK
    <3>4. Answers
      <4>1. \A j \in 1..Len(s2c'[k]) : j + 1 \in 1..Len(s2c[k]) /\ s2c'[k][j] = s2c[k][j + 1]
        BY <1>1, <2>1, <2>7 DEF Shifted
      <4>2. \A j \in 1..Len(s2c'[k]) : s2c'[k][j].id # NoId => s2c'[k][j].id \in Ids
        BY <1>1, FrameForms
      <4>3. \A j \in 1..Len(s2c'[k]) : s2c'[k][j].id # NoId =>
                        \/ s2c'[k][j].thread = NoThread /\ s2c'[k][j].turn = NoTurn
                        \/ admitted[k][s2c'[k][j].id] = Unanswered(s2c'[k][j].thread)
        BY <1>2, <2>4, <4>1 DEF StartOK
      <4> QED BY <2>5, <3>2, <4>2, <4>3
    <3> QED BY <3>3, <3>4
  <2> QED BY <2>6, <2>7
<1>7. ASSUME NEW c \in Conns, NEW r \in Request, Sends(c, r) PROVE Asks /\ Answers
  <2>1. /\ Longer(c2s'[c], c2s[c]) /\ Len(c2s'[c]) = Len(c2s[c]) + 1 /\ c2s'[c][Len(c2s[c]) + 1] = r
        /\ \A d \in Conns : d # c => c2s'[d] = c2s[d]
    BY <1>7, SendMakes DEF Sends
  <2>2. UNCHANGED <<conn, s2c>> /\ conn[k] = "open"
    BY <1>7 DEF Sends
  <2>3. r.id \in Ids /\ r.thread \in Threads \cup {NoThread}
    BY DEF Request
  <2>4. \A d \in Conns, i \in Ids :
          admitted'[d][i] = IF d = c /\ i = r.id /\ r.thread # NoThread THEN Unanswered(r.thread) ELSE admitted[d][i]
    <3>1. CASE r.thread = NoThread /\ UNCHANGED admitted
      BY <3>1
    <3>2. CASE r.thread \in Threads /\ Admit(c, r.id, r.thread)
      <4>1. Unanswered(r.thread) \in Entry /\ admitted \in [Conns -> [Ids -> Entry]] /\ r.thread # NoThread
        BY <2>3, <3>2, EntryForms DEF TypeOK
      <4> QED BY <2>3, <3>2, <4>1, SetEntry DEF Admit
    <3> QED BY <1>7, <3>1, <3>2 DEF Sends
  <2>5. CASE k # c
    <3>1. \A i \in Ids : admitted'[k][i] = admitted[k][i]
      BY <2>4, <2>5
    <3>2. c2s'[k] = c2s[k] /\ s2c'[k] = s2c[k]
      BY <2>1, <2>2, <2>5
    <3>3. Asks
      BY <1>1, <1>2, <2>2, <3>1, <3>2 DEF StartOK
    <3>4. Answers
      <4>1. \A j \in 1..Len(s2c[k]) : s2c[k][j].id # NoId => s2c[k][j].id \in Ids
        BY <1>1, FrameForms
      <4> QED BY <1>2, <2>2, <3>1, <3>2, <4>1 DEF StartOK
    <3> QED BY <3>3, <3>4
  <2>6. CASE k = c
    <3>1. /\ \A j \in 1..Len(c2s[k]) : c2s[k][j].id # r.id
          /\ \A j \in 1..Len(s2c[k]) : s2c[k][j].id # r.id
      BY <1>7, <2>6 DEF Sends
    <3>2. \A i \in Ids : i # r.id => admitted'[k][i] = admitted[k][i]
      BY <2>4
    <3>3. \A j \in 1..Len(c2s'[k]) : (j \in 1..Len(c2s[k]) /\ c2s'[k][j] = c2s[k][j]) \/ c2s'[k][j] = r
      BY <1>1, <2>1, <2>6 DEF Longer
    <3>4. r.thread # NoThread => admitted'[k][r.id] = Unanswered(r.thread)
      BY <2>3, <2>4, <2>6
    <3>5. Asks
      <4> SUFFICES ASSUME NEW j \in 1..Len(c2s'[k]), c2s'[k][j].thread # NoThread
                   PROVE  admitted'[k][c2s'[k][j].id] = Unanswered(c2s'[k][j].thread)
        OBVIOUS
      <4>1. CASE c2s'[k][j] = r
        BY <3>4, <4>1
      <4>2. CASE j \in 1..Len(c2s[k]) /\ c2s'[k][j] = c2s[k][j]
        <5>1. admitted[k][c2s[k][j].id] = Unanswered(c2s[k][j].thread)
          BY <1>2, <2>2, <4>2 DEF StartOK
        <5>2. c2s[k][j].id \in Ids /\ c2s[k][j].id # r.id
          BY <1>1, <3>1, <4>2
        <5> QED BY <3>2, <4>2, <5>1, <5>2
      <4> QED BY <3>3, <4>1, <4>2
    <3>6. Answers
      <4>1. \A j \in 1..Len(s2c[k]) : s2c[k][j].id # NoId => s2c[k][j].id \in Ids
        BY <1>1, FrameForms
      <4>2. s2c'[k] = s2c[k]
        BY <2>2
      <4> QED BY <1>2, <2>2, <3>1, <3>2, <4>1, <4>2 DEF StartOK
    <3> QED BY <3>5, <3>6
  <2> QED BY <2>5, <2>6
<1>8. ASSUME NEW c \in Conns, NEW f \in Response, Serves(c, f),
             f.thread = NoThread => f.turn = NoTurn, f.thread # NoThread => f.thread = c2s[c][1].thread
      PROVE  Asks /\ Answers
  <2>1. /\ Shifted(c2s'[c], c2s[c]) /\ \A d \in Conns : d # c => c2s'[d] = c2s[d]
        /\ Longer(s2c'[k], s2c[k]) /\ UNCHANGED <<conn, admitted>> /\ f.id = c2s[c][1].id /\ conn[k] = "open"
    BY <1>8 DEF Serves, brokerVars
  <2>2. \A j \in 1..Len(s2c'[k]) : \/ j \in 1..Len(s2c[k]) /\ s2c'[k][j] = s2c[k][j]
                                   \/ k = c /\ s2c'[k][j] = f
                                   \/ s2c'[k][j] \in Notice
    BY <1>1, <1>8, <2>1 DEF Serves, Longer
  <2>3. \A g \in Notice : g.id = NoId
    BY DEF Notice
  <2>4. k = c => 1 \in 1..Len(c2s[k])
    BY <1>1, <2>1 DEF Shifted
  <2>5. k = c => (f.thread = NoThread /\ f.turn = NoTurn) \/ admitted[k][f.id] = Unanswered(f.thread)
    BY <1>2, <1>8, <2>1, <2>4 DEF StartOK
  <2>6. \A j \in 1..Len(c2s'[k]) : \E i \in 1..Len(c2s[k]) : c2s'[k][j] = c2s[k][i]
    <3>1. CASE k # c
      BY <2>1, <3>1
    <3>2. CASE k = c
      <4>1. \A j \in 1..Len(c2s'[k]) : j + 1 \in 1..Len(c2s[k]) /\ c2s'[k][j] = c2s[k][j + 1]
        BY <1>1, <2>1, <3>2 DEF Shifted
      <4> QED BY <4>1
    <3> QED BY <3>1, <3>2
  <2>7. Asks
    <3> SUFFICES ASSUME NEW j \in 1..Len(c2s'[k]), c2s'[k][j].thread # NoThread
                 PROVE  admitted'[k][c2s'[k][j].id] = Unanswered(c2s'[k][j].thread)
      OBVIOUS
    <3>1. PICK i \in 1..Len(c2s[k]) : c2s'[k][j] = c2s[k][i]
      BY <2>6
    <3>2. admitted[k][c2s[k][i].id] = Unanswered(c2s[k][i].thread)
      BY <1>2, <2>1, <3>1 DEF StartOK
    <3> QED BY <2>1, <3>1, <3>2
  <2>8. Answers
    BY <1>2, <2>1, <2>2, <2>3, <2>5 DEF StartOK
  <2> QED BY <2>7, <2>8
<1>9. ASSUME NEW t \in Threads, ServerCompletes(t) PROVE Asks /\ Answers
  <2> DEFINE f == Frame("completed", t, srv[t], NoId)
  <2>1. /\ f.id = NoId /\ Longer(s2c'[k], s2c[k])
        /\ \A m \in 1..Len(s2c'[k]) : m <= Len(s2c[k]) \/ s2c'[k][m] = f
        /\ UNCHANGED <<conn, admitted, c2s>> /\ conn[k] = "open"
    BY <1>9, CompletesMake DEF brokerVars
  <2> HIDE DEF f
  <2>2. \A j \in 1..Len(s2c'[k]) : (j \in 1..Len(s2c[k]) /\ s2c'[k][j] = s2c[k][j]) \/ s2c'[k][j].id = NoId
    BY <1>1, <2>1 DEF Longer
  <2>3. Asks
    <3>1. c2s'[k] = c2s[k] /\ admitted' = admitted
      BY <2>1
    <3> QED BY <1>2, <2>1, <3>1 DEF StartOK
  <2>4. Answers
    BY <1>2, <2>1, <2>2 DEF StartOK
  <2> QED BY <2>3, <2>4
<1>10. CASE UNCHANGED <<conn, brokerVars, c2s, s2c, serverVars, sent, histVars>>
  <2>1. UNCHANGED <<conn, c2s, s2c, admitted>>
    BY <1>10 DEF brokerVars
  <2> QED BY <1>3, <2>1
<1>11. \A f \in Response : f.thread \in Threads \/ f.thread = NoThread
  BY DEF Response
<1>12. ASSUME NEW c \in Conns, NEW f \in Response, Replies(c, f), f.thread = NoThread => f.turn = NoTurn,
              f.thread \in Threads => f.turn = srv[f.thread] /\ f.thread = c2s[c][1].thread
       PROVE  Asks /\ Answers
  BY <1>8, <1>11, <1>12 DEF Replies
<1>13. ASSUME NEW c \in Conns, NEW t \in Threads, NEW f \in Response, Starts(c, t, f) PROVE Asks /\ Answers
  <2>1. Serves(c, f) /\ f.thread = c2s[c][1].thread /\ f.thread # NoThread
    BY <1>13 DEF Starts
  <2> QED BY <1>8, <2>1
<1> QED BY <1>4, <1>5, <1>6, <1>7, <1>9, <1>10, <1>12, <1>13, StepCases

-----------------------------------------------------------------------------
(* The turns a frame may name.                                             *)

\* A frame on its way to some leg.
OnWire(g) == \E k \in Conns : \E m \in 1..Len(s2c[k]) : s2c[k][m] = g

\* Most steps put no frame on a wire.
LEMMA NoNewFrame ==
  ASSUME TypeOK, [Next]_vars, NEW g, OnWire(g)',
         \/ \E c \in Conns : Connect(c) \/ Observe(c) \/ Close(c)
         \/ \E c \in Conns, r \in Request : Sends(c, r)
         \/ UNCHANGED <<conn, brokerVars, c2s, s2c, serverVars, sent, histVars>>
  PROVE  OnWire(g)
<1>1. PICK k \in Conns : \E m \in 1..Len(s2c'[k]) : s2c'[k][m] = g
  BY DEF OnWire
<1>2. PICK m \in 1..Len(s2c'[k]) : s2c'[k][m] = g
  BY <1>1
<1>3. Len(s2c[k]) \in Nat /\ Len(s2c'[k]) \in Nat
  BY WireLens
<1>4. CASE s2c'[k] = s2c[k]
  BY <1>2, <1>4 DEF OnWire
<1>5. CASE \E c \in Conns : Observe(c)
  <2>1. PICK c \in Conns : Observe(c)
    BY <1>5
  <2>2. Shifted(s2c'[c], s2c[c]) /\ \A d \in Conns : d # c => s2c'[d] = s2c[d]
    BY <2>1, ObserveMakes
  <2>3. CASE k # c
    BY <1>4, <2>2, <2>3
  <2>4. CASE k = c
    <3>1. m + 1 \in 1..Len(s2c[k]) /\ s2c'[k][m] = s2c[k][m + 1]
      BY <1>3, <2>2, <2>4 DEF Shifted
    <3> QED BY <1>2, <3>1 DEF OnWire
  <2> QED BY <2>3, <2>4
<1>6. CASE \E c \in Conns : Close(c)
  <2>1. PICK c \in Conns : Close(c)
    BY <1>6
  <2>2. s2c'[c] = <<>> /\ \A d \in Conns : d # c => s2c'[d] = s2c[d]
    BY <2>1 DEF Close, TypeOK
  <2>3. k # c
    <3>1. Len(<<>>) = 0 /\ 1..0 = {}
      OBVIOUS
    <3> QED BY <2>2, <3>1
  <2> QED BY <1>4, <2>2, <2>3
<1>7. CASE \/ \E c \in Conns : Connect(c)
           \/ \E c \in Conns, r \in Request : Sends(c, r)
           \/ UNCHANGED <<conn, brokerVars, c2s, s2c, serverVars, sent, histVars>>
  <2>1. s2c' = s2c
    BY <1>7 DEF Connect, Sends
  <2> QED BY <1>4, <2>1
<1> QED BY <1>5, <1>6, <1>7

\* A frame that is on a wire after the wires have grown was there before, or is new.
LEMMA GrownFrame ==
  ASSUME TypeOK, [Next]_vars, NEW g, OnWire(g)', \A d \in Conns : Longer(s2c'[d], s2c[d])
  PROVE  OnWire(g) \/ \E k \in Conns : \E m \in 1..Len(s2c'[k]) : m > Len(s2c[k]) /\ s2c'[k][m] = g
<1>1. PICK k \in Conns : \E m \in 1..Len(s2c'[k]) : s2c'[k][m] = g
  BY DEF OnWire
<1>2. PICK m \in 1..Len(s2c'[k]) : s2c'[k][m] = g
  BY <1>1
<1>3. Len(s2c[k]) \in Nat /\ Len(s2c'[k]) \in Nat
  BY WireLens
<1>4. ASSUME m <= Len(s2c[k]) PROVE OnWire(g)
  <2>1. m \in 1..Len(s2c[k]) /\ s2c'[k][m] = s2c[k][m]
    BY <1>3, <1>4 DEF Longer
  <2> QED BY <1>2, <2>1 DEF OnWire
<1> QED BY <1>2, <1>3, <1>4

\* The one frame an answer puts there.
Only(c, f) ==
  /\ \A k \in Conns : Longer(s2c'[k], s2c[k])
  /\ \A k \in Conns : \A m \in 1..Len(s2c'[k]) : m <= Len(s2c[k]) \/ (k = c /\ s2c'[k][m] = f)

\* It is the only new one.
LEMMA ReplyFrame ==
  ASSUME TypeOK, [Next]_vars, NEW g, OnWire(g)', NEW c \in Conns, NEW f, Only(c, f)
  PROVE  OnWire(g) \/ g = f
<1>1. \A d \in Conns : Len(s2c[d]) \in Nat
  BY WireLens
<1>2. \A d \in Conns : \A n \in 1..Len(s2c'[d]) : n > Len(s2c[d]) => s2c'[d][n] = f
  BY <1>1 DEF Only
<1>3. \A d \in Conns : Longer(s2c'[d], s2c[d])
  BY DEF Only
<1> QED BY <1>2, <1>3, GrownFrame

\* The frames the start and the end of a turn put there.
LEMMA NewFrame ==
  ASSUME TypeOK, [Next]_vars, NEW g, OnWire(g)'
  PROVE  /\ \A c \in Conns, t \in Threads : \A f : Starts(c, t, f) =>
              OnWire(g) \/ g = f \/ g = Frame("started", t, minted[t] + 1, NoId)
         /\ \A t \in Threads : ServerCompletes(t) => OnWire(g) \/ g = Frame("completed", t, srv[t], NoId)
<1>1. \A d \in Conns : Len(s2c[d]) \in Nat
  BY WireLens
<1>2. ASSUME NEW c \in Conns, NEW t \in Threads, NEW f, Starts(c, t, f)
      PROVE  OnWire(g) \/ g = f \/ g = Frame("started", t, minted[t] + 1, NoId)
  <2>1. \A d \in Conns : Longer(s2c'[d], s2c[d])
    BY <1>2 DEF Starts, Serves
  <2>2. \A k \in Conns : \A m \in 1..Len(s2c'[k]) : m > Len(s2c[k]) =>
          s2c'[k][m] = f \/ s2c'[k][m] = Frame("started", t, minted[t] + 1, NoId)
    BY <1>1, <1>2 DEF Starts
  <2> QED BY <2>1, <2>2, GrownFrame
<1>3. ASSUME NEW t \in Threads, ServerCompletes(t)
      PROVE  OnWire(g) \/ g = Frame("completed", t, srv[t], NoId)
  <2>1. \A d \in Conns : Longer(s2c'[d], s2c[d])
    BY <1>3, CompletesMake
  <2>2. \A k \in Conns : \A m \in 1..Len(s2c'[k]) :
          m <= Len(s2c[k]) \/ s2c'[k][m] = Frame("completed", t, srv[t], NoId)
    BY <1>3, CompletesMake
  <2>3. \A k \in Conns : \A m \in 1..Len(s2c'[k]) :
          m > Len(s2c[k]) => s2c'[k][m] = Frame("completed", t, srv[t], NoId)
    BY <1>1, <2>2
  <2> QED BY <2>1, <2>3, GrownFrame
<1> QED BY <1>2, <1>3

\* A turn that was started and is not the one running.
Past(t, u) == u <= minted[t] /\ u # srv[t]

\* No mark, frame or memory is of a turn not started; what was heard to end has ended.
TurnInv ==
  /\ \A t \in Threads : srv[t] \in {NoTurn, minted[t]} /\ running[t] <= minted[t]
  /\ \A g \in Wire : OnWire(g) => /\ g.thread \in Threads => g.turn <= minted[g.thread]
                                  /\ g.kind = "completed" => Past(g.thread, g.turn)
  /\ \A tu \in heard : Past(tu[1], tu[2])
  /\ Seen \subseteq heard

\* A turn some frame on its way names.
Queueing(t, u) == \E g \in Wire : OnWire(g) /\ g.thread = t /\ g.turn = u

\* What the observation of f does to the marks, the memory of terminals and the history.
Recalled(f) ==
  /\ \A t \in Threads : \/ running'[t] \in {running[t], NoTurn}
                        \/ /\ t = f.thread /\ running'[t] = f.turn /\ f.kind = "started"
                           /\ <<f.thread, f.turn>> \notin Seen
  /\ f.kind # "completed" => Seen' = Seen /\ heard' = heard /\ overrun' = overrun
  /\ f.kind = "completed" =>
       /\ <<f.thread, f.turn>> \in Seen' /\ Seen' \subseteq Seen \cup {<<f.thread, f.turn>>}
       /\ heard' = heard \cup {<<f.thread, f.turn>>} /\ running'[f.thread] # f.turn
       /\ overrun => overrun'
       /\ ~overrun' => \A tu \in Seen \ Seen' : ~Queueing(tu[1], tu[2])'

\* A frame queued after the step, in the two ways of saying so.
LEMMA QueuedForms ==
  ASSUME TypeOK, [Next]_vars, NEW tu
  PROVE  Queued(tu) <=> Queueing(tu[1], tu[2])'
<1>1. \A c \in Conns : DOMAIN s2c'[c] = 1..Len(s2c'[c]) /\ \A m \in 1..Len(s2c'[c]) : s2c'[c][m] \in Wire
  <2>1. TypeOK'
    BY TypeStep
  <2>2. \A c \in Conns : s2c'[c] \in Seq(Notice \cup Response)
    BY <2>1 DEF TypeOK
  <2> QED BY <2>2 DEF Wire
<1>2. ASSUME Queued(tu) PROVE Queueing(tu[1], tu[2])'
  <2>1. PICK c \in Conns : \E k \in 1..Len(s2c'[c]) : s2c'[c][k].turn = tu[2] /\ s2c'[c][k].thread = tu[1]
    BY <1>1, <1>2 DEF Queued
  <2>2. PICK k \in 1..Len(s2c'[c]) : s2c'[c][k].turn = tu[2] /\ s2c'[c][k].thread = tu[1]
    BY <2>1
  <2>3. PICK g : g = s2c'[c][k]
    OBVIOUS
  <2>4. g \in Wire /\ OnWire(g)' /\ g.thread = tu[1] /\ g.turn = tu[2]
    BY <1>1, <2>2, <2>3 DEF OnWire
  <2> QED BY <2>4 DEF Queueing
<1>3. ASSUME Queueing(tu[1], tu[2])' PROVE Queued(tu)
  <2>1. PICK g \in Wire : OnWire(g)' /\ g.thread = tu[1] /\ g.turn = tu[2]
    BY <1>3 DEF Queueing
  <2> QED BY <1>1, <2>1 DEF Queued, OnWire
<1> QED BY <1>2, <1>3

\* Observing a frame does that.
LEMMA ObserveRecalls ==
  ASSUME TypeOK, [Next]_vars, EndedStaysEnded, NEW c \in Conns, Observe(c), NEW f, f = s2c[c][1]
  PROVE  Recalled(f) /\ f \in Wire /\ OnWire(f)
<1>0. f \in Wire /\ Head(s2c[c]) = f /\ running \in [Threads -> Turns \cup {NoTurn}]
  BY ObserveMakes DEF TypeOK
<1>1. OnWire(f)
  <2>1. Shifted(s2c'[c], s2c[c]) /\ Len(s2c[c]) \in Nat
    BY ObserveMakes, WireLens
  <2>2. 1 \in 1..Len(s2c[c])
    BY <2>1 DEF Shifted
  <2> QED BY <2>2 DEF OnWire
<1>2. \/ f.kind = "started" /\ Started(f.thread, f.turn) /\ UNCHANGED <<heard, overrun>>
      \/ /\ f.kind = "completed" /\ Terminal(f.thread, f.turn) /\ heard' = heard \cup {<<f.thread, f.turn>>}
         /\ overrun' = (overrun \/ \E tu \in Seen : tu \notin Seen' /\ Queued(tu))
      \/ f.kind \in {"result", "error"} /\ UNCHANGED <<running, cleared, heard, overrun>>
  BY <1>0 DEF Observe, histVars
<1>3. f.kind \in {"started", "completed"} => f.thread \in Threads /\ f.turn \in Turns
  BY <1>0, FrameForms
<1>4. CASE f.kind = "started" /\ Started(f.thread, f.turn) /\ UNCHANGED <<heard, overrun>>
  <2>1. Seen' = Seen
    BY <1>4 DEF Started, Seen
  <2>2. CASE <<f.thread, f.turn>> \in Seen
    BY <1>0, <1>1, <1>4, <2>1, <2>2 DEF Started, Recalled
  <2>3. CASE <<f.thread, f.turn>> \notin Seen
    <3>1. running'[f.thread] = f.turn
      BY <1>3, <1>4, <2>3 DEF Started
    <3>2. \A t \in Threads : t # f.thread => running'[t] \in {running[t], NoTurn}
      BY <1>3, <1>4, <2>3 DEF Started
    <3>3. \A t \in Threads : \/ running'[t] \in {running[t], NoTurn}
                             \/ /\ t = f.thread /\ running'[t] = f.turn /\ f.kind = "started"
                                /\ <<f.thread, f.turn>> \notin Seen
      BY <1>4, <2>3, <3>1, <3>2
    <3>4. f.kind # "completed" /\ heard' = heard /\ overrun' = overrun
      BY <1>4
    <3> QED BY <1>0, <1>1, <2>1, <3>3, <3>4 DEF Recalled
  <2> QED BY <1>0, <1>1, <2>2, <2>3
<1>5. CASE /\ f.kind = "completed" /\ Terminal(f.thread, f.turn) /\ heard' = heard \cup {<<f.thread, f.turn>>}
           /\ overrun' = (overrun \/ \E tu \in Seen : tu \notin Seen' /\ Queued(tu))
  <2>1. (overrun => overrun') /\ (~overrun' => \A tu \in Seen \ Seen' : ~Queued(tu))
    BY <1>5, Zenon
  <2>2. ~overrun' => \A tu \in Seen \ Seen' : ~Queueing(tu[1], tu[2])'
    BY <2>1, QueuedForms
  <2>3. PICK x : x = <<f.thread, f.turn>>
    OBVIOUS
  <2>4. x \in Threads \X Turns
    BY <1>3, <1>5, <2>3
  <2>5. /\ x \in Seen' /\ Seen' \subseteq Seen \cup {x} /\ running'[f.thread] # f.turn
        /\ \A t \in Threads : running'[t] \in {running[t], NoTurn}
    <3>1. CASE x \in Seen
      <4>1. UNCHANGED <<running, cleared>>
        BY <1>5, <2>3, <3>1 DEF Terminal
      <4>2. ~IsActive(f.thread, f.turn)
        <5>1. ~IsActive(x[1], x[2])
          BY <3>1 DEF EndedStaysEnded
        <5> QED BY <2>3, <5>1
      <4>3. Seen' = Seen
        BY <4>1 DEF Seen
      <4> QED BY <3>1, <4>1, <4>2, <4>3 DEF IsActive
    <3>2. CASE x \notin Seen
      <4>1. /\ cleared' = Remember(x)
            /\ running' = [running EXCEPT ![f.thread] = IF @ = f.turn THEN NoTurn ELSE @]
        BY <1>5, <2>3, <3>2 DEF Terminal
      <4>2. Seen' \subseteq Seen \cup {x}
        <5>1. {Remember(x)[k] : k \in DOMAIN Remember(x)} \subseteq Seen \cup {x}
          BY <2>4, RememberForms
        <5>2. Seen' = {cleared'[k] : k \in DOMAIN cleared'}
          BY DEF Seen
        <5> QED BY <4>1, <5>1, <5>2
      <4>3. x \in Seen'
        <5>1. cleared \in Seq(Threads \X Turns) /\ MaxCleared \in Nat \ {0}
          BY DEF TypeOK
        <5>2. PICK q : q = (IF Len(cleared) >= MaxCleared THEN Tail(cleared) ELSE cleared)
          OBVIOUS
        <5>3. q \in Seq(Threads \X Turns) /\ cleared' = Append(q, x)
          BY <4>1, <5>1, <5>2 DEF Remember
        <5>4. Len(q) + 1 \in DOMAIN cleared' /\ cleared'[Len(q) + 1] = x
          BY <2>4, <5>3
        <5> QED BY <5>4 DEF Seen
      <4>4. running'[f.thread] # f.turn /\ \A t \in Threads : running'[t] \in {running[t], NoTurn}
        BY <1>0, <1>3, <1>5, <4>1
      <4> QED BY <4>2, <4>3, <4>4
    <3> QED BY <3>1, <3>2
  <2> QED BY <1>0, <1>1, <1>5, <2>1, <2>2, <2>3, <2>5 DEF Recalled
<1>6. CASE f.kind \in {"result", "error"} /\ UNCHANGED <<running, cleared, heard, overrun>>
  BY <1>0, <1>1, <1>6 DEF Recalled, Seen
<1> QED BY <1>2, <1>4, <1>5, <1>6

\* Every step keeps the turns in order.
LEMMA TurnStep ==
  ASSUME TypeOK, FlightInv, EndedStaysEnded, TurnInv, [Next]_vars
  PROVE  TurnInv'
<1>0. /\ srv \in [Threads -> Turns \cup {NoTurn}] /\ minted \in [Threads -> Turns \cup {0}]
      /\ running \in [Threads -> Turns \cup {NoTurn}] /\ heard \subseteq Threads \X Turns
  BY DEF TypeOK
<1>1. ASSUME UNCHANGED <<srv, minted>>, \A g : OnWire(g)' => OnWire(g)
      PROVE  \A g \in Wire : OnWire(g)' => /\ g.thread \in Threads => g.turn <= minted'[g.thread]
                                           /\ g.kind = "completed" => Past(g.thread, g.turn)'
  BY <1>1 DEF TurnInv, Past
<1>2. ASSUME UNCHANGED <<srv, minted, running, heard, cleared>>, \A g : OnWire(g)' => OnWire(g)
      PROVE  TurnInv'
  <2>1. Seen' = Seen
    BY <1>2 DEF Seen
  <2>2. \A tu \in heard' : Past(tu[1], tu[2])'
    BY <1>2 DEF TurnInv, Past
  <2>3. \A t \in Threads : srv'[t] \in {NoTurn, minted'[t]} /\ running'[t] <= minted'[t]
    BY <1>2 DEF TurnInv
  <2>4. Seen' \subseteq heard'
    BY <1>2, <2>1 DEF TurnInv
  <2> QED BY <1>1, <1>2, <2>2, <2>3, <2>4 DEF TurnInv
<1>3. CASE \/ \E c \in Conns : Connect(c) \/ Close(c)
           \/ \E c \in Conns, r \in Request : Sends(c, r)
           \/ UNCHANGED <<conn, brokerVars, c2s, s2c, serverVars, sent, histVars>>
  <2>1. UNCHANGED <<srv, minted, running, heard, cleared>>
    BY <1>3 DEF Connect, Close, Sends, brokerVars, serverVars, histVars
  <2>2. \A g : OnWire(g)' => OnWire(g)
    BY <1>3, NoNewFrame
  <2> QED BY <1>2, <2>1, <2>2
<1>4. ASSUME NEW c \in Conns, Observe(c) PROVE TurnInv'
  <2>1. PICK f : f = s2c[c][1]
    OBVIOUS
  <2>2. Recalled(f) /\ f \in Wire /\ OnWire(f) /\ UNCHANGED <<srv, minted>>
    BY <1>4, <2>1, ObserveRecalls, ObserveMakes
  <2>3. \A g : OnWire(g)' => OnWire(g)
    BY <1>4, NoNewFrame
  <2>4. /\ f.thread \in Threads => f.turn <= minted[f.thread]
        /\ f.kind = "completed" => Past(f.thread, f.turn)
    BY <2>2 DEF TurnInv
  <2>5. \A t \in Threads : srv'[t] \in {NoTurn, minted'[t]} /\ running'[t] <= minted'[t]
    <3> SUFFICES ASSUME NEW t \in Threads PROVE srv[t] \in {NoTurn, minted[t]} /\ running'[t] <= minted[t]
      BY <2>2
    <3>1. minted[t] \in Nat /\ 0 <= minted[t] /\ srv[t] \in {NoTurn, minted[t]} /\ running[t] <= minted[t]
      BY <1>0 DEF TurnInv
    <3>2. running'[t] \in {running[t], NoTurn} \/ (t = f.thread /\ running'[t] = f.turn)
      BY <2>2 DEF Recalled
    <3> QED BY <2>4, <3>1, <3>2
  <2>6. \A tu \in heard' : Past(tu[1], tu[2])'
    <3> SUFFICES ASSUME NEW tu \in heard' PROVE Past(tu[1], tu[2])
      BY <2>2 DEF Past
    <3>1. CASE tu \in heard
      BY <3>1 DEF TurnInv
    <3>2. CASE f.kind = "completed" /\ tu = <<f.thread, f.turn>>
      BY <2>4, <3>2
    <3> QED BY <2>2, <3>1, <3>2 DEF Recalled
  <2>7. Seen' \subseteq heard'
    BY <2>2 DEF Recalled, TurnInv
  <2> QED BY <1>1, <2>2, <2>3, <2>5, <2>6, <2>7 DEF TurnInv
<1>5. ASSUME NEW c \in Conns, NEW f \in Response, Replies(c, f),
             f.thread \in Threads => f.turn = srv[f.thread],
             \A k \in Conns : \A m \in 1..Len(s2c'[k]) : m <= Len(s2c[k]) \/ (k = c /\ s2c'[k][m] = f)
      PROVE  TurnInv'
  <2>1. UNCHANGED <<srv, minted, running, heard, cleared>> /\ \A k \in Conns : Longer(s2c'[k], s2c[k])
    BY <1>5 DEF Replies, Serves, brokerVars
  <2>2. ASSUME NEW g, OnWire(g)' PROVE OnWire(g) \/ g = f
    <3>1. Only(c, f)
      BY <1>5, <2>1 DEF Only
    <3> QED BY <2>2, <3>1, ReplyFrame
  <2>3. f.kind # "completed" /\ (f.thread \in Threads => f.turn <= minted[f.thread])
    <3>1. f.kind # "completed"
      BY DEF Response
    <3>2. \A t \in Threads : srv[t] <= minted[t]
      BY <1>0 DEF TurnInv
    <3> QED BY <1>5, <3>1, <3>2
  <2>4. \A g \in Wire : OnWire(g)' => /\ g.thread \in Threads => g.turn <= minted'[g.thread]
                                      /\ g.kind = "completed" => Past(g.thread, g.turn)'
    BY <2>1, <2>2, <2>3 DEF TurnInv, Past
  <2>5. Seen' = Seen
    BY <2>1 DEF Seen
  <2>6. \A tu \in heard' : Past(tu[1], tu[2])'
    BY <2>1 DEF TurnInv, Past
  <2>7. \A t \in Threads : srv'[t] \in {NoTurn, minted'[t]} /\ running'[t] <= minted'[t]
    BY <2>1 DEF TurnInv
  <2>8. Seen' \subseteq heard'
    BY <2>1, <2>5 DEF TurnInv
  <2> QED BY <2>4, <2>6, <2>7, <2>8 DEF TurnInv
<1>6. ASSUME NEW c \in Conns, NEW t \in Threads, NEW f \in Response, Starts(c, t, f) PROVE TurnInv'
  <2>1. /\ srv[t] = NoTurn /\ f.thread = t /\ f.turn \in {minted[t] + 1, NoTurn}
        /\ srv' = [srv EXCEPT ![t] = minted[t] + 1] /\ minted' = [minted EXCEPT ![t] = minted[t] + 1]
        /\ UNCHANGED <<running, heard, cleared>>
    BY <1>6 DEF Starts, Serves, brokerVars
  <2>2. PICK n : n = Frame("started", t, minted[t] + 1, NoId)
    OBVIOUS
  <2>3. n.thread = t /\ n.turn = minted[t] + 1 /\ n.kind = "started" /\ f.kind # "completed"
    BY <2>2 DEF Frame, Response
  <2>4. \A g : OnWire(g)' => OnWire(g) \/ g = f \/ g = n
    BY <1>6, <2>2, NewFrame
  <2>5. \A s \in Threads : s # t => srv'[s] = srv[s] /\ minted'[s] = minted[s]
    BY <1>0, <2>1
  <2>6. srv'[t] = minted[t] + 1 /\ minted'[t] = minted[t] + 1 /\ minted[t] \in Nat
    BY <1>0, <2>1
  <2>7. ASSUME NEW s \in Threads, NEW u \in Turns, Past(s, u) PROVE Past(s, u)'
    <3>1. CASE s = t
      BY <2>6, <2>7, <3>1 DEF Past
    <3>2. CASE s # t
      BY <2>5, <2>7, <3>2 DEF Past
    <3> QED BY <3>1, <3>2
  <2>8. ASSUME NEW g \in Wire, OnWire(g)'
        PROVE  /\ g.thread \in Threads => g.turn <= minted'[g.thread]
               /\ g.kind = "completed" => Past(g.thread, g.turn)'
    <3>1. CASE OnWire(g)
      <4>1. /\ g.thread \in Threads => g.turn <= minted[g.thread]
            /\ g.kind = "completed" => Past(g.thread, g.turn)
        BY <3>1 DEF TurnInv
      <4>2. g.kind = "completed" => g.thread \in Threads /\ g.turn \in Turns
        BY FrameForms
      <4>3. g.turn \in Turns \cup {NoTurn}
        BY FrameForms
      <4>4. g.thread \in Threads => g.turn <= minted'[g.thread]
        <5>1. CASE g.thread = t
          BY <2>6, <4>1, <4>3, <5>1
        <5>2. CASE g.thread # t
          BY <2>5, <4>1, <5>2
        <5> QED BY <5>1, <5>2
      <4> QED BY <2>7, <4>1, <4>2, <4>4
    <3>2. CASE g = f
      BY <2>1, <2>3, <2>6, <3>2
    <3>3. CASE g = n
      BY <2>3, <2>6, <3>3
    <3> QED BY <2>4, <2>8, <3>1, <3>2, <3>3
  <2>9. \A s \in Threads : srv'[s] \in {NoTurn, minted'[s]} /\ running'[s] <= minted'[s]
    <3> SUFFICES ASSUME NEW s \in Threads PROVE srv'[s] \in {NoTurn, minted'[s]} /\ running[s] <= minted'[s]
      BY <2>1
    <3>1. srv[s] \in {NoTurn, minted[s]} /\ running[s] <= minted[s] /\ running[s] \in Nat
      BY <1>0 DEF TurnInv
    <3>2. CASE s = t
      BY <2>6, <3>1, <3>2
    <3>3. CASE s # t
      BY <2>5, <3>1, <3>3
    <3> QED BY <3>2, <3>3
  <2>10. \A tu \in heard' : Past(tu[1], tu[2])'
    <3> SUFFICES ASSUME NEW tu \in heard PROVE Past(tu[1], tu[2])'
      BY <2>1
    <3>1. tu[1] \in Threads /\ tu[2] \in Turns /\ Past(tu[1], tu[2])
      BY <1>0 DEF TurnInv
    <3> QED BY <2>7, <3>1
  <2>11. Seen' \subseteq heard'
    BY <2>1 DEF Seen, TurnInv
  <2> QED BY <2>8, <2>9, <2>10, <2>11 DEF TurnInv
<1>7. ASSUME NEW t \in Threads, ServerCompletes(t) PROVE TurnInv'
  <2>1. PICK f : f = Frame("completed", t, srv[t], NoId)
    OBVIOUS
  <2>2. /\ f.thread = t /\ f.turn = srv[t] /\ srv[t] # NoTurn /\ srv' = [srv EXCEPT ![t] = NoTurn]
        /\ UNCHANGED <<minted, running, heard, cleared>>
    BY <1>7, <2>1, CompletesMake DEF brokerVars, histVars
  <2>3. \A g : OnWire(g)' => OnWire(g) \/ g = f
    BY <1>7, <2>1, NewFrame
  <2>4. srv'[t] = NoTurn /\ srv[t] \in Turns /\ \A s \in Threads : s # t => srv'[s] = srv[s]
    BY <1>0, <2>2
  <2>5. ASSUME NEW s \in Threads, NEW u \in Turns, Past(s, u) PROVE Past(s, u)'
    <3>1. CASE s = t
      BY <2>2, <2>4, <2>5, <3>1 DEF Past
    <3>2. CASE s # t
      BY <2>2, <2>4, <2>5, <3>2 DEF Past
    <3> QED BY <3>1, <3>2
  <2>6. f.turn <= minted[t] /\ Past(t, f.turn)'
    <3>1. srv[t] = minted[t] /\ minted[t] \in Nat
      BY <1>0, <2>2 DEF TurnInv
    <3> QED BY <2>2, <2>4, <3>1 DEF Past
  <2>7. ASSUME NEW g \in Wire, OnWire(g)'
        PROVE  /\ g.thread \in Threads => g.turn <= minted'[g.thread]
               /\ g.kind = "completed" => Past(g.thread, g.turn)'
    <3>1. CASE OnWire(g)
      <4>1. /\ g.thread \in Threads => g.turn <= minted[g.thread]
            /\ g.kind = "completed" => Past(g.thread, g.turn)
        BY <3>1 DEF TurnInv
      <4>2. g.kind = "completed" => g.thread \in Threads /\ g.turn \in Turns
        BY FrameForms
      <4> QED BY <2>2, <2>5, <4>1, <4>2
    <3>2. CASE g = f
      <4>1. g.thread = t /\ g.turn <= minted'[t]
        BY <2>2, <2>6, <3>2
      <4>2. Past(g.thread, g.turn)'
        BY <2>2, <2>4, <2>6, <3>2 DEF Past
      <4> QED BY <4>1, <4>2
    <3> QED BY <2>3, <2>7, <3>1, <3>2
  <2>8. \A s \in Threads : srv'[s] \in {NoTurn, minted'[s]} /\ running'[s] <= minted'[s]
    BY <2>2, <2>4 DEF TurnInv
  <2>9. \A tu \in heard' : Past(tu[1], tu[2])'
    <3> SUFFICES ASSUME NEW tu \in heard PROVE Past(tu[1], tu[2])'
      BY <2>2
    <3>1. tu[1] \in Threads /\ tu[2] \in Turns /\ Past(tu[1], tu[2])
      BY <1>0 DEF TurnInv
    <3> QED BY <2>5, <3>1
  <2>10. Seen' \subseteq heard'
    BY <2>2 DEF Seen, TurnInv
  <2> QED BY <2>7, <2>8, <2>9, <2>10 DEF TurnInv
<1> QED BY <1>3, <1>4, <1>5, <1>6, <1>7, StepCases

-----------------------------------------------------------------------------
(* What an entry of the table stands for.                                  *)

\* The request under this id, or its answer, is on its way.
Awaited(c, i) ==
  \/ \E k \in 1..Len(c2s[c]) : c2s[c][k].id = i
  \/ \E k \in 1..Len(s2c[c]) : s2c[c][k].id = i

EntryOK(c, i) ==
  \/ admitted[c][i] = NoEntry
  \/ \E t \in Threads : \E u \in 0..minted[t] : admitted[c][i] = Answered(t, u)
  \/ conn[c] = "open" /\ Awaited(c, i) /\ \E t \in Threads : admitted[c][i] = Unanswered(t)

EntryInv == \A c \in Conns, i \in Ids : EntryOK(c, i)

\* An answer on its way stays on its way while frames are added.
LEMMA AwaitedGrows ==
  ASSUME TypeOK, NEW k \in Conns, NEW i \in Ids, Awaited(k, i),
         Longer(s2c'[k], s2c[k]) \/ s2c'[k] = s2c[k], Longer(c2s'[k], c2s[k]) \/ c2s'[k] = c2s[k],
         Len(s2c'[k]) \in Nat, Len(c2s'[k]) \in Nat
  PROVE  Awaited(k, i)'
<1>1. Len(c2s[k]) \in Nat /\ Len(s2c[k]) \in Nat
  BY WireForms
<1>2. /\ \A j \in 1..Len(c2s[k]) : j \in 1..Len(c2s'[k]) /\ c2s'[k][j] = c2s[k][j]
      /\ \A j \in 1..Len(s2c[k]) : j \in 1..Len(s2c'[k]) /\ s2c'[k][j] = s2c[k][j]
  BY <1>1 DEF Longer
<1> QED BY <1>2 DEF Awaited

\* The forms of an entry, told apart.
LEMMA EntryKinds ==
  ASSUME NEW t, NEW u
  PROVE  /\ NoEntry.st = "none" /\ NoEntry.thread = NoThread
         /\ Unanswered(t).st = "unanswered" /\ Unanswered(t).thread = t
         /\ Answered(t, u).st = "answered" /\ Answered(t, u).thread = t /\ Answered(t, u).turn = u
BY DEF NoEntry, Unanswered, Answered

\* Every step keeps the table in order.
LEMMA EntryStep ==
  ASSUME TypeOK, FlightInv, StartInv, EndedStaysEnded, TurnInv, EntryInv, [Next]_vars
  PROVE  EntryInv'
<1> SUFFICES ASSUME NEW k \in Conns, NEW i \in Ids PROVE EntryOK(k, i)'
  BY DEF EntryInv
<1>0. EntryOK(k, i) /\ Flight(k) /\ StartOK(k)
  BY DEF EntryInv, FlightInv, StartInv
<1>1. /\ Len(c2s[k]) \in Nat /\ Len(s2c[k]) \in Nat /\ Len(s2c'[k]) \in Nat /\ Len(c2s'[k]) \in Nat
      /\ \A j \in 1..Len(s2c[k]) : s2c[k][j] \in Wire
  BY WireLens
<1>2. admitted \in [Conns -> [Ids -> Entry]] /\ minted \in [Threads -> Turns \cup {0}]
  BY DEF TypeOK
<1>3. \A t \in Threads, u \in Nat : u \in 0..minted[t] => u \in 0..minted'[t]
  <2>1. CASE UNCHANGED minted
    BY <2>1
  <2>2. CASE \E c \in Conns, t \in Threads, f \in Response : Starts(c, t, f)
    <3>1. PICK t \in Threads : minted' = [minted EXCEPT ![t] = minted[t] + 1]
      BY <2>2 DEF Starts
    <3>2. \A s \in Threads : minted'[s] = minted[s] \/ minted'[s] = minted[s] + 1
      BY <1>2, <3>1
    <3>3. \A s \in Threads : minted[s] \in Nat
      BY <1>2
    <3> QED BY <3>2, <3>3
  <2> QED BY <2>1, <2>2, StepCases, CompletesMake, ObserveMakes DEF Connect, Close, Sends, Replies, serverVars
<1>4. ASSUME admitted'[k][i] = admitted[k][i], conn[k] = "open" => conn'[k] = "open",
             conn[k] = "open" /\ Awaited(k, i) => Awaited(k, i)'
      PROVE  EntryOK(k, i)'
  <2>1. CASE admitted[k][i] = NoEntry
    BY <1>4, <2>1 DEF EntryOK
  <2>2. CASE \E t \in Threads : \E u \in 0..minted[t] : admitted[k][i] = Answered(t, u)
    BY <1>3, <1>4, <2>2 DEF EntryOK
  <2>3. CASE conn[k] = "open" /\ Awaited(k, i) /\ \E t \in Threads : admitted[k][i] = Unanswered(t)
    BY <1>4, <2>3 DEF EntryOK
  <2> QED BY <1>0, <2>1, <2>2, <2>3 DEF EntryOK
<1>5. ASSUME NEW c \in Conns, Connect(c) PROVE EntryOK(k, i)'
  <2>1. UNCHANGED <<admitted, c2s, s2c>> /\ (conn[k] = "open" => conn'[k] = "open")
    BY <1>5 DEF Connect, TypeOK, brokerVars
  <2> QED BY <1>1, <1>4, <2>1, AwaitedGrows
<1>6. ASSUME NEW c \in Conns, Close(c) PROVE EntryOK(k, i)'
  <2>1. CASE k # c
    <3>1. /\ admitted'[k] = admitted[k] /\ s2c'[k] = s2c[k] /\ conn'[k] = conn[k] /\ c2s' = c2s
      BY <1>6, <2>1 DEF Close, TypeOK
    <3> QED BY <1>1, <1>4, <3>1, AwaitedGrows
  <2>2. CASE k = c
    <3>1. admitted'[k][i] = IF Survives(admitted[k][i]) THEN admitted[k][i] ELSE NoEntry
      BY <1>2, <1>6, <2>2 DEF Close
    <3>2. CASE \E t \in Threads : \E u \in 0..minted[t] : admitted[k][i] = Answered(t, u)
      <4>1. admitted'[k][i] = admitted[k][i]
        BY <3>1, <3>2, EntryKinds DEF Survives
      <4> QED BY <1>3, <3>2, <4>1 DEF EntryOK
    <3>3. CASE admitted[k][i] = NoEntry \/ \E t \in Threads : admitted[k][i] = Unanswered(t)
      <4>1. admitted'[k][i] = NoEntry
        BY <3>1, <3>3, EntryKinds DEF Survives
      <4> QED BY <4>1 DEF EntryOK
    <3> QED BY <1>0, <3>2, <3>3 DEF EntryOK
  <2> QED BY <2>1, <2>2
<1>7. ASSUME NEW c \in Conns, Observe(c) PROVE EntryOK(k, i)'
  <2>0. PICK f : f = s2c[c][1]
    OBVIOUS
  <2>1. /\ Shifted(s2c'[c], s2c[c]) /\ UNCHANGED <<conn, c2s, minted>>
        /\ \A d \in Conns : d # c => s2c'[d] = s2c[d]
    BY <1>7, ObserveMakes
  <2>2. Noted(c, f, k, i) /\ OnWire(f) /\ f \in Wire
    BY <1>7, <2>0, ObserveEntries, ObserveRecalls
  <2>3. CASE admitted[k][i] = NoEntry
    <3>1. admitted'[k][i] = NoEntry
      BY <2>2, <2>3, EntryKinds DEF Noted
    <3> QED BY <3>1 DEF EntryOK
  <2>4. CASE \E t \in Threads : \E u \in 0..minted[t] : admitted[k][i] = Answered(t, u)
    <3>1. admitted'[k][i] = admitted[k][i] \/ admitted'[k][i] = NoEntry
      BY <2>2, <2>4, EntryKinds DEF Noted
    <3> QED BY <1>3, <2>4, <3>1 DEF EntryOK
  <2>5. ASSUME NEW t \in Threads, admitted[k][i] = Unanswered(t), conn[k] = "open", Awaited(k, i) PROVE EntryOK(k, i)'
    <3>1. CASE k = c /\ i = f.id
      <4>1. admitted'[k][i] = NoEntry \/ admitted'[k][i] = Answered(t, f.turn)
        BY <2>2, <2>5, <3>1, EntryKinds DEF Noted
      <4>2. f.turn \in 0..minted[t]
        <5>1. 1 \in 1..Len(s2c[k])
          BY <1>1, <2>1, <3>1 DEF Shifted
        <5>2. \/ f.thread = NoThread /\ f.turn = NoTurn
              \/ Unanswered(t) = Unanswered(f.thread)
          BY <1>0, <2>0, <2>5, <3>1, <5>1 DEF StartOK
        <5>3. f.thread = t => f.turn <= minted[t]
          BY <2>2 DEF TurnInv
        <5>4. f.turn \in Turns \cup {NoTurn} /\ minted[t] \in Nat
          BY <1>2, <2>2, FrameForms
        <5>5. CASE f.turn = NoTurn
          BY <5>4, <5>5
        <5>6. CASE Unanswered(t) = Unanswered(f.thread)
          <6>1. f.thread = t
            BY <5>6, EntryKinds
          <6> QED BY <5>3, <5>4, <6>1
        <5> QED BY <5>2, <5>5, <5>6
      <4>3. CASE admitted'[k][i] = Answered(t, f.turn)
        BY <2>1, <4>2, <4>3 DEF EntryOK
      <4> QED BY <4>1, <4>3 DEF EntryOK
    <3>2. CASE ~(k = c /\ i = f.id)
      <4>1. admitted'[k][i] = admitted[k][i]
        BY <2>2, <2>5, <3>2, EntryKinds DEF Noted
      <4>2. Awaited(k, i)'
        <5>1. CASE k # c
          BY <1>1, <2>1, <2>5, <5>1, AwaitedGrows
        <5>2. CASE k = c
          <6>1. CASE \E j \in 1..Len(c2s[k]) : c2s[k][j].id = i
            BY <2>1, <6>1 DEF Awaited
          <6>2. CASE \E j \in 1..Len(s2c[k]) : s2c[k][j].id = i
            <7>1. PICK j \in 1..Len(s2c[k]) : s2c[k][j].id = i
              BY <6>2
            <7>2. j # 1
              BY <2>0, <3>2, <5>2, <7>1
            <7>3. j - 1 \in 1..Len(s2c'[k]) /\ s2c'[k][j - 1] = s2c[k][j]
              BY <1>1, <2>1, <5>2, <7>2 DEF Shifted
            <7> QED BY <7>1, <7>3 DEF Awaited
          <6> QED BY <2>5, <6>1, <6>2 DEF Awaited
        <5> QED BY <5>1, <5>2
      <4> QED BY <1>4, <2>1, <4>1, <4>2
    <3> QED BY <3>1, <3>2
  <2> QED BY <1>0, <2>3, <2>4, <2>5 DEF EntryOK
<1>8. ASSUME NEW c \in Conns, NEW r \in Request, Sends(c, r) PROVE EntryOK(k, i)'
  <2>1. /\ Longer(c2s'[c], c2s[c]) /\ Len(c2s'[c]) = Len(c2s[c]) + 1 /\ c2s'[c][Len(c2s[c]) + 1] = r
        /\ \A d \in Conns : d # c => c2s'[d] = c2s[d]
    BY <1>8, SendMakes DEF Sends
  <2>2. UNCHANGED <<conn, s2c>> /\ conn[c] = "open"
    BY <1>8 DEF Sends
  <2>3. Awaited(k, i) => Awaited(k, i)'
    BY <1>1, <2>1, <2>2, AwaitedGrows
  <2>4. CASE admitted'[k][i] = admitted[k][i]
    BY <1>4, <2>2, <2>3, <2>4
  <2>5. CASE k = c /\ i = r.id /\ r.thread \in Threads /\ admitted'[k][i] = Unanswered(r.thread)
    <3>1. Len(c2s[k]) + 1 \in 1..Len(c2s'[k]) /\ c2s'[k][Len(c2s[k]) + 1].id = i
      BY <1>1, <2>1, <2>5
    <3>2. Awaited(k, i)'
      BY <3>1 DEF Awaited
    <3> QED BY <2>2, <2>5, <3>2 DEF EntryOK
  <2>6. CASE r.thread \in Threads /\ Admit(c, r.id, r.thread)
    <3>1. Unanswered(r.thread) \in Entry /\ r.id \in Ids
      BY <2>6, EntryForms DEF Request
    <3>2. admitted'[k][i] = IF k = c /\ i = r.id THEN Unanswered(r.thread) ELSE admitted[k][i]
      BY <1>2, <2>6, <3>1, SetEntry DEF Admit
    <3> QED BY <2>4, <2>5, <2>6, <3>2
  <2> QED BY <1>8, <2>4, <2>6 DEF Sends
<1>9. ASSUME NEW c \in Conns, NEW f \in Response, Serves(c, f) PROVE EntryOK(k, i)'
  <2>1. /\ Shifted(c2s'[c], c2s[c]) /\ (\A d \in Conns : d # c => c2s'[d] = c2s[d])
        /\ Longer(s2c'[k], s2c[k]) /\ UNCHANGED <<conn, admitted>> /\ f.id = c2s[c][1].id
    BY <1>9 DEF Serves, brokerVars
  <2>2. ASSUME conn[k] = "open", Awaited(k, i) PROVE Awaited(k, i)'
    <3>1. CASE k # c
      BY <1>1, <2>1, <2>2, <3>1, AwaitedGrows
    <3>2. CASE \E j \in 1..Len(s2c[k]) : s2c[k][j].id = i
      BY <1>1, <2>1, <3>2 DEF Awaited, Longer
    <3>3. CASE k = c /\ \E j \in 1..Len(c2s[k]) : c2s[k][j].id = i
      <4>1. PICK j \in 1..Len(c2s[k]) : c2s[k][j].id = i
        BY <3>3
      <4>2. CASE j = 1
        <5>1. PICK m \in 1..Len(s2c'[k]) : s2c'[k][m] = f
          BY <1>9, <2>2, <3>3 DEF Serves
        <5>2. s2c'[k][m].id = i
          BY <2>1, <3>3, <4>1, <4>2, <5>1
        <5> QED BY <5>2 DEF Awaited
      <4>3. CASE j # 1
        <5>1. j - 1 \in 1..Len(c2s'[k]) /\ c2s'[k][j - 1] = c2s[k][j]
          BY <1>1, <2>1, <3>3, <4>3 DEF Shifted
        <5> QED BY <4>1, <5>1 DEF Awaited
      <4> QED BY <4>2, <4>3
    <3> QED BY <2>2, <3>1, <3>2, <3>3 DEF Awaited
  <2> QED BY <1>4, <2>1, <2>2
<1>10. ASSUME NEW t \in Threads, ServerCompletes(t) PROVE EntryOK(k, i)'
  <2>1. Longer(s2c'[k], s2c[k]) /\ UNCHANGED <<conn, admitted, c2s>>
    BY <1>10, CompletesMake DEF brokerVars
  <2> QED BY <1>1, <1>4, <2>1, AwaitedGrows
<1>11. CASE UNCHANGED <<conn, brokerVars, c2s, s2c, serverVars, sent, histVars>>
  <2>1. UNCHANGED <<conn, c2s, s2c, admitted>>
    BY <1>11 DEF brokerVars
  <2> QED BY <1>1, <1>4, <2>1, AwaitedGrows
<1> QED BY <1>5, <1>6, <1>7, <1>8, <1>9, <1>10, <1>11, StepCases DEF Replies, Starts

-----------------------------------------------------------------------------
(* A terminal that was heard.                                              *)

\* Unless a leg lagged too far, a turn heard to end is not active, and is remembered as
\* long as some frame of it is on its way.
HeardInv == ~overrun => \A tu \in heard : ~IsActive(tu[1], tu[2]) /\ (tu \in Seen \/ ~Queueing(tu[1], tu[2]))

\* Only the observation of a frame makes a turn active.
LEMMA ActiveStep ==
  ASSUME TypeOK, FlightInv, [Next]_vars, NEW t \in Threads, NEW u \in Turns, IsActive(t, u)',
         ~\E c \in Conns : Observe(c)
  PROVE  IsActive(t, u)
<1>0. admitted \in [Conns -> [Ids -> Entry]]
  BY DEF TypeOK
<1>1. ASSUME UNCHANGED running, \A d \in Conns, j \in Ids : admitted'[d][j] = Answered(t, u) => admitted[d][j] = Answered(t, u)
      PROVE  IsActive(t, u)
  BY <1>1 DEF IsActive, Answered
<1>2. CASE UNCHANGED <<running, admitted>>
  BY <1>1, <1>2
<1>3. ASSUME NEW c \in Conns, Close(c) PROVE IsActive(t, u)
  <2>1. UNCHANGED running
    BY <1>3 DEF Close
  <2>2. \A d \in Conns, j \in Ids : admitted'[d][j] \in {NoEntry, admitted[d][j]}
    BY <1>3 DEF Close, TypeOK
  <2>3. NoEntry # Answered(t, u)
    BY EntryForms
  <2> QED BY <1>1, <2>1, <2>2, <2>3
<1>4. ASSUME NEW c \in Conns, NEW r \in Request, Sends(c, r) PROVE IsActive(t, u)
  <2>1. UNCHANGED running
    BY <1>4 DEF Sends
  <2>2. CASE r.thread \in Threads /\ Admit(c, r.id, r.thread)
    <3>1. Unanswered(r.thread) \in Entry /\ r.id \in Ids
      BY <2>2, EntryForms DEF Request
    <3>2. \A d \in Conns, j \in Ids : admitted'[d][j] \in {Unanswered(r.thread), admitted[d][j]}
      BY <1>0, <2>2, <3>1, SetEntry DEF Admit
    <3>3. Unanswered(r.thread) # Answered(t, u)
      BY EntryKinds
    <3> QED BY <1>1, <2>1, <3>2, <3>3
  <2> QED BY <1>2, <1>4, <2>1, <2>2 DEF Sends
<1>5. ASSUME NEW c \in Conns, Connect(c) PROVE IsActive(t, u)
  BY <1>2, <1>5 DEF Connect, brokerVars
<1>6. ASSUME NEW c \in Conns, NEW f \in Response, Serves(c, f) PROVE IsActive(t, u)
  BY <1>2, <1>6 DEF Serves, brokerVars
<1>7. ASSUME NEW s \in Threads, ServerCompletes(s) PROVE IsActive(t, u)
  BY <1>2, <1>7 DEF ServerCompletes, brokerVars
<1>8. CASE UNCHANGED <<conn, brokerVars, c2s, s2c, serverVars, sent, histVars>>
  BY <1>2, <1>8 DEF brokerVars
<1> QED BY <1>3, <1>4, <1>5, <1>6, <1>7, <1>8, StepCases DEF Replies, Starts

\* The memory of terminals and its history change only there.
LEMMA SeenStep ==
  ASSUME TypeOK, FlightInv, [Next]_vars, ~\E c \in Conns : Observe(c)
  PROVE  Seen' = Seen /\ heard' = heard /\ overrun' = overrun
<1>1. UNCHANGED <<cleared, heard, overrun>>
  <2>1. ASSUME NEW c \in Conns, Connect(c) \/ Close(c) PROVE UNCHANGED <<cleared, heard, overrun>>
    BY <2>1 DEF Connect, Close, brokerVars
  <2>2. ASSUME NEW c \in Conns, NEW f \in Response, Serves(c, f) PROVE UNCHANGED <<cleared, heard, overrun>>
    BY <2>2 DEF Serves, brokerVars
  <2>3. ASSUME NEW s \in Threads, ServerCompletes(s) PROVE UNCHANGED <<cleared, heard, overrun>>
    BY <2>3 DEF ServerCompletes, brokerVars, histVars
  <2>4. ASSUME NEW c \in Conns, NEW r \in Request, Sends(c, r) PROVE UNCHANGED <<cleared, heard, overrun>>
    BY <2>4 DEF Sends
  <2>5. CASE UNCHANGED <<conn, brokerVars, c2s, s2c, serverVars, sent, histVars>>
    BY <2>5 DEF brokerVars, histVars
  <2> QED BY <2>1, <2>2, <2>3, <2>4, <2>5, StepCases DEF Replies, Starts
<1> QED BY <1>1 DEF Seen

\* No new frame names a turn that was heard to end.
LEMMA QueueingStep ==
  ASSUME TypeOK, FlightInv, TurnInv, [Next]_vars, NEW t \in Threads, NEW u \in Turns, Past(t, u), Queueing(t, u)'
  PROVE  Queueing(t, u)
<1>1. PICK g \in Wire : OnWire(g)' /\ g.thread = t /\ g.turn = u
  BY DEF Queueing
<1>2. SUFFICES OnWire(g)
  BY <1>1 DEF Queueing
<1>3. u <= minted[t] /\ u # srv[t] /\ minted[t] \in Nat /\ u # NoTurn
  BY DEF Past, TypeOK
<1>4. CASE \/ \E c \in Conns : Connect(c) \/ Observe(c) \/ Close(c)
           \/ \E c \in Conns, r \in Request : Sends(c, r)
           \/ UNCHANGED <<conn, brokerVars, c2s, s2c, serverVars, sent, histVars>>
  BY <1>1, <1>4, NoNewFrame
<1>5. ASSUME NEW c \in Conns, NEW f \in Response, Replies(c, f),
             f.thread \in Threads => f.turn = srv[f.thread],
             \A k \in Conns : \A m \in 1..Len(s2c'[k]) : m <= Len(s2c[k]) \/ (k = c /\ s2c'[k][m] = f)
      PROVE  OnWire(g)
  <2>1. Only(c, f)
    BY <1>5 DEF Only, Replies, Serves
  <2>2. OnWire(g) \/ g = f
    BY <1>1, <2>1, ReplyFrame
  <2> QED BY <1>1, <1>3, <1>5, <2>2
<1>6. ASSUME NEW c \in Conns, NEW s \in Threads, NEW f \in Response, Starts(c, s, f) PROVE OnWire(g)
  <2>1. f.thread = s /\ f.turn \in {minted[s] + 1, NoTurn}
    BY <1>6 DEF Starts
  <2>2. PICK n : n = Frame("started", s, minted[s] + 1, NoId)
    OBVIOUS
  <2>3. n.thread = s /\ n.turn = minted[s] + 1
    BY <2>2 DEF Frame
  <2>4. OnWire(g) \/ g = f \/ g = n
    BY <1>1, <1>6, <2>2, NewFrame
  <2> QED BY <1>1, <1>3, <2>1, <2>3, <2>4
<1>7. ASSUME NEW s \in Threads, ServerCompletes(s) PROVE OnWire(g)
  <2>1. PICK n : n = Frame("completed", s, srv[s], NoId)
    OBVIOUS
  <2>2. n.thread = s /\ n.turn = srv[s]
    BY <2>1 DEF Frame
  <2>3. OnWire(g) \/ g = n
    BY <1>1, <1>7, <2>1, NewFrame
  <2> QED BY <1>1, <1>3, <2>2, <2>3
<1> QED BY <1>4, <1>5, <1>6, <1>7, StepCases

\* Every step keeps it so.
LEMMA HeardStep ==
  ASSUME TypeOK, FlightInv, StartInv, EndedStaysEnded, TurnInv, HeardInv, [Next]_vars
  PROVE  HeardInv'
<1> SUFFICES ASSUME ~overrun', NEW tu \in heard'
             PROVE  ~IsActive(tu[1], tu[2])' /\ (tu \in Seen' \/ ~Queueing(tu[1], tu[2])')
  BY DEF HeardInv
<1>1. EndedStaysEnded' /\ TypeOK'
  BY EndedStep, TypeStep
<1>2. tu \in Threads \X Turns /\ tu[1] \in Threads /\ tu[2] \in Turns /\ tu = <<tu[1], tu[2]>>
  BY <1>1 DEF TypeOK
<1>3. CASE tu \in Seen'
  BY <1>1, <1>3 DEF EndedStaysEnded
<1>4. ASSUME ~\E c \in Conns : Observe(c), tu \notin Seen'
      PROVE  ~IsActive(tu[1], tu[2])' /\ ~Queueing(tu[1], tu[2])'
  <2>1. Seen' = Seen /\ heard' = heard /\ overrun' = overrun
    BY <1>4, SeenStep
  <2>2. ~IsActive(tu[1], tu[2]) /\ ~Queueing(tu[1], tu[2]) /\ Past(tu[1], tu[2])
    BY <1>4, <2>1 DEF HeardInv, TurnInv
  <2> QED BY <1>2, <1>4, <2>2, ActiveStep, QueueingStep
<1>5. ASSUME NEW c \in Conns, Observe(c), tu \notin Seen'
      PROVE  ~IsActive(tu[1], tu[2])' /\ ~Queueing(tu[1], tu[2])'
  <2>1. PICK f : f = s2c[c][1]
    OBVIOUS
  <2>2. Recalled(f) /\ f \in Wire /\ OnWire(f) /\ \A d \in Conns, j \in Ids : Noted(c, f, d, j)
    BY <1>5, <2>1, ObserveRecalls, ObserveEntries
  <2>3. tu \in heard /\ ~overrun
    BY <1>5, <2>2 DEF Recalled
  <2>4. ~IsActive(tu[1], tu[2]) /\ (tu \in Seen \/ ~Queueing(tu[1], tu[2])) /\ Past(tu[1], tu[2])
    BY <2>3 DEF HeardInv, TurnInv
  <2>5. ~Queueing(tu[1], tu[2])'
    <3>1. CASE tu \in Seen
      BY <1>5, <2>2, <3>1 DEF Recalled
    <3>2. CASE ~Queueing(tu[1], tu[2])
      BY <1>2, <2>4, <3>2, QueueingStep
    <3> QED BY <2>4, <3>1, <3>2
  <2>6. f.thread = tu[1] /\ f.turn = tu[2] => tu \in Seen
    <3>1. f.thread = tu[1] /\ f.turn = tu[2] => Queueing(tu[1], tu[2])
      BY <2>2 DEF Queueing
    <3> QED BY <2>4, <3>1
  <2>7. running'[tu[1]] # tu[2]
    <3>1. running[tu[1]] # tu[2] /\ tu[2] # NoTurn
      BY <1>2, <2>4 DEF IsActive
    <3>2. \/ running'[tu[1]] \in {running[tu[1]], NoTurn}
          \/ tu[1] = f.thread /\ running'[tu[1]] = f.turn /\ <<f.thread, f.turn>> \notin Seen
      BY <1>2, <2>2 DEF Recalled
    <3>3. tu[1] = f.thread /\ tu[2] = f.turn => <<f.thread, f.turn>> \in Seen
      BY <1>2, <2>6
    <3> QED BY <3>1, <3>2, <3>3
  <2>8. ASSUME NEW d \in Conns, NEW j \in Ids PROVE admitted'[d][j] # Answered(tu[1], tu[2])
    <3>1. admitted[d][j] # Answered(tu[1], tu[2])
      BY <2>4 DEF IsActive
    <3>2. NoEntry # Answered(tu[1], tu[2])
      BY EntryKinds
    <3>3. admitted[d][j] \in Entry
      BY DEF TypeOK
    <3>4. admitted[d][j].st \in {"none", "unanswered", "answered"}
      BY <3>3 DEF Entry
    <3>5. CASE admitted'[d][j] = admitted[d][j] \/ admitted'[d][j] = NoEntry
      BY <3>1, <3>2, <3>5
    <3>6. CASE /\ d = c /\ j = f.id /\ admitted[d][j].st = "unanswered"
               /\ admitted'[d][j] = Answered(admitted[d][j].thread, f.turn)
               /\ <<admitted[d][j].thread, f.turn>> \notin Seen
      <4> SUFFICES ASSUME admitted[d][j].thread = tu[1], f.turn = tu[2] PROVE FALSE
        BY <3>6, EntryKinds
      <4>1. Len(s2c[c]) \in Nat /\ Shifted(s2c'[c], s2c[c]) /\ s2c[c] # <<>>
        BY <1>5, WireLens, ObserveMakes DEF Observe
      <4>2. 1 \in 1..Len(s2c[c])
        BY <4>1 DEF Shifted
      <4>3. conn[c] = "open" /\ StartOK(c)
        BY <4>1 DEF FlightInv, Flight, StartInv
      <4>4. f.id # NoId /\ f.turn # NoTurn
        BY <1>2, <3>6
      <4>5. admitted[d][j] = Unanswered(f.thread)
        BY <2>1, <3>6, <4>2, <4>3, <4>4 DEF StartOK
      <4>6. f.thread = tu[1]
        BY <4>5, EntryKinds
      <4>7. <<admitted[d][j].thread, f.turn>> = tu
        BY <1>2
      <4> QED BY <2>6, <3>6, <4>6, <4>7
    <3> QED BY <2>2, <3>4, <3>5, <3>6 DEF Noted
  <2>9. ~IsActive(tu[1], tu[2])'
    BY <2>7, <2>8 DEF IsActive, Answered
  <2> QED BY <2>5, <2>9
<1> QED BY <1>3, <1>4, <1>5

-----------------------------------------------------------------------------
(* The terminals of a thread that are on their way and not yet remembered. *)

Coming(t) ==
  {g \in Notice : g.kind = "completed" /\ g.thread = t /\ <<t, g.turn>> \notin Seen /\ OnWire(g)}

\* Unless a leg lagged too far, only the end of a turn adds one, and observing one removes it.
LEMMA ComingStep ==
  ASSUME TypeOK, FlightInv, EndedStaysEnded, [Next]_vars, ~overrun', NEW t \in Threads, NEW g \in Coming(t)'
  PROVE  \/ g \in Coming(t) /\ \A c \in Conns : Observe(c) => g # s2c[c][1]
         \/ ServerCompletes(t) /\ g = Frame("completed", t, srv[t], NoId)
<1>1. /\ g \in Notice /\ g \in Wire /\ g.kind = "completed" /\ g.thread = t
      /\ <<t, g.turn>> \notin Seen' /\ OnWire(g)' /\ g.turn \in Turns
  BY DEF Coming, Wire, Notice
<1>2. ASSUME NEW c \in Conns, Observe(c) PROVE g \in Coming(t) /\ \A d \in Conns : Observe(d) => g # s2c[d][1]
  <2>1. OnWire(g)
    BY <1>1, <1>2, NoNewFrame
  <2>2. ASSUME NEW d \in Conns, Observe(d), g = s2c[d][1] PROVE FALSE
    <3>1. Recalled(g)
      BY <2>2, ObserveRecalls
    <3> QED BY <1>1, <3>1 DEF Recalled
  <2>3. <<t, g.turn>> \notin Seen
    <3>1. PICK f : f = s2c[c][1]
      OBVIOUS
    <3>2. Recalled(f)
      BY <1>2, <3>1, ObserveRecalls
    <3>3. Queueing(t, g.turn)'
      BY <1>1 DEF Queueing
    <3>4. PICK x : x = <<t, g.turn>>
      OBVIOUS
    <3>5. x[1] = t /\ x[2] = g.turn
      BY <3>4
    <3>6. f.kind # "completed" => Seen' = Seen
      BY <3>2 DEF Recalled
    <3>7. f.kind = "completed" => \A tu \in Seen \ Seen' : ~Queueing(tu[1], tu[2])'
      BY <3>2 DEF Recalled
    <3>8. f.kind = "completed" => x \notin Seen \ Seen'
      <4> SUFFICES ASSUME f.kind = "completed", x \in Seen \ Seen' PROVE FALSE
        OBVIOUS
      <4>1. ~Queueing(x[1], x[2])'
        BY <3>7
      <4>2. PICK r, v : r = x[1] /\ v = x[2] /\ ~Queueing(r, v)'
        BY <4>1
      <4>3. r = t /\ v = g.turn
        BY <3>5, <4>2
      <4> QED BY <3>3, <4>2, <4>3
    <3> QED BY <1>1, <3>4, <3>6, <3>8
  <2> QED BY <1>1, <2>1, <2>2, <2>3 DEF Coming
<1>3. ASSUME ~\E c \in Conns : Observe(c)
      PROVE  g \in Coming(t) \/ (ServerCompletes(t) /\ g = Frame("completed", t, srv[t], NoId))
  <2>1. <<t, g.turn>> \notin Seen
    BY <1>1, <1>3, SeenStep
  <2>2. OnWire(g) => g \in Coming(t)
    BY <1>1, <2>1 DEF Coming
  <2>3. CASE \/ \E c \in Conns : Connect(c) \/ Close(c)
             \/ \E c \in Conns, r \in Request : Sends(c, r)
             \/ UNCHANGED <<conn, brokerVars, c2s, s2c, serverVars, sent, histVars>>
    BY <1>1, <2>2, <2>3, NoNewFrame
  <2>4. ASSUME NEW c \in Conns, NEW f \in Response, Replies(c, f),
               \A k \in Conns : \A m \in 1..Len(s2c'[k]) : m <= Len(s2c[k]) \/ (k = c /\ s2c'[k][m] = f)
        PROVE  g \in Coming(t)
    <3>1. Only(c, f)
      BY <2>4 DEF Only, Replies, Serves
    <3>2. OnWire(g) \/ g = f
      BY <1>1, <3>1, ReplyFrame
    <3>3. f.kind # "completed"
      BY DEF Response
    <3> QED BY <1>1, <2>2, <3>2, <3>3
  <2>5. ASSUME NEW c \in Conns, NEW s \in Threads, NEW f \in Response, Starts(c, s, f) PROVE g \in Coming(t)
    <3>1. PICK n : n = Frame("started", s, minted[s] + 1, NoId)
      OBVIOUS
    <3>2. n.kind # "completed" /\ f.kind # "completed"
      BY <3>1 DEF Frame, Response
    <3>3. OnWire(g) \/ g = f \/ g = n
      BY <1>1, <2>5, <3>1, NewFrame
    <3> QED BY <1>1, <2>2, <3>2, <3>3
  <2>6. ASSUME NEW s \in Threads, ServerCompletes(s)
        PROVE  g \in Coming(t) \/ (ServerCompletes(t) /\ g = Frame("completed", t, srv[t], NoId))
    <3>1. PICK n : n = Frame("completed", s, srv[s], NoId)
      OBVIOUS
    <3>2. n.thread = s
      BY <3>1 DEF Frame
    <3>3. OnWire(g) \/ g = n
      BY <1>1, <2>6, <3>1, NewFrame
    <3>4. CASE g = n
      <4>1. s = t
        BY <1>1, <3>2, <3>4
      <4> QED BY <2>6, <3>1, <3>4, <4>1
    <3> QED BY <2>2, <3>3, <3>4
  <2> QED BY <1>3, <2>3, <2>4, <2>5, <2>6, StepCases
<1> QED BY <1>2, <1>3

\* Unless a leg lagged too far, each of them is on its way to every open leg that was not
\* made while one was.
NewsInv ==
  ~overrun => \A c \in Conns \ strangers, t \in Threads : conn[c] = "open" =>
     \A g \in Coming(t) : \E n \in 1..Len(s2c[c]) : s2c[c][n] = g

\* What no step forgets.
LEMMA HistoryStep ==
  ASSUME TypeOK, FlightInv, EndedStaysEnded, [Next]_vars
  PROVE  /\ ~overrun' => ~overrun
         /\ strangers \subseteq strangers' /\ unknown \subseteq unknown' /\ late \subseteq late'
<1>1. ASSUME NEW c \in Conns, Observe(c) PROVE ~overrun' => ~overrun
  <2>1. PICK f : f = s2c[c][1]
    OBVIOUS
  <2>2. Recalled(f)
    BY <1>1, <2>1, ObserveRecalls
  <2>3. CASE f.kind = "completed"
    BY <2>2, <2>3, Zenon DEF Recalled
  <2>4. CASE f.kind # "completed"
    BY <2>2, <2>4, Zenon DEF Recalled
  <2> QED BY <2>3, <2>4
<1>2. ~overrun' => ~overrun
  BY <1>1, SeenStep, Zenon
<1>3. ASSUME NEW c \in Conns, Connect(c) \/ Observe(c) \/ Close(c)
      PROVE  strangers \subseteq strangers' /\ unknown \subseteq unknown' /\ late \subseteq late'
  BY <1>3 DEF Connect, Observe, Close, histVars
<1>4. ASSUME NEW c \in Conns, NEW f \in Response, Serves(c, f) PROVE strangers' = strangers
  BY <1>4 DEF Serves
<1>5. ASSUME NEW s \in Threads, ServerCompletes(s) PROVE UNCHANGED <<strangers, unknown, late>>
  BY <1>5 DEF ServerCompletes, histVars
<1>6. ASSUME NEW c \in Conns, NEW r \in Request, Sends(c, r) PROVE UNCHANGED <<strangers, unknown, late>>
  BY <1>6 DEF Sends
<1>7. ASSUME NEW c \in Conns, NEW f \in Response, Replies(c, f) PROVE UNCHANGED <<unknown, late>>
  BY <1>7 DEF Replies
<1>8. ASSUME NEW c \in Conns, NEW t \in Threads, NEW f \in Response, Starts(c, t, f)
      PROVE  unknown \subseteq unknown' /\ late \subseteq late'
  BY <1>8 DEF Starts
<1>9. CASE UNCHANGED <<conn, brokerVars, c2s, s2c, serverVars, sent, histVars>>
  BY <1>2, <1>9 DEF histVars
<1> QED BY <1>2, <1>3, <1>4, <1>5, <1>6, <1>7, <1>8, <1>9, StepCases DEF Replies, Starts

\* Every step keeps the news together.
LEMMA NewsStep ==
  ASSUME TypeOK, FlightInv, EndedStaysEnded, NewsInv, [Next]_vars
  PROVE  NewsInv'
<1> SUFFICES ASSUME ~overrun', NEW k \in Conns \ strangers', NEW t \in Threads, conn'[k] = "open", NEW g \in Coming(t)'
             PROVE  \E n \in 1..Len(s2c'[k]) : s2c'[k][n] = g
  BY DEF NewsInv
<1>0. ~overrun /\ k \in Conns \ strangers
  BY HistoryStep
<1>1. Len(s2c[k]) \in Nat /\ Len(s2c'[k]) \in Nat
  BY WireLens
<1>2. ASSUME conn[k] = "open", g \in Coming(t), s2c'[k] = s2c[k] \/ Longer(s2c'[k], s2c[k])
      PROVE  \E n \in 1..Len(s2c'[k]) : s2c'[k][n] = g
  <2>1. PICK n \in 1..Len(s2c[k]) : s2c[k][n] = g
    BY <1>0, <1>2 DEF NewsInv
  <2>2. n \in 1..Len(s2c'[k]) /\ s2c'[k][n] = s2c[k][n]
    BY <1>1, <1>2 DEF Longer
  <2> QED BY <2>1, <2>2
<1>3. CASE ServerCompletes(t) /\ g = Frame("completed", t, srv[t], NoId)
  <2>1. conn[k] = "open" => Len(s2c'[k]) = Len(s2c[k]) + 1 /\ s2c'[k][Len(s2c[k]) + 1] = g
    BY <1>3, CompletesMake
  <2>2. conn' = conn
    BY <1>3 DEF ServerCompletes
  <2>3. Len(s2c[k]) + 1 \in 1..Len(s2c'[k])
    BY <1>1, <2>1, <2>2
  <2> QED BY <2>1, <2>2, <2>3
<1>4. ASSUME g \in Coming(t), \A c \in Conns : Observe(c) => g # s2c[c][1]
      PROVE  \E n \in 1..Len(s2c'[k]) : s2c'[k][n] = g
  <2>1. ASSUME NEW c \in Conns, Connect(c) PROVE \E n \in 1..Len(s2c'[k]) : s2c'[k][n] = g
    <3>1. UNCHANGED s2c /\ (k # c => conn'[k] = conn[k])
      BY <2>1 DEF Connect, TypeOK
    <3>2. k # c
      <4> SUFFICES ASSUME k = c PROVE FALSE
        OBVIOUS
      <4>1. g.kind = "completed" /\ <<g.thread, g.turn>> \notin Seen /\ OnWire(g)
        BY <1>4 DEF Coming
      <4>2. \A d \in Conns : DOMAIN s2c[d] = 1..Len(s2c[d])
        BY WireForms
      <4>3. \E d \in Conns : \E j \in DOMAIN s2c[d] :
              s2c[d][j].kind = "completed" /\ <<s2c[d][j].thread, s2c[d][j].turn>> \notin Seen
        BY <4>1, <4>2 DEF OnWire
      <4>4. c \in strangers'
        BY <2>1, <4>3 DEF Connect
      <4> QED BY <4>4
    <3> QED BY <1>2, <1>4, <3>1, <3>2
  <2>2. ASSUME NEW c \in Conns, Close(c) PROVE \E n \in 1..Len(s2c'[k]) : s2c'[k][n] = g
    <3>1. k # c
      BY <2>2 DEF Close, TypeOK
    <3>2. conn'[k] = conn[k] /\ s2c'[k] = s2c[k]
      BY <2>2, <3>1 DEF Close, TypeOK
    <3> QED BY <1>2, <1>4, <3>2
  <2>3. ASSUME NEW c \in Conns, Observe(c) PROVE \E n \in 1..Len(s2c'[k]) : s2c'[k][n] = g
    <3>1. Shifted(s2c'[c], s2c[c]) /\ (\A d \in Conns : d # c => s2c'[d] = s2c[d]) /\ UNCHANGED conn
      BY <2>3, ObserveMakes
    <3>2. CASE k # c
      BY <1>2, <1>4, <3>1, <3>2
    <3>3. CASE k = c
      <4>1. PICK n \in 1..Len(s2c[k]) : s2c[k][n] = g
        BY <1>0, <1>4, <3>1 DEF NewsInv
      <4>2. n # 1
        BY <1>4, <2>3, <3>3, <4>1
      <4>3. n - 1 \in 1..Len(s2c'[k]) /\ s2c'[k][n - 1] = s2c[k][n]
        BY <1>1, <3>1, <3>3, <4>2 DEF Shifted
      <4> QED BY <4>1, <4>3
    <3> QED BY <3>2, <3>3
  <2>4. ASSUME NEW c \in Conns, NEW r \in Request, Sends(c, r) PROVE \E n \in 1..Len(s2c'[k]) : s2c'[k][n] = g
    <3>1. UNCHANGED <<s2c, conn>>
      BY <2>4 DEF Sends
    <3> QED BY <1>2, <1>4, <3>1
  <2>5. ASSUME NEW c \in Conns, NEW f \in Response, Serves(c, f) PROVE \E n \in 1..Len(s2c'[k]) : s2c'[k][n] = g
    <3>1. UNCHANGED conn /\ Longer(s2c'[k], s2c[k])
      BY <2>5 DEF Serves
    <3> QED BY <1>2, <1>4, <3>1
  <2>6. ASSUME NEW s \in Threads, ServerCompletes(s) PROVE \E n \in 1..Len(s2c'[k]) : s2c'[k][n] = g
    <3>1. UNCHANGED conn /\ Longer(s2c'[k], s2c[k])
      BY <2>6, CompletesMake
    <3> QED BY <1>2, <1>4, <3>1
  <2>7. CASE UNCHANGED <<conn, brokerVars, c2s, s2c, serverVars, sent, histVars>>
    BY <1>2, <1>4, <2>7
  <2> QED BY <2>1, <2>2, <2>3, <2>4, <2>5, <2>6, <2>7, StepCases DEF Replies, Starts
<1> QED BY <1>3, <1>4, ComingStep

-----------------------------------------------------------------------------
(* A running turn is held busy by an entry.                                *)

\* The start that holds thread t busy: answered with no terminal to come, or unanswered
\* with its result on its way behind every terminal to come.
Behind(t, c, i, j) ==
  /\ s2c[c][j].id = i /\ s2c[c][j].kind = "result" /\ s2c[c][j].turn \in {srv[t], NoTurn}
  /\ \A g \in Coming(t) : \E n \in 1..j - 1 : s2c[c][n] = g

Held(t, c, i) ==
  \/ admitted[c][i].thread = t /\ admitted[c][i].st = "answered" /\ Coming(t) = {}
  \/ admitted[c][i] = Unanswered(t) /\ \E j \in 1..Len(s2c[c]) : Behind(t, c, i, j)

KnownInv ==
  ~overrun => \A t \in Threads : srv[t] # NoTurn /\ <<t, srv[t]>> \notin unknown \cup late =>
     \E c \in Conns, i \in Ids : Held(t, c, i)

\* An entry keeps holding while frames are added behind the result.
LEMMA HeldGrows ==
  ASSUME TypeOK, [Next]_vars, NEW t \in Threads, NEW k \in Conns, NEW i \in Ids, Held(t, k, i),
         srv'[t] = srv[t], Coming(t)' \subseteq Coming(t), admitted'[k][i] = admitted[k][i],
         admitted[k][i].st = "answered" \/ s2c'[k] = s2c[k] \/ Longer(s2c'[k], s2c[k])
  PROVE  Held(t, k, i)'
<1>1. CASE admitted[k][i].thread = t /\ admitted[k][i].st = "answered" /\ Coming(t) = {}
  <2>1. Coming(t)' = {}
    BY <1>1
  <2> QED BY <1>1, <2>1 DEF Held
<1>2. ASSUME admitted[k][i] = Unanswered(t), NEW j \in 1..Len(s2c[k]), Behind(t, k, i, j)
      PROVE  Held(t, k, i)'
  <2>1. Len(s2c[k]) \in Nat /\ Len(s2c'[k]) \in Nat /\ (s2c'[k] = s2c[k] \/ Longer(s2c'[k], s2c[k]))
    BY <1>2, WireLens, EntryKinds
  <2>2. \A n \in 1..Len(s2c[k]) : n \in 1..Len(s2c'[k]) /\ s2c'[k][n] = s2c[k][n]
    BY <2>1 DEF Longer
  <2>3. \A n \in 1..j - 1 : n \in 1..Len(s2c[k])
    BY <2>1
  <2>4. j \in 1..Len(s2c'[k]) /\ s2c'[k][j] = s2c[k][j]
    BY <2>2
  <2>5. \A g \in Coming(t)' : \E n \in 1..j - 1 : s2c'[k][n] = g
    BY <1>2, <2>2, <2>3 DEF Behind
  <2>6. s2c'[k][j].id = i /\ s2c'[k][j].kind = "result" /\ s2c'[k][j].turn \in {srv'[t], NoTurn}
    BY <1>2, <2>4 DEF Behind
  <2>7. Behind(t, k, i, j)'
    BY <2>5, <2>6 DEF Behind
  <2> QED BY <1>2, <2>4, <2>7 DEF Held
<1> QED BY <1>1, <1>2 DEF Held

\* Every step keeps a holder of each running turn, or loses it knowingly.
LEMMA KnownStep ==
  ASSUME TypeOK, FlightInv, StartInv, EndedStaysEnded, TurnInv, NewsInv, KnownInv, [Next]_vars
  PROVE  KnownInv'
<1> SUFFICES ASSUME ~overrun', NEW t \in Threads, srv'[t] # NoTurn, <<t, srv'[t]>> \notin unknown' \cup late'
             PROVE  \E c \in Conns, i \in Ids : Held(t, c, i)'
  BY DEF KnownInv
<1>0. ~overrun /\ unknown \subseteq unknown' /\ late \subseteq late' /\ srv \in [Threads -> Turns \cup {NoTurn}]
      /\ admitted \in [Conns -> [Ids -> Entry]]
  BY HistoryStep DEF TypeOK
<1>1. ~ServerCompletes(t)
  BY <1>0 DEF ServerCompletes
<1>2. Coming(t)' \subseteq Coming(t)
  BY <1>1, ComingStep
<1>3. ASSUME NEW c \in Conns, NEW f \in Response, Starts(c, t, f) PROVE \E d \in Conns, i \in Ids : Held(t, d, i)'
  <2>1. /\ Serves(c, f) /\ c2s[c][1].thread = t /\ f.kind = "result" /\ f.turn \in {minted[t] + 1, NoTurn}
        /\ srv' = [srv EXCEPT ![t] = minted[t] + 1]
        /\ unknown' = (IF conn[c] = "open" THEN unknown ELSE unknown \cup {<<t, minted[t] + 1>>})
        /\ late' = (IF c \in strangers THEN late \cup {<<t, minted[t] + 1>>} ELSE late)
    BY <1>3 DEF Starts
  <2>2. srv'[t] = minted[t] + 1
    BY <1>0, <2>1
  <2>3. conn[c] = "open" /\ c \in Conns \ strangers
    BY <2>1, <2>2
  <2>4. /\ Len(c2s[c]) \in Nat /\ Len(s2c[c]) \in Nat /\ Len(s2c'[c]) \in Nat
        /\ \A j \in 1..Len(c2s[c]) : c2s[c][j].id \in Ids
    BY WireLens
  <2>5. /\ f.id = c2s[c][1].id /\ Shifted(c2s'[c], c2s[c]) /\ Longer(s2c'[c], s2c[c]) /\ UNCHANGED admitted
    BY <2>1 DEF Serves, brokerVars
  <2>6. 1 \in 1..Len(c2s[c])
    BY <2>4, <2>5 DEF Shifted
  <2>7. f.id \in Ids /\ admitted'[c][f.id] = Unanswered(t)
    <3>1. StartOK(c) /\ t # NoThread
      BY DEF StartInv
    <3> QED BY <2>1, <2>3, <2>4, <2>5, <2>6, <3>1 DEF StartOK
  <2>8. PICK m \in 1..Len(s2c'[c]) : m > Len(s2c[c]) /\ s2c'[c][m] = f
    BY <2>1, <2>3 DEF Serves
  <2>9. \A g \in Coming(t)' : \E n \in 1..m - 1 : s2c'[c][n] = g
    <3> SUFFICES ASSUME NEW g \in Coming(t)' PROVE \E n \in 1..m - 1 : s2c'[c][n] = g
      OBVIOUS
    <3>1. PICK n \in 1..Len(s2c[c]) : s2c[c][n] = g
      BY <1>0, <1>2, <2>3 DEF NewsInv
    <3>2. n \in 1..m - 1 /\ s2c'[c][n] = s2c[c][n]
      BY <2>4, <2>5, <2>8 DEF Longer
    <3> QED BY <3>1, <3>2
  <2>10. s2c'[c][m].id = f.id /\ s2c'[c][m].kind = "result" /\ s2c'[c][m].turn \in {srv'[t], NoTurn}
    BY <2>1, <2>2, <2>8
  <2>11. PICK i \in Ids : i = f.id
    BY <2>7
  <2>12. Behind(t, c, i, m)'
    BY <2>9, <2>10, <2>11 DEF Behind
  <2>13. Held(t, c, i)'
    BY <2>7, <2>8, <2>11, <2>12 DEF Held
  <2> QED BY <2>13
<1>4. ASSUME ~\E c \in Conns, f \in Response : Starts(c, t, f) PROVE srv'[t] = srv[t]
  <2>1. ASSUME NEW c \in Conns, NEW s \in Threads, NEW f \in Response, Starts(c, s, f) PROVE srv'[t] = srv[t]
    <3>0. s # t
      BY <1>4, <2>1
    <3>1. s # t /\ srv' = [srv EXCEPT ![s] = minted[s] + 1]
      BY <2>1, <3>0 DEF Starts
    <3> QED BY <1>0, <3>1
  <2>2. ASSUME NEW s \in Threads, ServerCompletes(s) PROVE srv'[t] = srv[t]
    <3>1. s # t /\ srv' = [srv EXCEPT ![s] = NoTurn]
      BY <1>1, <2>2 DEF ServerCompletes
    <3> QED BY <1>0, <3>1
  <2>3. ASSUME NEW c \in Conns, Connect(c) \/ Observe(c) \/ Close(c) PROVE UNCHANGED srv
    BY <2>3 DEF Connect, Observe, Close, serverVars
  <2>4. ASSUME NEW c \in Conns, NEW r \in Request, Sends(c, r) PROVE UNCHANGED srv
    BY <2>4 DEF Sends
  <2>5. ASSUME NEW c \in Conns, NEW f \in Response, Replies(c, f) PROVE UNCHANGED srv
    BY <2>5 DEF Replies
  <2>6. CASE UNCHANGED <<conn, brokerVars, c2s, s2c, serverVars, sent, histVars>>
    BY <2>6 DEF serverVars
  <2> QED BY <2>1, <2>2, <2>3, <2>4, <2>5, <2>6, StepCases
<1>5. ASSUME ~\E c \in Conns, f \in Response : Starts(c, t, f) PROVE \E c \in Conns, i \in Ids : Held(t, c, i)'
  <2>1. srv'[t] = srv[t] /\ srv[t] # NoTurn /\ <<t, srv[t]>> \notin unknown \cup late
    BY <1>0, <1>4, <1>5
  <2>2. PICK k \in Conns, i \in Ids : Held(t, k, i)
    BY <1>0, <2>1 DEF KnownInv
  <2>3. admitted[k][i].thread = t /\ admitted[k][i].st \in {"answered", "unanswered"}
    BY <2>2, EntryKinds DEF Held
  <2>4. SUFFICES Held(t, k, i)'
    OBVIOUS
  <2>5. ASSUME admitted'[k][i] = admitted[k][i],
               admitted[k][i].st = "answered" \/ s2c'[k] = s2c[k] \/ Longer(s2c'[k], s2c[k])
        PROVE  Held(t, k, i)'
    BY <1>2, <2>1, <2>2, <2>5, HeldGrows
  <2>6. ASSUME NEW c \in Conns, Connect(c) PROVE Held(t, k, i)'
    BY <2>5, <2>6 DEF Connect, brokerVars
  <2>7. ASSUME NEW c \in Conns, Close(c) PROVE Held(t, k, i)'
    <3>1. CASE k # c
      <4>1. admitted'[k] = admitted[k] /\ s2c'[k] = s2c[k]
        BY <2>7, <3>1 DEF Close, TypeOK
      <4> QED BY <2>5, <4>1
    <3>2. CASE k = c /\ admitted[k][i].st = "answered"
      <4>1. admitted'[k][i] = admitted[k][i]
        BY <1>0, <2>7, <3>2 DEF Close, Survives
      <4> QED BY <2>5, <3>2, <4>1
    <3>3. CASE k = c /\ admitted[k][i].st # "answered"
      <4>1. admitted[k][i] = Unanswered(t)
        BY <2>2, <3>3 DEF Held
      <4>2. srv[t] \in Turns
        BY <1>0, <2>1
      <4>3. <<t, srv[t]>> \in unknown'
        <5>1. PICK x : x = <<t, srv[t]>>
          OBVIOUS
        <5>2. x \in Threads \X Turns /\ srv[x[1]] = x[2] /\ \E j \in Ids : admitted[c][j] = Unanswered(x[1])
          BY <3>3, <4>1, <4>2, <5>1
        <5>3. x \in unknown'
          BY <2>7, <5>2 DEF Close
        <5> QED BY <5>1, <5>3
      <4> QED BY <2>1, <4>3
    <3> QED BY <3>1, <3>2, <3>3
  <2>8. ASSUME NEW c \in Conns, NEW r \in Request, Sends(c, r) PROVE Held(t, k, i)'
    <3>1. UNCHANGED s2c
      BY <2>8 DEF Sends
    <3>2. CASE UNCHANGED admitted
      BY <2>5, <3>1, <3>2
    <3>3. CASE r.thread \in Threads /\ Admit(c, r.id, r.thread) /\ admitted[c][r.id] = NoEntry
      <4>1. Unanswered(r.thread) \in Entry /\ r.id \in Ids
        BY <3>3, EntryForms DEF Request
      <4>2. ~(k = c /\ i = r.id)
        BY <2>3, <3>3, EntryKinds
      <4>3. admitted'[k][i] = admitted[k][i]
        BY <1>0, <3>3, <4>1, <4>2, SetEntry DEF Admit
      <4> QED BY <2>5, <3>1, <4>3
    <3> QED BY <2>8, <3>2, <3>3 DEF Sends
  <2>9. ASSUME NEW c \in Conns, NEW f \in Response, Serves(c, f) PROVE Held(t, k, i)'
    <3>1. UNCHANGED admitted /\ Longer(s2c'[k], s2c[k])
      BY <2>9 DEF Serves, brokerVars
    <3> QED BY <2>5, <3>1
  <2>10. ASSUME NEW s \in Threads, ServerCompletes(s) PROVE Held(t, k, i)'
    <3>1. UNCHANGED admitted /\ Longer(s2c'[k], s2c[k])
      BY <2>10, CompletesMake DEF brokerVars
    <3> QED BY <2>5, <3>1
  <2>11. CASE UNCHANGED <<conn, brokerVars, c2s, s2c, serverVars, sent, histVars>>
    BY <2>5, <2>11 DEF brokerVars
  <2>12. ASSUME NEW c \in Conns, Observe(c) PROVE Held(t, k, i)'
    <3>0. PICK f : f = s2c[c][1]
      OBVIOUS
    <3>1. /\ Shifted(s2c'[c], s2c[c]) /\ (\A d \in Conns : d # c => s2c'[d] = s2c[d])
          /\ Noted(c, f, k, i) /\ f \in Wire /\ OnWire(f)
      BY <2>12, <3>0, ObserveMakes, ObserveEntries, ObserveRecalls
    <3>2. CASE admitted[k][i].st = "answered"
      <4>1. Coming(t) = {}
        BY <2>2, <3>2, EntryKinds DEF Held
      <4>2. ~(f.kind = "completed" /\ f.thread = t /\ <<f.thread, f.turn>> \notin Seen)
        <5>1. f.kind = "completed" => f \in Notice
          BY <3>1, FrameForms
        <5> QED BY <3>1, <4>1, <5>1 DEF Coming
      <4>3. admitted'[k][i] = admitted[k][i]
        BY <2>3, <3>1, <3>2, <4>2 DEF Noted
      <4> QED BY <2>5, <3>2, <4>3
    <3>3. ASSUME admitted[k][i] = Unanswered(t), NEW j \in 1..Len(s2c[k]), Behind(t, k, i, j) PROVE Held(t, k, i)'
      <4>1. admitted[k][i].st = "unanswered"
        BY <3>3, EntryKinds
      <4>2. /\ s2c[k][j].id = i /\ s2c[k][j].kind = "result" /\ s2c[k][j].turn \in {srv[t], NoTurn}
            /\ \A g \in Coming(t) : \E n \in 1..j - 1 : s2c[k][n] = g
        BY <3>3 DEF Behind
      <4>3. CASE k # c
        <5>1. admitted'[k][i] = admitted[k][i]
          BY <3>1, <4>1, <4>3 DEF Noted
        <5> QED BY <2>5, <3>1, <4>3, <5>1
      <4>4. CASE k = c
        <5>0. /\ Len(c2s[k]) \in Nat /\ Len(s2c[k]) \in Nat /\ Len(s2c'[k]) \in Nat
          BY WireLens
        <5>1. 1 \in 1..Len(s2c[k]) /\ i # NoId /\ Apart(c2s[k], s2c[k])
          <6>1. 1 \in 1..Len(s2c[k]) /\ s2c[k] # <<>>
            BY <2>12, <3>1, <4>4, <5>0 DEF Shifted, Observe
          <6>2. i # NoId
            OBVIOUS
          <6> QED BY <6>1, <6>2 DEF FlightInv, Flight
        <5>2. CASE i = f.id
          <6>1. j = 1
            BY <3>0, <4>2, <4>4, <5>1, <5>2 DEF Apart
          <6>2. Coming(t) = {}
            BY <4>2, <6>1
          <6>3. Coming(t)' = {}
            BY <1>2, <6>2
          <6>4. f.kind = "result" /\ f.turn \in {srv[t], NoTurn}
            BY <3>0, <4>2, <4>4, <6>1
          <6>5. <<t, f.turn>> \notin Seen
            <7>1. PICK x : x = <<t, f.turn>>
              OBVIOUS
            <7>2. x[1] = t /\ x[2] = f.turn
              BY <7>1
            <7>3. \A tu \in Seen : Past(tu[1], tu[2]) /\ tu[2] \in Turns
              BY DEF TurnInv, TypeOK
            <7>4. NoTurn \notin Turns
              OBVIOUS
            <7>5. x \in Seen => f.turn # srv[t] /\ f.turn \in Turns
              BY <7>2, <7>3 DEF Past
            <7> QED BY <6>4, <7>1, <7>4, <7>5
          <6>6. admitted'[k][i] = Answered(t, f.turn)
            BY <2>3, <3>1, <4>1, <4>4, <5>2, <6>4, <6>5 DEF Noted
          <6> QED BY <6>3, <6>6, EntryKinds DEF Held
        <5>3. CASE i # f.id
          <6>1. admitted'[k][i] = admitted[k][i]
            BY <3>1, <4>1, <5>3 DEF Noted
          <6>2. j # 1
            BY <3>0, <4>2, <4>4, <5>3
          <6>3. /\ j - 1 \in 1..Len(s2c'[k]) /\ s2c'[k][j - 1] = s2c[k][j]
                /\ \A n \in 1..j - 1 : n # 1 => n - 1 \in 1..(j - 1) - 1 /\ s2c'[k][n - 1] = s2c[k][n]
            BY <3>1, <4>4, <5>0, <6>2 DEF Shifted
          <6>4. PICK l \in 1..Len(s2c'[k]) : l = j - 1
            BY <6>3
          <6>5. ASSUME NEW g \in Coming(t)' PROVE \E n \in 1..l - 1 : s2c'[k][n] = g
            <7>1. g \in Coming(t) /\ g # f
              BY <1>1, <2>12, <3>0, ComingStep
            <7>2. PICK n \in 1..j - 1 : s2c[k][n] = g
              BY <4>2, <7>1
            <7>3. n # 1
              BY <3>0, <4>4, <7>1, <7>2
            <7>4. n - 1 \in 1..l - 1 /\ s2c'[k][n - 1] = g
              BY <6>3, <6>4, <7>2, <7>3
            <7> QED BY <7>4
          <6>6. s2c'[k][l].id = i /\ s2c'[k][l].kind = "result" /\ s2c'[k][l].turn \in {srv'[t], NoTurn}
            BY <2>1, <4>2, <6>3, <6>4
          <6>7. Behind(t, k, i, l)'
            BY <6>5, <6>6 DEF Behind
          <6> QED BY <3>3, <6>1, <6>7 DEF Held
        <5> QED BY <5>2, <5>3
      <4> QED BY <4>3, <4>4
    <3> QED BY <2>2, <3>2, <3>3 DEF Held
  <2> QED BY <2>6, <2>7, <2>8, <2>9, <2>10, <2>11, <2>12, StepCases DEF Replies, Starts
<1> QED BY <1>3, <1>5

-----------------------------------------------------------------------------

TurnsInv == FlightInv /\ StartInv /\ TurnInv /\ EntryInv /\ HeardInv /\ NewsInv /\ KnownInv

\* The inductive invariant behind the next three theorems: the ids on the wires, the entry
\* of every request on its way, the turns frames may name, and where the news of an ended
\* turn still is.
THEOREM TurnsInvariant == Spec => []TurnsInv
<1>1. Init => TurnsInv
  <2> SUFFICES ASSUME Init PROVE TurnsInv
    OBVIOUS
  <2>1. \A c \in Conns : c2s[c] = <<>> /\ s2c[c] = <<>> /\ conn[c] = "new" /\ Len(s2c[c]) = 0
    BY DEF Init
  <2>2. 1..0 = {} /\ Seen = {}
    BY DEF Init, Seen
  <2>3. FlightInv /\ StartInv
    BY <2>1 DEF FlightInv, Flight, StartInv, StartOK
  <2>4. \A g : ~OnWire(g)
    BY <2>1, <2>2 DEF OnWire
  <2>5. TurnInv
    BY <2>2, <2>4 DEF Init, TurnInv
  <2>6. EntryInv
    BY DEF Init, EntryInv, EntryOK
  <2>7. HeardInv
    BY DEF Init, HeardInv
  <2>8. NewsInv
    BY <2>1 DEF NewsInv
  <2>9. KnownInv
    BY DEF Init, KnownInv
  <2> QED BY <2>3, <2>5, <2>6, <2>7, <2>8, <2>9 DEF TurnsInv
<1>2. TypeOK /\ EndedStaysEnded /\ TurnsInv /\ [Next]_vars => TurnsInv'
  BY FlightStep, StartStep, TurnStep, EntryStep, HeardStep, NewsStep, KnownStep DEF TurnsInv
<1> QED BY <1>1, <1>2, TypeCorrect, EndedStaysEndedHolds, PTL DEF Spec

\* Two phone requests in flight on one open connection never share an id (admit_id).
THEOREM IdsCorrelateHolds == Spec => []IdsCorrelate
<1>1. TypeOK /\ TurnsInv => IdsCorrelate
  <2> SUFFICES ASSUME TypeOK, TurnsInv, NEW p \in Phones, conn[p] = "open"
               PROVE  /\ \A j, k \in DOMAIN c2s[p] : c2s[p][j].id = c2s[p][k].id => j = k
                      /\ \A j, k \in DOMAIN s2c[p] : s2c[p][j].id = s2c[p][k].id /\ s2c[p][j].id # NoId => j = k
                      /\ \A j \in DOMAIN c2s[p], k \in DOMAIN s2c[p] : c2s[p][j].id # s2c[p][k].id
    BY DEF IdsCorrelate
  <2>1. p \in Conns
    BY DEF Conns
  <2>2. Apart(c2s[p], s2c[p])
    BY <2>1 DEF TurnsInv, FlightInv, Flight
  <2>3. DOMAIN c2s[p] = 1..Len(c2s[p]) /\ DOMAIN s2c[p] = 1..Len(s2c[p])
    BY <2>1, WireForms
  <2> QED BY <2>2, <2>3 DEF Apart
<1> QED BY <1>1, TypeCorrect, TurnsInvariant, PTL

\* A running turn is known to be running (busy_on), whichever legs carried its news and in
\* whatever order, but for the four named ways to lose it.
THEOREM KnownBusyHolds == Spec => []KnownBusy
<1>1. TurnsInv => KnownBusy
  <2> SUFFICES ASSUME TurnsInv, NEW t \in Threads, srv[t] # NoTurn, <<t, srv[t]>> \notin unknown \cup late, ~overrun
               PROVE  BusyOn(t)
    BY DEF KnownBusy
  <2>1. PICK c \in Conns, i \in Ids : Held(t, c, i)
    BY DEF TurnsInv, KnownInv
  <2>2. admitted[c][i].thread = t
    BY <2>1, EntryKinds DEF Held
  <2> QED BY <2>2 DEF BusyOn
<1> QED BY <1>1, TurnsInvariant, PTL

\* A thread is not left busy for ever (TurnActivity): once nothing runs and nothing is on
\* its way, what is still marked was never heard to end or cannot be told by its id.
THEOREM NoStuckBusyHolds == Spec => []NoStuckBusy
<1>1. TypeOK /\ TurnsInv => NoStuckBusy
  <2> SUFFICES ASSUME TypeOK, TurnsInv, Quiet, ~overrun, NEW t \in Threads, BusyOn(t),
                      \A u \in 1..minted[t] : <<t, u>> \in heard
               PROVE  \E c \in Conns, i \in Ids : admitted[c][i] = Answered(t, NoTurn)
    BY DEF NoStuckBusy
  <2>1. \A u \in 1..minted[t] : ~IsActive(t, u)
    <3> SUFFICES ASSUME NEW u \in 1..minted[t] PROVE ~IsActive(t, u)
      OBVIOUS
    <3>1. PICK x \in heard : x = <<t, u>>
      OBVIOUS
    <3>2. ~IsActive(x[1], x[2]) /\ x[1] = t /\ x[2] = u
      BY <3>1 DEF TurnsInv, HeardInv
    <3> QED BY <3>2
  <2>2. running[t] = NoTurn
    <3>1. running[t] \in Nat /\ minted[t] \in Nat /\ running[t] <= minted[t]
      BY DEF TypeOK, TurnsInv, TurnInv
    <3>2. running[t] \in 1..minted[t] => IsActive(t, running[t])
      BY DEF IsActive
    <3> QED BY <2>1, <3>1, <3>2
  <2>3. PICK c \in Conns, i \in Ids : admitted[c][i].thread = t
    BY <2>2 DEF BusyOn
  <2>4. EntryOK(c, i)
    BY DEF TurnsInv, EntryInv
  <2>5. admitted[c][i] # NoEntry
    BY <2>3, EntryKinds
  <2>6. ~(conn[c] = "open" /\ Awaited(c, i))
    <3> SUFFICES ASSUME conn[c] = "open" PROVE ~Awaited(c, i)
      OBVIOUS
    <3>1. Len(c2s[c]) = 0 /\ Len(s2c[c]) = 0 /\ 1..0 = {}
      BY DEF Quiet
    <3> QED BY <3>1 DEF Awaited
  <2>7. PICK s \in Threads : \E u \in 0..minted[s] : admitted[c][i] = Answered(s, u)
    BY <2>4, <2>5, <2>6 DEF EntryOK
  <2>8. PICK u \in 0..minted[s] : admitted[c][i] = Answered(s, u)
    BY <2>7
  <2>9. s = t
    BY <2>3, <2>8, EntryKinds
  <2>10. minted[t] \in Nat
    BY DEF TypeOK
  <2>11. u \notin 1..minted[t]
    BY <2>1, <2>8, <2>9 DEF IsActive
  <2>12. u = NoTurn
    BY <2>8, <2>9, <2>10, <2>11
  <2> QED BY <2>8, <2>9, <2>12
<1> QED BY <1>1, TypeCorrect, TurnsInvariant, PTL
=============================================================================
