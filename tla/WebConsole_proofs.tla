-------------------------- MODULE WebConsole_proofs --------------------------
(* Proofs about WebConsole, for any threads, topics, payloads and time-outs. *)
EXTENDS WebConsole, SequenceTheorems, TLAPS

\* The topic of the message that the callback thread has logged and not stored.
InHand == IF paho.pc \in {"stamp", "update"} THEN {paho.msg.topic} ELSE {}

PahoOK ==
    paho \in [pc : {"idle", "connection"}] \cup [pc : {"stamp"}, msg : Message]
             \cup [pc : {"update"}, msg : Message, stamp : Nat]

\* A command on its way to the log is a command.
PostOK == \A t \in Threads : post[t] # Nothing => post[t].topic \in Commands

\* The newest entry of each topic is in last_topics and, for a card, on it, or
\* in the hand of the callback thread.
LogOK ==
    \A i \in DOMAIN log : \A t \in Topics : NewestOf(log, t, i) =>
        /\ lastTopics[t] = log[i]
        /\ t \in Shown =>
              log[i].payload = IF t \in InHand THEN paho.msg.payload ELSE shown[t]

\* What is stored of a heartbeat is the second in which it came.
Seen(h) == IF h = Never THEN Never ELSE Whole(h)
TimesOK == \A n \in Nodes : lastSeen[n] = Seen(heard[n])

\* A copy has what the store had, whatever happens to the store after.
CopyOK ==
    page.pc = "copied" =>
        /\ \A i \in DOMAIN page.log : \A t \in Topics : NewestOf(page.log, t, i) =>
              /\ page.lastTopics[t] = page.log[i]
              /\ t \in Shown \ page.inHand => page.shown[t] = page.log[i].payload
        /\ \A n \in Nodes : /\ page.heard[n] \in Nat \cup {Never}
                            /\ page.lastSeen[n] = Seen(page.heard[n])

StoreOK == PahoOK /\ PostOK /\ LogOK /\ TimesOK
IInv == TypeOK /\ StoreOK /\ CopyOK /\ PageConsistent /\ OnlineExact

-----------------------------------------------------------------------------
(* Time.                                                                   *)

\* The time that is stored is at most a second older than the heartbeat.
LEMMA WholeRange ==
    ASSUME NEW t \in Nat
    PROVE  Whole(t) \in Nat /\ Whole(t) <= t /\ t - Whole(t) < Second
<1>1. Second \in Nat /\ Second > 0
  BY ConsoleAssumption
<1>2. t % Second \in 0 .. Second - 1
  BY <1>1
<1>3. t = Second * (t \div Second) + (t % Second) /\ t \div Second \in Nat
  BY <1>1
<1>4. Second * (t \div Second) \in Nat
  BY <1>1, <1>3
<1> QED
  BY <1>1, <1>2, <1>3, <1>4 DEF Whole

\* What _is_online says of a stored time, in terms of when the heartbeat came.
LEMMA OnlineTrue ==
    ASSUME NEW h \in Nat \cup {Never}, now \in Nat
    PROVE  IF IsOnline(Seen(h)) THEN h # Never /\ now - h <= HeartbeatTimeout * Second
           ELSE h # Never => now - h > (HeartbeatTimeout - 1) * Second
<1>1. Second \in Nat /\ HeartbeatTimeout \in Nat
  BY ConsoleAssumption
<1>2. CASE h = Never
  BY <1>2 DEF IsOnline, Seen
<1>3. CASE h # Never
  <2>1. h \in Nat /\ Seen(h) = Whole(h)
    BY <1>3 DEF Seen
  <2>2. Whole(h) \in Nat /\ Whole(h) <= h /\ h - Whole(h) < Second
    BY <2>1, WholeRange
  <2>3. Whole(h) # Never
    BY <2>2 DEF Never
  <2>4. (HeartbeatTimeout - 1) * Second = HeartbeatTimeout * Second - Second
    BY <1>1
  <2>5. HeartbeatTimeout * Second \in Nat
    BY <1>1
  <2> DEFINE limit == HeartbeatTimeout * Second
  <2>6. IsOnline(Seen(h)) <=> now - Whole(h) <= limit
    BY <2>1, <2>3 DEF IsOnline
  <2>7. limit \in Nat /\ (HeartbeatTimeout - 1) * Second = limit - Second
    BY <2>4, <2>5
  <2> HIDE DEF limit
  <2>8. CASE IsOnline(Seen(h))
    <3>1. now - h <= limit
      BY <2>1, <2>2, <2>6, <2>7, <2>8
    <3> QED
      BY <1>3, <2>8, <3>1 DEF limit
  <2>9. CASE ~IsOnline(Seen(h))
    <3>1. now - h > limit - Second
      BY <1>1, <2>1, <2>2, <2>6, <2>7, <2>9
    <3> QED
      BY <2>7, <2>9, <3>1
  <2> QED
    BY <2>8, <2>9
<1> QED
  BY <1>2, <1>3

-----------------------------------------------------------------------------
(* The log.                                                                *)

\* An entry goes to the front; of the others the oldest may fall out.
LEMMA AddLogShifts ==
    ASSUME TypeOK, NEW e \in Entry, AddLog(e)
    PROVE  /\ log' \in Seq(Entry) /\ Len(log') <= LogLimit /\ Len(log') \in Nat
           /\ lastTopics' \in [Topics \cup {"broker"} -> Entry \cup {Nothing}]
           /\ \A i \in DOMAIN log' :
                 IF i = 1 THEN log'[i] = e
                          ELSE i - 1 \in DOMAIN log /\ log'[i] = log[i - 1]
<1> DEFINE l == <<e>> \o log
           n == IF Len(log) < LogLimit THEN Len(log) + 1 ELSE LogLimit
<1>1. /\ log \in Seq(Entry) /\ Len(log) \in Nat /\ DOMAIN log = 1 .. Len(log)
      /\ Len(log) <= LogLimit /\ LogLimit \in Nat \ {0}
  BY LenProperties, ConsoleAssumption DEF TypeOK
<1>2. n \in Nat /\ n <= LogLimit /\ n <= Len(log) + 1 /\ n >= 1
  BY <1>1
<1>3. <<e>> \in Seq(Entry) /\ Len(<<e>>) = 1 /\ <<e>>[1] = e
  OBVIOUS
<1>4. /\ l \in Seq(Entry) /\ Len(l) = Len(<<e>>) + Len(log)
      /\ \A i \in 1 .. Len(<<e>>) + Len(log) :
            l[i] = IF i <= Len(<<e>>) THEN <<e>>[i] ELSE log[i - Len(<<e>>)]
  BY <1>1, <1>3, ConcatProperties, Zenon
<1>5. /\ l[1] = e
      /\ \A i \in 2 .. Len(log) + 1 : l[i] = log[i - 1]
  BY <1>1, <1>3, <1>4
<1>6. log' = SubSeq(l, 1, n)
  BY DEF AddLog
<1> HIDE DEF l, n
<1>7. \A i \in 1 .. n : l[i] \in Entry
  BY <1>1, <1>2, <1>3, <1>4, ElementOfSeq
<1>8. /\ log' \in Seq(Entry) /\ Len(log') = n
      /\ \A i \in 1 .. n : log'[i] = l[i]
  <2>1. /\ SubSeq(l, 1, n) \in Seq(Entry)
        /\ Len(SubSeq(l, 1, n)) = IF 1 <= n THEN n - 1 + 1 ELSE 0
        /\ \A i \in 1 .. n - 1 + 1 : SubSeq(l, 1, n)[i] = l[1 + i - 1]
    BY <1>2, <1>7, SubSeqProperties
  <2>2. n - 1 + 1 = n /\ 1 <= n
    BY <1>2
  <2>3. \A i \in 1 .. n : 1 + i - 1 = i
    BY <1>2
  <2> QED
    BY <1>6, <2>1, <2>2, <2>3
<1>9. DOMAIN log' = 1 .. n
  BY <1>8, LenProperties
<1>10. ASSUME NEW i \in DOMAIN log'
       PROVE  IF i = 1 THEN log'[i] = e
                       ELSE i - 1 \in DOMAIN log /\ log'[i] = log[i - 1]
  BY <1>1, <1>2, <1>5, <1>8, <1>9
<1>11. e.topic \in Topics \cup {"broker"}
  BY DEF Entry
<1>12. lastTopics' \in [Topics \cup {"broker"} -> Entry \cup {Nothing}]
  BY <1>11 DEF AddLog, TypeOK
<1> QED
  BY <1>2, <1>8, <1>10, <1>12

\* The newest entry of a topic after it: the one added, or the same as before.
LEMMA AddLogNewest ==
    ASSUME TypeOK, NEW e \in Entry, AddLog(e),
           NEW i \in DOMAIN log', NEW t \in Topics, NewestOf(log', t, i)
    PROVE  \/ t = e.topic /\ log'[i] = e /\ lastTopics'[t] = e
           \/ /\ t # e.topic /\ i - 1 \in DOMAIN log /\ NewestOf(log, t, i - 1)
              /\ log'[i] = log[i - 1] /\ lastTopics'[t] = lastTopics[t]
<1>1. /\ DOMAIN log' = 1 .. Len(log') /\ Len(log') \in Nat
      /\ \A j \in DOMAIN log' :
            IF j = 1 THEN log'[j] = e ELSE j - 1 \in DOMAIN log /\ log'[j] = log[j - 1]
  BY AddLogShifts, LenProperties
<1>2. lastTopics' = [lastTopics EXCEPT ![e.topic] = e] /\ t \in DOMAIN lastTopics
  BY DEF AddLog, TypeOK
<1>3. CASE i = 1
  BY <1>1, <1>2, <1>3 DEF NewestOf
<1>4. CASE i # 1
  <2>1. i \in Nat /\ i > 1 /\ 1 \in 1 .. i - 1 /\ 1 \in DOMAIN log'
    BY <1>1, <1>4
  <2>2. t # e.topic
    BY <1>1, <2>1 DEF NewestOf
  <2>3. i - 1 \in DOMAIN log /\ log'[i] = log[i - 1]
    BY <1>1, <1>4
  <2>4. ASSUME NEW j \in 1 .. (i - 1) - 1
        PROVE  log[j].topic # t
    <3>1. j + 1 \in 1 .. i - 1 /\ j + 1 \in DOMAIN log' /\ j + 1 # 1 /\ (j + 1) - 1 = j
      BY <1>1, <2>1
    <3>2. log'[j + 1] = log[j]
      BY <1>1, <3>1
    <3> QED
      BY <3>1, <3>2 DEF NewestOf
  <2>5. NewestOf(log, t, i - 1)
    BY <2>3, <2>4 DEF NewestOf
  <2> QED
    BY <1>2, <2>2, <2>3, <2>5
<1> QED
  BY <1>3, <1>4

-----------------------------------------------------------------------------
(* Steps that change the store.                                            *)

\* Pages depend on nothing but themselves.
LEMMA PageUnchanged ==
    ASSUME IInv, page' = page
    PROVE  CopyOK' /\ PageConsistent' /\ OnlineExact'
  BY DEF IInv, CopyOK, PageConsistent, OnlineExact

LEMMA LogConnectionKeeps == ASSUME IInv, LogConnection PROVE IInv'
<1> USE DEF IInv, StoreOK
<1> DEFINE e == [dir |-> "system", topic |-> "broker", payload |->
                 IF connected THEN "connected" ELSE "disconnected"]
<1>1. e \in Entry /\ e.topic = "broker" /\ AddLog(e)
  BY DEF LogConnection, Entry
<1> HIDE DEF e
<1>2. /\ paho.pc = "connection" /\ paho' = [pc |-> "idle"]
      /\ UNCHANGED <<conn, connected, shown, lastSeen, heard>>
      /\ UNCHANGED <<inbox, outbox, post, page, now, used>>
  BY DEF LogConnection
<1>3. TypeOK'
  BY <1>1, <1>2, AddLogShifts DEF TypeOK
<1>4. LogOK'
  <2> SUFFICES ASSUME NEW i \in DOMAIN log', NEW t \in Topics, NewestOf(log', t, i)
               PROVE  /\ lastTopics'[t] = log'[i]
                      /\ t \in Shown => log'[i].payload = shown[t]
    BY <1>2 DEF LogOK, InHand
  <2>1. t # e.topic
    BY <1>1, ConsoleAssumption DEF Topics
  <2>2. /\ i - 1 \in DOMAIN log /\ NewestOf(log, t, i - 1)
        /\ log'[i] = log[i - 1] /\ lastTopics'[t] = lastTopics[t]
    BY <1>1, <2>1, AddLogNewest
  <2> QED
    BY <1>2, <2>2 DEF LogOK, InHand
<1>5. PahoOK' /\ PostOK' /\ TimesOK'
  BY <1>2 DEF PahoOK, PostOK, TimesOK
<1> QED
  BY <1>2, <1>3, <1>4, <1>5, PageUnchanged

LEMMA LogPostKeeps == ASSUME IInv, NEW th \in Threads, LogPost(th) PROVE IInv'
<1> USE DEF IInv, StoreOK
<1> DEFINE e == [dir |-> "tx", topic |-> post[th].topic, payload |-> post[th].payload]
<1>1. post[th] \in Message /\ post[th].topic \in Commands
  BY DEF LogPost, TypeOK, PostOK
<1>2. e \in Entry /\ e.topic \in Commands /\ AddLog(e)
  BY <1>1 DEF LogPost, Entry, Message
<1> HIDE DEF e
<1>3. /\ post' = [post EXCEPT ![th] = Nothing]
      /\ UNCHANGED <<conn, connected, shown, lastSeen, heard>>
      /\ UNCHANGED <<paho, inbox, outbox, page, now, used>>
  BY DEF LogPost
<1>4. post' \in [Threads -> Message \cup {Nothing}] /\ PostOK'
  BY <1>3 DEF TypeOK, PostOK
<1>5. TypeOK'
  BY <1>2, <1>3, <1>4, AddLogShifts DEF TypeOK
<1>6. LogOK'
  <2> SUFFICES ASSUME NEW i \in DOMAIN log', NEW t \in Topics, NewestOf(log', t, i)
               PROVE  /\ lastTopics'[t] = log'[i]
                      /\ t \in Shown => log'[i].payload =
                            IF t \in InHand THEN paho.msg.payload ELSE shown[t]
    BY <1>3 DEF LogOK, InHand
  <2>1. CASE t = e.topic
    <3>1. t \notin Shown
      BY <1>2, <2>1, ConsoleAssumption
    <3> QED
      BY <1>2, <2>1, <3>1, AddLogNewest
  <2>2. CASE t # e.topic
    <3>1. /\ i - 1 \in DOMAIN log /\ NewestOf(log, t, i - 1)
          /\ log'[i] = log[i - 1] /\ lastTopics'[t] = lastTopics[t]
      BY <1>2, <2>2, AddLogNewest
    <3> QED
      BY <3>1 DEF LogOK
  <2> QED
    BY <2>1, <2>2
<1>7. PahoOK' /\ TimesOK'
  BY <1>3 DEF PahoOK, TimesOK
<1> QED
  BY <1>3, <1>4, <1>5, <1>6, <1>7, PageUnchanged

LEMMA OnMessageKeeps == ASSUME IInv, OnMessage PROVE IInv'
<1> USE DEF IInv, StoreOK
<1> DEFINE m == Head(inbox)
           e == [dir |-> "rx", topic |-> m.topic, payload |-> m.payload]
<1>1. m \in Message /\ Tail(inbox) \in Seq(Message)
  BY HeadTailProperties DEF OnMessage, TypeOK
<1>2. /\ e \in Entry /\ e.topic = m.topic /\ e.payload = m.payload /\ AddLog(e)
      /\ paho' = [pc |-> "stamp", msg |-> m]
  BY <1>1 DEF OnMessage, Entry, Message
<1>3. /\ paho.pc = "idle" /\ inbox' = Tail(inbox)
      /\ UNCHANGED <<conn, connected, shown, lastSeen, heard>>
      /\ UNCHANGED <<outbox, post, page, now, used>>
  BY DEF OnMessage
<1> HIDE DEF e, m
<1>4. TypeOK' /\ PostOK'
  BY <1>1, <1>2, <1>3, AddLogShifts DEF TypeOK, PostOK
<1>5. LogOK'
  <2> SUFFICES ASSUME NEW i \in DOMAIN log', NEW t \in Topics, NewestOf(log', t, i)
               PROVE  /\ lastTopics'[t] = log'[i]
                      /\ t \in Shown => log'[i].payload =
                            IF t = m.topic THEN m.payload ELSE shown[t]
    BY <1>2, <1>3 DEF LogOK, InHand
  <2>1. CASE t = e.topic
    BY <1>2, <2>1, AddLogNewest
  <2>2. CASE t # e.topic
    <3>1. /\ i - 1 \in DOMAIN log /\ NewestOf(log, t, i - 1)
          /\ log'[i] = log[i - 1] /\ lastTopics'[t] = lastTopics[t]
      BY <1>2, <2>2, AddLogNewest
    <3> QED
      BY <1>2, <1>3, <2>2, <3>1 DEF LogOK, InHand
  <2> QED
    BY <2>1, <2>2
<1>6. PahoOK' /\ TimesOK'
  BY <1>1, <1>2, <1>3 DEF PahoOK, TimesOK
<1> QED
  BY <1>3, <1>4, <1>5, <1>6, PageUnchanged

LEMMA UpdateKeeps == ASSUME IInv, UpdateFromMessage PROVE IInv'
<1> USE DEF IInv, StoreOK
<1> DEFINE t == paho.msg.topic
<1>1. paho.msg \in Message /\ paho.stamp \in Nat /\ paho.pc = "update"
  BY DEF UpdateFromMessage, PahoOK
<1>2. t \in Topics /\ paho.msg.payload \in Payloads
  BY <1>1 DEF Message
<1>3. /\ shown' = IF t \in Shown THEN [shown EXCEPT ![t] = paho.msg.payload] ELSE shown
      /\ lastSeen' = IF t \in Nodes THEN [lastSeen EXCEPT ![t] = Whole(paho.stamp)]
                                    ELSE lastSeen
      /\ heard' = IF t \in Nodes THEN [heard EXCEPT ![t] = paho.stamp] ELSE heard
      /\ paho' = [pc |-> "idle"]
      /\ UNCHANGED <<conn, connected, log, lastTopics>>
      /\ UNCHANGED <<inbox, outbox, post, page, now, used>>
  BY DEF UpdateFromMessage
<1>4. Whole(paho.stamp) \in Nat /\ paho.stamp # Never
  BY <1>1, WholeRange DEF Never
<1> HIDE DEF t
<1>5. shown' \in [Shown -> Payloads \cup {None}]
  BY <1>2, <1>3 DEF TypeOK
<1>6. /\ lastSeen' \in [Nodes -> Nat \cup {Never}]
      /\ heard' \in [Nodes -> Nat \cup {Never}]
  BY <1>1, <1>3, <1>4 DEF TypeOK
<1>7. TypeOK' /\ PostOK' /\ PahoOK'
  BY <1>3, <1>5, <1>6 DEF TypeOK, PostOK, PahoOK
<1>8. TimesOK'
  BY <1>3, <1>4 DEF TimesOK, Seen, TypeOK
<1>9. LogOK'
  <2> SUFFICES ASSUME NEW i \in DOMAIN log, NEW u \in Topics, NewestOf(log, u, i)
               PROVE  /\ lastTopics[u] = log[i]
                      /\ u \in Shown => log[i].payload = shown'[u]
    BY <1>3 DEF LogOK, InHand
  <2>1. /\ lastTopics[u] = log[i]
        /\ u \in Shown =>
              log[i].payload = IF u = t THEN paho.msg.payload ELSE shown[u]
    BY <1>1 DEF LogOK, InHand, t
  <2> QED
    BY <1>3, <2>1 DEF TypeOK
<1> QED
  BY <1>3, <1>7, <1>8, <1>9, PageUnchanged

-----------------------------------------------------------------------------
(* Pages.                                                                  *)

LEMMA CopyKeeps == ASSUME IInv, Copy PROVE IInv'
<1> USE DEF IInv, StoreOK
<1>1. /\ page' = [pc |-> "copied", shown |-> shown, lastSeen |-> lastSeen, log |-> log,
                  lastTopics |-> lastTopics, heard |-> heard, inHand |-> InHand]
      /\ UNCHANGED <<conn, store, paho, inbox, outbox, post, now, used>>
  BY DEF Copy, InHand
<1>2. TypeOK' /\ StoreOK'
  BY <1>1 DEF TypeOK, PostOK, PahoOK, LogOK, InHand, TimesOK, store
<1>3. CopyOK'
  BY <1>1 DEF CopyOK, LogOK, TimesOK, TypeOK
<1>4. PageConsistent' /\ OnlineExact'
  BY <1>1 DEF PageConsistent, OnlineExact
<1> QED
  BY <1>2, <1>3, <1>4

LEMMA AnswerKeeps == ASSUME IInv, Answer PROVE IInv'
<1> USE DEF IInv, StoreOK
<1>1. /\ page.pc = "copied"
      /\ page' = [pc |-> "answered", shown |-> page.shown, log |-> page.log,
                  lastTopics |-> page.lastTopics, heard |-> page.heard,
                  inHand |-> page.inHand, at |-> now,
                  online |-> {n \in Nodes : IsOnline(page.lastSeen[n])}]
      /\ UNCHANGED <<conn, store, paho, inbox, outbox, post, now, used>>
  BY DEF Answer
<1>2. TypeOK' /\ StoreOK'
  BY <1>1 DEF TypeOK, PostOK, PahoOK, LogOK, InHand, TimesOK, store
<1>3. CopyOK' /\ PageConsistent'
  BY <1>1 DEF CopyOK, PageConsistent
<1>4. OnlineExact'
  <2> SUFFICES ASSUME NEW n \in Nodes
               PROVE  IF n \in page'.online
                      THEN /\ page'.heard[n] # Never
                           /\ page'.at - page'.heard[n] <= HeartbeatTimeout * Second
                      ELSE page'.heard[n] # Never =>
                              page'.at - page'.heard[n] > (HeartbeatTimeout - 1) * Second
    BY DEF OnlineExact
  <2> DEFINE h == page.heard[n]
  <2>1. h \in Nat \cup {Never} /\ page.lastSeen[n] = Seen(h) /\ now \in Nat
    BY <1>1 DEF CopyOK, TypeOK
  <2>2. /\ page'.heard[n] = h /\ page'.at = now
        /\ n \in page'.online <=> IsOnline(Seen(h))
    <3>1. page'.online = {k \in Nodes : IsOnline(page.lastSeen[k])}
      BY <1>1
    <3>2. n \in page'.online <=> IsOnline(page.lastSeen[n])
      BY <3>1
    <3> QED
      BY <1>1, <2>1, <3>2
  <2> HIDE DEF h
  <2> QED
    BY <2>1, <2>2, OnlineTrue
<1> QED
  BY <1>2, <1>3, <1>4

-----------------------------------------------------------------------------
LEMMA InitIInv == Init => IInv
<1> SUFFICES ASSUME Init PROVE IInv
  OBVIOUS
<1>1. /\ log = <<>> /\ log \in Seq(Entry) /\ Len(log) = 0 /\ DOMAIN log = {}
      /\ inbox \in Seq(Message) /\ outbox \in Seq(Message)
  BY EmptySeq, LenProperties DEF Init, Empty
<1>2. /\ lastTopics \in [Topics \cup {"broker"} -> Entry \cup {Nothing}]
      /\ post \in [Threads -> Message \cup {Nothing}]
      /\ shown \in [Shown -> Payloads \cup {None}]
      /\ lastSeen \in [Nodes -> Nat \cup {Never}]
      /\ heard \in [Nodes -> Nat \cup {Never}]
  BY DEF Init, Empty
<1>3. TypeOK
  <2>1. Len(log) <= LogLimit
    BY <1>1, ConsoleAssumption
  <2>2. /\ conn \in {"down", "up", "refused"} /\ connected \in BOOLEAN
        /\ paho.pc \in {"idle", "connection", "stamp", "update"}
        /\ page.pc \in {"none", "copied", "answered"} /\ now \in Nat
    BY DEF Init
  <2> QED
    BY <1>1, <1>2, <2>1, <2>2 DEF TypeOK
<1>4. StoreOK
  BY <1>1 DEF Init, Empty, StoreOK, PostOK, PahoOK, LogOK, TimesOK, Seen
<1>5. CopyOK /\ PageConsistent /\ OnlineExact
  BY DEF Init, CopyOK, PageConsistent, OnlineExact
<1> QED
  BY <1>3, <1>4, <1>5 DEF IInv

LEMMA StepIInv == IInv /\ [Next]_vars => IInv'
<1> SUFFICES ASSUME IInv, [Next]_vars PROVE IInv'
  OBVIOUS
<1> USE DEF IInv, StoreOK
<1>1. CASE OnConnect \/ OnDisconnect
  <2>1. /\ conn' \in {"down", "up", "refused"} /\ connected' \in BOOLEAN
        /\ inbox' \in Seq(Message)
        /\ paho.pc = "idle" /\ paho' = [pc |-> "connection"]
        /\ UNCHANGED <<shown, lastSeen, log, lastTopics, heard, outbox, post, page, now>>
    BY <1>1, EmptySeq DEF OnConnect, OnDisconnect, TypeOK
  <2>2. TypeOK' /\ PostOK' /\ PahoOK' /\ TimesOK'
    BY <2>1 DEF TypeOK, PostOK, PahoOK, TimesOK
  <2>3. LogOK'
    BY <2>1 DEF LogOK, InHand
  <2> QED
    BY <2>1, <2>2, <2>3, PageUnchanged
<1>2. CASE Stamp
  <2>1. /\ paho.pc = "stamp"
        /\ paho' = [pc |-> "update", msg |-> paho.msg, stamp |-> now]
        /\ UNCHANGED <<conn, store, inbox, outbox, post, page, now>>
    BY <1>2 DEF Stamp
  <2>2. PahoOK'
    BY <2>1 DEF PahoOK, TypeOK
  <2>3. TypeOK' /\ PostOK' /\ TimesOK' /\ LogOK'
    BY <2>1 DEF TypeOK, PostOK, TimesOK, LogOK, InHand, store
  <2> QED
    BY <2>1, <2>2, <2>3, PageUnchanged
<1>3. CASE \E t \in Threads : Post(t)
  <2>1. PICK t \in Threads, c \in Commands, p \in Payloads :
            /\ outbox' = Append(outbox, [topic |-> c, payload |-> p])
            /\ post' = IF conn # "down"
                       THEN [post EXCEPT ![t] = [topic |-> c, payload |-> p]] ELSE post
            /\ UNCHANGED <<conn, store, paho, inbox, page, now>>
    BY <1>3 DEF Post
  <2>2. [topic |-> c, payload |-> p] \in Message
    BY DEF Message, Topics
  <2>3. outbox' \in Seq(Message) /\ post' \in [Threads -> Message \cup {Nothing}] /\ PostOK'
    BY <2>1, <2>2 DEF TypeOK, PostOK
  <2> QED
    BY <2>1, <2>3, PageUnchanged DEF TypeOK, PahoOK, TimesOK, LogOK, InHand, store
<1>4. CASE Echo \/ \E m \in Message : m.topic \notin Commands /\ Arrive(m)
  <2>1. inbox' \in Seq(Message) /\ outbox' \in Seq(Message)
    <3>1. CASE Echo
      <4>1. Head(outbox) \in Message /\ Tail(outbox) \in Seq(Message)
        BY <3>1, HeadTailProperties DEF Echo, TypeOK
      <4> QED
        BY <3>1, <4>1, AppendProperties DEF Echo, TypeOK
    <3>2. CASE \E m \in Message : m.topic \notin Commands /\ Arrive(m)
      BY <3>2, AppendProperties DEF Arrive, TypeOK
    <3> QED
      BY <1>4, <3>1, <3>2
  <2>2. UNCHANGED <<conn, store, paho, post, page, now>>
    BY <1>4 DEF Echo, Arrive
  <2> QED
    BY <2>1, <2>2, PageUnchanged DEF TypeOK, PostOK, PahoOK, TimesOK, LogOK, InHand, store
<1>5. CASE Tick \/ UNCHANGED vars
  <2>1. now' \in Nat /\ UNCHANGED <<conn, store, paho, inbox, outbox, post, page>>
    BY <1>5 DEF Tick, vars, TypeOK
  <2> QED
    BY <2>1, PageUnchanged DEF TypeOK, PostOK, PahoOK, TimesOK, LogOK, InHand, store
<1> QED
  BY <1>1, <1>2, <1>3, <1>4, <1>5, LogConnectionKeeps, LogPostKeeps, OnMessageKeeps,
     UpdateKeeps, CopyKeeps, AnswerKeeps DEF Next

LEMMA Invariance == Spec => []IInv
  BY InitIInv, StepIInv, PTL DEF Spec

\* The log of the console never grows beyond its limit, and all keeps its type.
THEOREM TypeCorrect == Spec => []TypeOK
<1>1. IInv => TypeOK
  BY DEF IInv
<1> QED
  BY <1>1, Invariance, PTL

\* Every page is of one piece, for any number of threads, messages and commands.
THEOREM PagesConsistent == Spec => []PageConsistent
<1>1. IInv => PageConsistent
  BY DEF IInv
<1> QED
  BY <1>1, Invariance, PTL

\* ONLINE and OFFLINE are right to within a second, for any time-out.
THEOREM OnlineIsExact == Spec => []OnlineExact
<1>1. IInv => OnlineExact
  BY DEF IInv
<1> QED
  BY <1>1, Invariance, PTL
=============================================================================
