------------------------------ MODULE WebConsole ------------------------------
(***************************************************************************)
(* The web console: what its pages show of the house.                      *)
(*   web_console/app.py                                                    *)
(*                                                                         *)
(* One thread of the MQTT library runs the callbacks; Flask serves each    *)
(* request in a thread of its own.  They share ConsoleState under a lock,  *)
(* taken anew by each of its methods: a step is what happens under one     *)
(* lock, or a read of the clock.  Times are in ticks, Second to a second,  *)
(* because the stored times are cut to whole seconds and the clock is not. *)
(***************************************************************************)
EXTENDS Integers, Sequences

CONSTANTS
    Threads,            \* the Flask threads that serve commands
    Payloads,           \* the payloads told apart
    Commands,           \* the topics of COMMAND_TOPICS
    Shown,              \* the topics of the cards: env, nodeB, nodeC
    Nodes,              \* the nodes of the heartbeat table
    LogLimit,           \* LOG_LIMIT
    Second,             \* ticks in a second
    HeartbeatTimeout,   \* HEARTBEAT_TIMEOUT_S
    MaxTime, MaxConnects, MaxMessages, MaxCommands   \* bounds, for model checking

ASSUME ConsoleAssumption ==
    /\ LogLimit \in Nat \ {0} /\ Second \in Nat \ {0}
    /\ HeartbeatTimeout \in Nat
    /\ Commands \cap Shown = {} /\ Nodes \cap (Commands \cup Shown) = {}
    /\ "broker" \notin Commands \cup Shown \cup Nodes  \* not a topic of the house

VARIABLES
    conn,               \* the library's connection: "down", "up", "refused"
    connected,          \* broker.connected
    shown, lastSeen,    \* the cards; heartbeat last_seen, cut to the second
    log, lastTopics,    \* _logs, newest first; last_topics
    paho,               \* the callback thread: its place, message and stamp
    inbox, outbox,      \* from and to the broker; the library keeps outbox
    post,               \* commands published and not yet logged, by thread
    page,               \* the page under way, or the last one
    heard,              \* history: when each heartbeat really came
    now, used

store == <<connected, shown, lastSeen, log, lastTopics, heard>>
vars  == <<conn, store, paho, inbox, outbox, post, page, now, used>>

\* A heartbeat is a message whose topic is its node.
Topics  == Commands \cup Shown \cup Nodes
Message == [topic : Topics, payload : Payloads]
Entry   == [dir : {"rx", "tx"}, topic : Topics, payload : Payloads]
            \cup [dir : {"system"}, topic : {"broker"}, payload : {"connected", "disconnected"}]

None    == "none"
Nothing == [topic |-> "none"]   \* no message, no entry
Never   == -1
Empty   == [shown |-> [t \in Shown |-> None], lastSeen |-> [n \in Nodes |-> Never],
            log |-> <<>>, lastTopics |-> [t \in Topics \cup {"broker"} |-> Nothing],
            heard |-> [n \in Nodes |-> Never]]

Init ==
    /\ conn = "down" /\ connected = FALSE
    /\ shown = Empty.shown /\ lastSeen = Empty.lastSeen
    /\ log = Empty.log /\ lastTopics = Empty.lastTopics /\ heard = Empty.heard
    /\ paho = [pc |-> "idle"] /\ inbox = <<>> /\ outbox = <<>>
    /\ post = [t \in Threads |-> Nothing] /\ page = [pc |-> "none"]
    /\ now = 0 /\ used = [connects |-> 0, messages |-> 0, commands |-> 0]

\* Mutant: the log is a plain list.
AddLogUnbounded(e) ==
    /\ log' = <<e>> \o log
    /\ lastTopics' = [lastTopics EXCEPT ![e.topic] = e]

\* add_log: a bounded deque, the newest entry first.
AddLog(e) ==
    /\ log' = SubSeq(<<e>> \o log, 1, IF Len(log) < LogLimit THEN Len(log) + 1
                                                           ELSE LogLimit)
    /\ lastTopics' = [lastTopics EXCEPT ![e.topic] = e]

-----------------------------------------------------------------------------
(* The callback thread.                                                    *)

\* on_connect and on_disconnect: the flag, then, under another lock, the log.
\* The subscription to house/# is renewed on success; the library reports the
\* end of a refused connection too.  What the broker had sent over the lost one
\* is gone; commands the library keeps are not.
OnConnect ==
    /\ paho.pc = "idle" /\ conn = "down" /\ used.connects < MaxConnects
    /\ conn' \in {"up", "refused"} /\ connected' = (conn' = "up")
    /\ paho' = [pc |-> "connection"]
    /\ used' = [used EXCEPT !.connects = @ + 1]
    /\ UNCHANGED <<shown, lastSeen, log, lastTopics, heard>>
    /\ UNCHANGED <<inbox, outbox, post, page, now>>

OnDisconnect ==
    /\ paho.pc = "idle" /\ conn # "down"
    /\ conn' = "down" /\ connected' = FALSE /\ inbox' = <<>>
    /\ paho' = [pc |-> "connection"]
    /\ UNCHANGED <<shown, lastSeen, log, lastTopics, heard>>
    /\ UNCHANGED <<outbox, post, page, now, used>>

LogConnection ==
    /\ paho.pc = "connection" /\ paho' = [pc |-> "idle"]
    /\ AddLog([dir |-> "system", topic |-> "broker", payload |->
               IF connected THEN "connected" ELSE "disconnected"])
    /\ UNCHANGED <<conn, connected, shown, lastSeen, heard>>
    /\ UNCHANGED <<inbox, outbox, post, page, now, used>>

\* on_message: add_log; then update_from_message, which reads the clock before
\* it takes the lock.
OnMessage ==
    /\ paho.pc = "idle" /\ inbox # <<>>
    /\ LET m == Head(inbox)
       IN  /\ AddLog([dir |-> "rx", topic |-> m.topic, payload |-> m.payload])
           /\ paho' = [pc |-> "stamp", msg |-> m]
    /\ inbox' = Tail(inbox)
    /\ UNCHANGED <<conn, connected, shown, lastSeen, heard>>
    /\ UNCHANGED <<outbox, post, page, now, used>>

Stamp ==
    /\ paho.pc = "stamp"
    /\ paho' = [pc |-> "update", msg |-> paho.msg, stamp |-> now]
    /\ UNCHANGED <<conn, store, inbox, outbox, post, page, now, used>>

\* utc_timestamp keeps whole seconds.
Whole(t) == t - (t % Second)

UpdateFromMessage ==
    /\ paho.pc = "update" /\ paho' = [pc |-> "idle"]
    /\ LET t == paho.msg.topic
       IN  /\ shown' = IF t \in Shown THEN [shown EXCEPT ![t] = paho.msg.payload]
                                      ELSE shown
           /\ lastSeen' = IF t \in Nodes THEN [lastSeen EXCEPT ![t] = Whole(paho.stamp)]
                                         ELSE lastSeen
           /\ heard' = IF t \in Nodes THEN [heard EXCEPT ![t] = paho.stamp] ELSE heard
    /\ UNCHANGED <<conn, connected, log, lastTopics>>
    /\ UNCHANGED <<inbox, outbox, post, page, now, used>>

-----------------------------------------------------------------------------
(* Flask threads.                                                          *)

\* api_command: publish, and a log entry under a lock of its own if the library
\* had a connection.  If not, the browser gets an error although the library
\* keeps a QoS 1 message and sends it on the next connection.
Post(t) ==
    /\ used.commands < MaxCommands /\ post[t] = Nothing
    /\ \E c \in Commands, p \in Payloads :
          LET m == [topic |-> c, payload |-> p]
          IN  /\ outbox' = Append(outbox, m)
              /\ post' = IF conn # "down" THEN [post EXCEPT ![t] = m] ELSE post
    /\ used' = [used EXCEPT !.commands = @ + 1]
    /\ UNCHANGED <<conn, store, paho, inbox, page, now>>

LogPost(t) ==
    /\ post[t] # Nothing /\ post' = [post EXCEPT ![t] = Nothing]
    /\ AddLog([dir |-> "tx", topic |-> post[t].topic, payload |-> post[t].payload])
    /\ UNCHANGED <<conn, connected, shown, lastSeen, heard>>
    /\ UNCHANGED <<paho, inbox, outbox, page, now, used>>

\* snapshot: the copy under the lock, with, as history, the message that the
\* callback thread has in hand; then, without it, who is online.
Copy ==
    /\ page.pc # "copied"
    /\ page' = [pc |-> "copied", shown |-> shown, lastSeen |-> lastSeen, log |-> log,
                lastTopics |-> lastTopics, heard |-> heard, inHand |->
                IF paho.pc \in {"stamp", "update"} THEN {paho.msg.topic} ELSE {}]
    /\ UNCHANGED <<conn, store, paho, inbox, outbox, post, now, used>>

\* Mutant: the age is compared in whole seconds.
IsOnlineSeconds(seen) ==
    seen # Never /\ (now - seen) \div Second <= HeartbeatTimeout

\* _is_online.
IsOnline(seen) == seen # Never /\ now - seen <= HeartbeatTimeout * Second

\* Mutant: the log is copied after the lock is released.
AnswerLateLog ==
    /\ page.pc = "copied"
    /\ page' = [pc |-> "answered", shown |-> page.shown, log |-> log,
                lastTopics |-> page.lastTopics, heard |-> page.heard,
                inHand |-> page.inHand, at |-> now,
                online |-> {n \in Nodes : IsOnline(page.lastSeen[n])}]
    /\ UNCHANGED <<conn, store, paho, inbox, outbox, post, now, used>>

Answer ==
    /\ page.pc = "copied"
    /\ page' = [pc |-> "answered", shown |-> page.shown, log |-> page.log,
                lastTopics |-> page.lastTopics, heard |-> page.heard,
                inHand |-> page.inHand, at |-> now,
                online |-> {n \in Nodes : IsOnline(page.lastSeen[n])}]
    /\ UNCHANGED <<conn, store, paho, inbox, outbox, post, now, used>>

-----------------------------------------------------------------------------
(* The broker and the clock.                                               *)

Arrive(m) ==
    /\ conn = "up" /\ used.messages < MaxMessages
    /\ inbox' = Append(inbox, m)
    /\ used' = [used EXCEPT !.messages = @ + 1]
    /\ UNCHANGED <<conn, store, paho, outbox, post, page, now>>

\* A command goes out and, with house/# subscribed, comes back.
Echo ==
    /\ conn = "up" /\ outbox # <<>>
    /\ outbox' = Tail(outbox) /\ inbox' = Append(inbox, Head(outbox))
    /\ UNCHANGED <<conn, store, paho, post, page, now, used>>

Tick ==
    /\ now < MaxTime /\ now' = now + 1
    /\ UNCHANGED <<conn, store, paho, inbox, outbox, post, page, used>>

Next ==
    \/ OnConnect \/ OnDisconnect \/ LogConnection
    \/ OnMessage \/ Stamp \/ UpdateFromMessage
    \/ \E t \in Threads : Post(t) \/ LogPost(t)
    \/ Copy \/ Answer \/ Echo \/ Tick
    \/ \E m \in Message : m.topic \notin Commands /\ Arrive(m)

Spec == Init /\ [][Next]_vars
-----------------------------------------------------------------------------
\* The state has its type, and the log never holds more than LOG_LIMIT entries.
TypeOK ==
    /\ conn \in {"down", "up", "refused"} /\ connected \in BOOLEAN
    /\ shown \in [Shown -> Payloads \cup {None}]
    /\ lastSeen \in [Nodes -> Nat \cup {Never}] /\ heard \in [Nodes -> Nat \cup {Never}]
    /\ log \in Seq(Entry) /\ Len(log) <= LogLimit
    /\ lastTopics \in [Topics \cup {"broker"} -> Entry \cup {Nothing}]
    /\ paho.pc \in {"idle", "connection", "stamp", "update"}
    /\ inbox \in Seq(Message) /\ outbox \in Seq(Message)
    /\ post \in [Threads -> Message \cup {Nothing}]
    /\ page.pc \in {"none", "copied", "answered"} /\ now \in Nat

\* The newest entry of topic t among the first i of l.
NewestOf(l, t, i) == l[i].topic = t /\ \A j \in 1 .. i - 1 : l[j].topic # t

\* A page is of one piece, whatever the callbacks and the commands of other
\* threads do while it is made: each card shows the newest message its log has
\* for the topic, or the one before if that message was just being handled, and
\* last_topics agrees with the log.
PageConsistent ==
    page.pc = "answered" =>
        \A i \in DOMAIN page.log : \A t \in Topics : NewestOf(page.log, t, i) =>
            /\ page.lastTopics[t] = page.log[i]
            /\ t \in Shown \ page.inHand => page.shown[t] = page.log[i].payload

\* ONLINE and OFFLINE on a page are true to within the second that the stored
\* time has lost: a node shown online was heard within the timeout, one shown
\* offline was not heard within a second less than that.
OnlineExact ==
    page.pc = "answered" => \A n \in Nodes :
        IF n \in page.online
        THEN page.heard[n] # Never /\ page.at - page.heard[n] <= HeartbeatTimeout * Second
        ELSE page.heard[n] # Never =>
                page.at - page.heard[n] > (HeartbeatTimeout - 1) * Second
=============================================================================
