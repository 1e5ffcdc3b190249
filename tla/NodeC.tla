-------------------------------- MODULE NodeC --------------------------------
(***************************************************************************)
(* Node C, the central manager: its controller, its MQTT client and its    *)
(* main loop.                                                              *)
(*   node_c/src/node_c_controller.c, node_c_network.c, main.c              *)
(*                                                                         *)
(* The board is built with pico_cyw43_arch_lwip_threadsafe_background: the *)
(* MQTT callbacks run in an interrupt that may preempt the main loop at    *)
(* any point, and the controller has no lock.  So a callback is ONE action *)
(* (nothing of this board runs inside it) and the main loop is a sequence  *)
(* of small steps, told apart by pc, between any two of which callbacks    *)
(* may run: each read of shared fields that decides something, each write  *)
(* and each publish is a step of its own.                                  *)
(***************************************************************************)
EXTENDS Mqtt, FiniteSets

CONSTANTS
    Word,               \* 2^w, the width of a millisecond clock (uint64_t)
    NodeATimeout, NodeBTimeout, StatusInterval, HeartbeatInterval,
    DemoInterval,       \* the intervals of the code, in ticks
    MaxInFlight,        \* MQTT_REQ_MAX_IN_FLIGHT
    DemoReadings,       \* demo_payloads, a sequence of readings
    UartLines,          \* the commands the operator may type
    Inputs,             \* the messages the broker may deliver to this board
    MaxTime             \* bound on the clock, for model checking

ASSUME TimeAssumption ==
    /\ Word \in Nat \ {0}
    /\ \A i \in {NodeATimeout, NodeBTimeout, StatusInterval,
                 HeartbeatInterval, DemoInterval} : i \in Nat
ASSUME SlotAssumption == MaxInFlight \in Nat \ {0}
ASSUME DemoAssumption == DemoReadings \in Seq(Reading) /\ DemoReadings # <<>>

\* A UART line: "mode auto", "mode manual", "light on", ..., "window close".
UartCommand ==
    [kind : {"mode"}, mode : Modes]
    \cup [kind : {"device"}, device : Devices, state : Switch]
NoLine == [kind |-> "none"]
ASSUME InputAssumption == UartLines \subseteq UartCommand /\ Inputs \subseteq Message

VARIABLES
    mode, device,       \* mode; lamp_state and window_state, as believed
    env,                \* env: valid, reading and last (last_update_ms)
    nodeBLast,          \* last_node_b_update_ms, 0 when none
    aReported, bReported, \* node_{a,b}_timeout_reported
    statusLast, heartbeatLast, demoLast, demoIndex,
    enabled, link,      \* status.enabled; the MQTT connection, see MqttReady
    pc, cur,            \* main loop: its place, the clock value of the pass
    line, want, todo, temp, unread, \* and its locals
    snap,               \* the arguments of the publish it prepares
    out, unacked,       \* requests not yet at the broker; request slots in use
    now,                \* the board's clock
    lost                \* history: topics of the commands and modes that were
                        \* refused or dropped

controller == <<mode, device, env, nodeBLast, aReported, bReported>>
timers     == <<statusLast, heartbeatLast, demoLast, demoIndex>>
locals     == <<line, want, todo, temp, snap, unread>>
thread     == <<pc, cur, locals>>
network    == <<enabled, link, out, unacked, lost>>
vars       == <<controller, timers, thread, network, now>>

\* status.mqtt_ready: set by the connection callback, cleared by it.
MqttReady == link = "up"

\* now_ms - then_ms on unsigned words.
Elapsed(t, then) == (t - then) % Word

BootTime == 1           \* main sleeps 2 s before anything reads the clock
ZeroReading == [light |-> 0, temp |-> 0, humidity |-> 0]
AllOff == [d \in Devices |-> "OFF"]
Fields == Devices \cup {"mode"}     \* what a snapshot loads
NoSnapshot == StatusC("AUTO", AllOff)   \* for the local array out of its scope

\* How node_c_network_init may leave the connection: a lookup under way, a
\* connection asked for, or nothing, since the lookup, the client or its
\* request failed.  The network counts as enabled in all three.
Started == {"dns", "connecting", "down"}

Init ==
    /\ mode = "AUTO" /\ device = AllOff
    /\ env = [valid |-> FALSE, reading |-> ZeroReading, last |-> 0]
    /\ nodeBLast = 0 /\ aReported = FALSE /\ bReported = FALSE
    /\ statusLast = 0 /\ heartbeatLast = 0 /\ demoLast = 0 /\ demoIndex = 1
    /\ enabled \in BOOLEAN      \* FALSE: no configuration, or no Wi-Fi
    /\ link \in IF enabled THEN Started ELSE {"down"}
    /\ pc = "clock" /\ cur = 0 /\ line = NoLine /\ want = "OFF"
    /\ todo = <<>> /\ temp = 0 /\ snap = NoSnapshot /\ unread = Fields
    /\ out = <<>> /\ unacked = 0 /\ lost = {}
    /\ now = BootTime

-----------------------------------------------------------------------------
(* node_c_publish, through node_c_network_publish_topic or the boot stub.  *)

Steering == Devices \cup {"mode"}
Steers(m) == m.topic \in Steering

\* The topics of the steering messages in a set.
Topics(msgs) == {m.topic : m \in {x \in msgs : Steers(x)}}

Publish(msgs) ==
    LET taken == Taken(MqttReady, unacked, MaxInFlight, msgs)
    IN  /\ out' = out \o taken
        /\ unacked' = unacked + Len(taken)
        /\ lost' = lost \cup Topics(Refused(taken, msgs))
        /\ UNCHANGED <<enabled, link>>

\* evaluate_auto_rules and the set_*_state calls it makes, run with nothing
\* in between: the new states, and the commands published on the way.
Evaluated(m, valid, r) ==
    [d \in Devices |-> IF m = "AUTO" /\ valid THEN Ruled(d, r, device[d])
                                             ELSE device[d]]
\* Mutant: the window is changed but no command is sent.
CommandsLampOnly(new) ==
    IF new["light"] = device["light"] THEN <<>> ELSE <<CmdMsg("light", new["light"])>>

Commands(new) ==
    LET of(d) == IF new[d] = device[d] THEN <<>> ELSE <<CmdMsg(d, new[d])>>
    IN  of("light") \o of("window")

-----------------------------------------------------------------------------
(* Callbacks: node_c_controller_apply_*, each atomic for this board.       *)

\* Mutant: no status after a reading.
ApplyEnvUnreported(r, t) ==
    LET new == Evaluated(mode, TRUE, r)
    IN  /\ env' = [valid |-> TRUE, reading |-> r, last |-> t]
        /\ aReported' = FALSE
        /\ device' = new
        /\ Publish(Commands(new))
        /\ UNCHANGED <<mode, nodeBLast, bReported>>

ApplyEnv(r, t) ==
    LET new == Evaluated(mode, TRUE, r)
    IN  /\ env' = [valid |-> TRUE, reading |-> r, last |-> t]
        /\ aReported' = FALSE
        /\ device' = new
        /\ Publish(Append(Commands(new), StatusC(mode, new)))
        /\ UNCHANGED <<mode, nodeBLast, bReported>>

\* set_mode(next, "mqtt", false): never publishes the mode topic.
ApplyMode(next) ==
    IF mode = next THEN UNCHANGED <<controller, network>>
    ELSE LET new == Evaluated(next, env.valid, env.reading)
         IN  /\ mode' = next
             /\ device' = new
             /\ Publish(Append(Commands(new), StatusC(next, new)))
             /\ UNCHANGED <<env, nodeBLast, aReported, bReported>>

\* Mutant: a command heard from the broker is passed on.
ApplyCommandEchoed(d, s) ==
    IF mode # "MANUAL" THEN UNCHANGED <<controller, network>>
    ELSE /\ device' = [device EXCEPT ![d] = s]
         /\ Publish(<<CmdMsg(d, s), StatusC(mode, device')>>)
         /\ UNCHANGED <<mode, env, nodeBLast, aReported, bReported>>

\* Light and window commands: the belief follows, nothing is re-published.
ApplyCommand(d, s) ==
    IF mode # "MANUAL" THEN UNCHANGED <<controller, network>>
    ELSE /\ device' = [device EXCEPT ![d] = s]
         /\ Publish(<<StatusC(mode, device')>>)
         /\ UNCHANGED <<mode, env, nodeBLast, aReported, bReported>>

ApplyNodeBStatus(dv) ==
    /\ device' = dv
    /\ nodeBLast' = now
    /\ bReported' = FALSE
    /\ Publish(<<StatusC(mode, dv)>>)
    /\ UNCHANGED <<mode, env, aReported>>

\* mqtt_incoming_data_cb: dispatch on the topic; heartbeats match no branch.
Receive(m) ==
    /\ MqttReady
    /\ \/ m.topic = "env" /\ ApplyEnv(m.reading, now)
       \/ m.topic = "mode" /\ ApplyMode(m.mode)
       \/ m.topic \in Devices /\ ApplyCommand(m.topic, m.state)
       \/ m.topic = "nodeB" /\ ApplyNodeBStatus(m.device)
       \/ /\ m.topic \notin Devices \cup {"env", "mode", "nodeB"}
          /\ UNCHANGED <<controller, network>>
    /\ UNCHANGED <<timers, thread, now>>

\* Mutant: a misspelt topic.
RequiredMisspelt == <<"env", "mode", "light", "window", "status",
                      "heartbeatA", "heartbeatB">>

\* subscribe_required_topics, in its order.
Required == <<"env", "mode", "light", "window", "nodeB",
              "heartbeatA", "heartbeatB">>

\* dns_found_cb and start_mqtt_client: no address, no client or a request that
\* is turned down leave the board without a connection; nothing tries again.
DnsFound ==
    /\ link = "dns"
    /\ link' \in {"connecting", "down"}
    /\ UNCHANGED <<controller, timers, thread, enabled, out, unacked, lost, now>>

\* mqtt_connection_cb with MQTT_CONNECT_ACCEPTED.
Connected ==
    /\ link = "connecting"
    /\ link' = "up"
    /\ LET taken == Taken(TRUE, unacked, MaxInFlight,
                          [i \in DOMAIN Required |-> SubscribeMsg(Required[i])])
       IN  out' = out \o taken /\ unacked' = unacked + Len(taken)
    /\ UNCHANGED <<controller, timers, thread, enabled, lost, now>>

\* mqtt_connection_cb with any other status: the attempt failed or the
\* connection ended.  The client frees its requests; nothing reconnects.
Disconnected ==
    /\ link \in {"connecting", "up"}
    /\ link' = "down"
    /\ out' = <<>> /\ unacked' = 0
    /\ lost' = lost \cup Topics({out[i] : i \in DOMAIN out})
    /\ UNCHANGED <<controller, timers, thread, enabled, now>>

\* The broker's PUBACK or SUBACK arrives for a request it has taken.
Acked ==
    /\ unacked > Len(out)
    /\ unacked' = unacked - 1
    /\ UNCHANGED <<controller, timers, thread, enabled, link, out, lost, now>>

-----------------------------------------------------------------------------
(* Main loop.  One pass: clock, UART command, demo data, poll, periodic.   *)

ReadClock ==
    /\ pc = "clock" /\ pc' = "uart"
    /\ cur' = now
    /\ UNCHANGED <<controller, timers, locals, network, now>>

NoUart ==
    /\ pc = "uart" /\ pc' = "demo"
    /\ UNCHANGED <<controller, timers, cur, locals, network, now>>

\* node_c_controller_handle_uart_command up to its first decision: a mode
\* equal to the current one returns; a device command needs MANUAL.
UartLine(l) ==
    /\ pc = "uart"
    /\ line' = l
    /\ \/ /\ l.kind = "mode"
          /\ pc' = IF mode = l.mode THEN "demo" ELSE "writeMode"
          /\ UNCHANGED <<want, todo>>
       \/ /\ l.kind = "device"
          /\ pc' = IF mode = "MANUAL" THEN "test" ELSE "demo"
          /\ want' = l.state /\ todo' = <<l.device>>
    /\ UNCHANGED <<controller, timers, cur, temp, snap, unread, network, now>>

\* set_mode(..., "uart", true): the write, then publish_mode, which loads the
\* mode again and hands it over, then evaluate_auto_rules when AUTO was asked.
WriteMode ==
    /\ pc = "writeMode" /\ pc' = "loadMode"
    /\ mode' = line.mode
    /\ UNCHANGED <<device, env, nodeBLast, aReported, bReported>>
    /\ UNCHANGED <<timers, cur, locals, network, now>>

LoadMode ==
    /\ pc = "loadMode" /\ pc' = "publishMode"
    /\ snap' = [snap EXCEPT !.mode = mode]
    /\ UNCHANGED <<controller, timers, cur, line, want, todo, temp, unread, network, now>>

\* Mutant: an operator's mode is not announced.
PublishModeSilent ==
    /\ pc = "publishMode"
    /\ pc' = IF line.mode = "AUTO" THEN "rules" ELSE "snapshot"
    /\ snap' = NoSnapshot
    /\ UNCHANGED <<network, controller, timers, cur, line, want, todo, temp, unread, now>>

PublishMode ==
    /\ pc = "publishMode"
    /\ pc' = IF line.mode = "AUTO" THEN "rules" ELSE "snapshot"
    /\ Publish(<<ModeMsg(snap.mode)>>) /\ snap' = NoSnapshot
    /\ UNCHANGED <<controller, timers, cur, line, want, todo, temp, unread, now>>

\* evaluate_auto_rules in the main loop: its guard, then for each device the
\* comparison with the thresholds, the test of set_*_state, write, publish.
EnterRules ==
    /\ pc = "rules"
    /\ IF mode = "AUTO" /\ env.valid
       THEN pc' = "decide" /\ todo' = <<"light", "window">>
       ELSE pc' = "snapshot" /\ todo' = <<>>
    /\ UNCHANGED <<controller, timers, cur, line, want, temp, snap, unread, network, now>>

\* Where the loop goes when the head of todo is done.
NextDevice ==
    /\ todo' = Tail(todo)
    /\ pc' = IF Tail(todo) = <<>> THEN "snapshot" ELSE "decide"

\* The comparisons of reading r with the thresholds for the head of todo.
Compare(r) ==
    LET d == Head(todo)
    IN  IF AsksOn(d, r) \/ AsksOff(d, r)
        THEN /\ want' = IF AsksOn(d, r) THEN "ON" ELSE "OFF"
             /\ pc' = "test"
             /\ UNCHANGED todo
        ELSE NextDevice /\ UNCHANGED want

\* The window looks at two fields, and a callback may come between the loads:
\* the temperature of one reading is then judged with the humidity of the next.
LoadTemp ==
    /\ pc = "decide" /\ Head(todo) = "window" /\ pc' = "humidity"
    /\ temp' = env.reading.temp
    /\ UNCHANGED <<controller, timers, cur, line, want, todo, snap, unread, network, now>>

Decide ==
    /\ \/ pc = "decide" /\ Head(todo) = "light" /\ Compare(env.reading)
       \/ pc = "humidity" /\ Compare([env.reading EXCEPT !.temp = temp])
    /\ UNCHANGED <<controller, timers, cur, line, temp, snap, unread, network, now>>

TestDevice ==
    /\ pc = "test"
    /\ IF device[Head(todo)] = want THEN NextDevice
       ELSE pc' = "write" /\ UNCHANGED todo
    /\ UNCHANGED <<controller, timers, cur, line, want, temp, snap, unread, network, now>>

WriteDevice ==
    /\ pc = "write" /\ pc' = "command"
    /\ device' = [device EXCEPT ![Head(todo)] = want]
    /\ UNCHANGED <<mode, env, nodeBLast, aReported, bReported>>
    /\ UNCHANGED <<timers, cur, locals, network, now>>

PublishCommand ==
    /\ pc = "command"
    /\ Publish(<<CmdMsg(Head(todo), want)>>)
    /\ NextDevice
    /\ UNCHANGED <<controller, timers, cur, line, want, temp, snap, unread, now>>

\* publish_status_snapshot: the arguments of snprintf are loaded, in the order
\* the compiler chose, then the payload is published.  Called at the end of a
\* UART command and from node_c_controller_periodic.
BuildSnapshot ==
    /\ pc \in {"snapshot", "statusSnapshot"}
    /\ \E f \in unread :
          /\ snap' = IF f = "mode" THEN [snap EXCEPT !.mode = mode]
                     ELSE [snap EXCEPT !.device = [@ EXCEPT ![f] = device[f]]]
          /\ IF unread = {f}
             THEN /\ pc' = IF pc = "snapshot" THEN "publish" ELSE "statusPublish"
                  /\ unread' = Fields
             ELSE unread' = unread \ {f} /\ UNCHANGED pc
    /\ UNCHANGED <<controller, timers, cur, line, want, todo, temp, network, now>>

PublishSnapshot ==
    /\ \/ pc = "publish" /\ pc' = "demo"
       \/ pc = "statusPublish" /\ pc' = "clock"
    /\ Publish(<<snap>>) /\ snap' = NoSnapshot
    /\ UNCHANGED <<controller, timers, cur, line, want, todo, temp, unread, now>>

\* Mutant: the index runs off the sequence.
NextDemoUnwrapped == demoIndex + 1

NextDemo == (demoIndex % Len(DemoReadings)) + 1

\* Demo data, only without a network: there is no callback to interleave.
Demo ==
    /\ pc = "demo" /\ pc' = "poll"
    /\ IF ~enabled /\ Elapsed(cur, demoLast) >= DemoInterval
       THEN /\ demoLast' = cur
            /\ demoIndex' = NextDemo
            /\ ApplyEnv(DemoReadings[demoIndex], cur)
       ELSE UNCHANGED <<controller, demoLast, demoIndex, network>>
    /\ UNCHANGED <<statusLast, heartbeatLast, cur, locals, now>>

\* node_c_network_poll.
Poll ==
    /\ pc = "poll" /\ pc' = "checkA"
    /\ IF enabled /\ MqttReady /\ Elapsed(cur, heartbeatLast) >= HeartbeatInterval
       THEN heartbeatLast' = cur /\ Publish(<<HeartbeatMsg("heartbeatC")>>)
       ELSE UNCHANGED <<heartbeatLast, network>>
    /\ UNCHANGED <<controller, statusLast, demoLast, demoIndex>>
    /\ UNCHANGED <<cur, locals, now>>

\* node_c_controller_periodic: each test reads fields that callbacks write;
\* setting the flag and logging is a later step.
CheckNodeA ==
    /\ pc = "checkA"
    /\ pc' = IF /\ env.valid /\ ~aReported
                /\ Elapsed(cur, env.last) > NodeATimeout
             THEN "reportA" ELSE "checkB"
    /\ UNCHANGED <<controller, timers, cur, locals, network, now>>

\* Mutant: the flag of the other node, as in the block below it.
ReportNodeAWrongFlag ==
    /\ pc = "reportA" /\ pc' = "checkB"
    /\ bReported' = TRUE
    /\ UNCHANGED <<mode, device, env, nodeBLast, aReported>>
    /\ UNCHANGED <<timers, cur, locals, network, now>>

ReportNodeA ==
    /\ pc = "reportA" /\ pc' = "checkB"
    /\ aReported' = TRUE
    /\ UNCHANGED <<mode, device, env, nodeBLast, bReported>>
    /\ UNCHANGED <<timers, cur, locals, network, now>>

CheckNodeB ==
    /\ pc = "checkB"
    /\ pc' = IF /\ nodeBLast # 0 /\ ~bReported
                /\ Elapsed(cur, nodeBLast) > NodeBTimeout
             THEN "reportB" ELSE "status"
    /\ UNCHANGED <<controller, timers, cur, locals, network, now>>

ReportNodeB ==
    /\ pc = "reportB" /\ pc' = "status"
    /\ bReported' = TRUE
    /\ UNCHANGED <<mode, device, env, nodeBLast, aReported>>
    /\ UNCHANGED <<timers, cur, locals, network, now>>

\* Mutant: the clock is read again when the timer is set.
StatusDueReread ==
    /\ pc = "status"
    /\ IF Elapsed(cur, statusLast) >= StatusInterval
       THEN statusLast' = now /\ pc' = "statusSnapshot"
       ELSE pc' = "clock" /\ UNCHANGED statusLast
    /\ UNCHANGED <<controller, heartbeatLast, demoLast, demoIndex>>
    /\ UNCHANGED <<cur, locals, network, now>>

StatusDue ==
    /\ pc = "status"
    /\ IF Elapsed(cur, statusLast) >= StatusInterval
       THEN statusLast' = cur /\ pc' = "statusSnapshot"
       ELSE pc' = "clock" /\ UNCHANGED statusLast
    /\ UNCHANGED <<controller, heartbeatLast, demoLast, demoIndex>>
    /\ UNCHANGED <<cur, locals, network, now>>

\* Every step of the loop but the arrival of a UART line, which is input.
Loop ==
    \/ ReadClock \/ NoUart \/ WriteMode \/ LoadMode \/ PublishMode
    \/ EnterRules \/ LoadTemp \/ Decide \/ TestDevice \/ WriteDevice \/ PublishCommand
    \/ BuildSnapshot \/ PublishSnapshot \/ Demo \/ Poll
    \/ CheckNodeA \/ ReportNodeA \/ CheckNodeB \/ ReportNodeB \/ StatusDue

Main == Loop \/ \E l \in UartLines : UartLine(l)

\* The broker takes the oldest request of this board.
Take ==
    /\ out # <<>>
    /\ out' = Tail(out)
    /\ UNCHANGED <<controller, timers, thread, enabled, link, unacked, lost, now>>

Tick ==
    /\ now < MaxTime
    /\ now' = now + 1
    /\ UNCHANGED <<controller, timers, thread, network>>

\* The board alone: any message of Inputs at any time.
Next ==
    \/ Main \/ Tick
    \/ DnsFound \/ Connected \/ Disconnected \/ Acked \/ Take
    \/ \E m \in Inputs : Receive(m)

\* The loop never stops and time passes; nothing else is promised.
Fairness == WF_vars(Loop) /\ WF_vars(Tick)
Spec == Init /\ [][Next]_vars /\ Fairness

-----------------------------------------------------------------------------
TypeOK ==
    /\ mode \in Modes /\ device \in [Devices -> Switch]
    /\ env \in [valid : BOOLEAN, reading : Reading, last : Nat]
    /\ nodeBLast \in Nat /\ aReported \in BOOLEAN /\ bReported \in BOOLEAN
    /\ statusLast \in Nat /\ heartbeatLast \in Nat /\ demoLast \in Nat
    /\ demoIndex \in DOMAIN DemoReadings
    /\ enabled \in BOOLEAN /\ link \in {"dns", "connecting", "up", "down"}
    /\ pc \in {"clock", "uart", "writeMode", "loadMode", "publishMode", "rules",
               "decide", "humidity", "test", "write", "command", "snapshot", "publish",
               "demo", "poll", "checkA", "reportA", "checkB", "reportB", "status",
               "statusSnapshot", "statusPublish"}
    /\ cur \in Nat /\ now \in Nat
    /\ line \in UartCommand \cup {NoLine}
    /\ want \in Switch
    /\ todo \in Seq(Devices) /\ temp \in Int
    /\ snap \in [topic : {"nodeC"}, mode : Modes, device : [Devices -> Switch]]
    /\ unread \subseteq Fields /\ unread # {}
    /\ out \in Seq(Message) /\ unacked \in Nat /\ lost \subseteq Steering

\* The unsigned subtractions of the loop never wrap for the timers the loop
\* itself writes (status, heartbeat, demo), and no timestamp of the board is
\* ahead of its clock.  The ones a callback writes may be ahead of cur.
TimersBehindPass ==
    /\ statusLast <= cur /\ heartbeatLast <= cur /\ demoLast <= cur
    /\ cur <= now /\ env.last <= now /\ nodeBLast <= now

\* The data of node A is older than the timeout.
Silent == env.valid /\ now - env.last > NodeATimeout

\* While node A stays silent the flag node_a_timeout_reported gets set.
SilenceFlagged == Silent ~> (aReported \/ ~Silent)

\* "A warning is printed when no data of node A came for a certain time"
\* (node_c_central_manager_guide.md:157): a silence that the board says it
\* has reported is a silence.
AlarmGenuine == aReported => Silent
=============================================================================
