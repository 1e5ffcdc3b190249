-------------------------------- MODULE NodeB --------------------------------
(***************************************************************************)
(* Node B, the actuators: a lamp and a window.                             *)
(*   node_b/src/tempservo_led.c                                            *)
(*                                                                         *)
(* All its work is done in the MQTT callbacks, which nothing of the board  *)
(* interrupts (the servo sleeps inside them), so each is one action.  The  *)
(* main loop only publishes a heartbeat.  Node B knows nothing of modes.   *)
(* The stepwise servo motion inside a window command is in ServoMotion.    *)
(***************************************************************************)
EXTENDS Mqtt

CONSTANTS MaxInFlight, HeartbeatInterval, Word, MaxTime, BInputs

ASSUME NodeBAssumption ==
    /\ MaxInFlight \in Nat \ {0} /\ Word \in Nat \ {0}
    /\ HeartbeatInterval \in Nat /\ BInputs \subseteq Message

VARIABLES
    actuator,           \* lamp_on and window_open
    bLink,              \* the MQTT connection; mqtt_ready is bLink = "up"
    bOut, bUnacked,     \* requests not yet at the broker; slots in use
    bHeartbeatLast,     \* last_heartbeat_ms
    bLost,              \* history: the last status was refused or dropped
    now

bVars == <<actuator, bLink, bOut, bUnacked, bHeartbeatLast, bLost, now>>

\* main before its loop: LED and window are driven to OFF and CLOSE.  A failure
\* of the radio, the network, the lookup, the client or its request is a panic,
\* which stops the board ("halted").
Init ==
    /\ actuator = [d \in Devices |-> "OFF"]
    /\ bLink \in {"dns", "connecting", "halted"} /\ bOut = <<>> /\ bUnacked = 0
    /\ bHeartbeatLast = 0 /\ bLost = FALSE /\ now = 1

\* node_b_publish.  A status that is taken makes good one that was not: it
\* tells the whole state.
Publish(up, msgs) ==
    LET taken == Taken(up, bUnacked, MaxInFlight, msgs)
        told  == \E i \in DOMAIN taken : taken[i].topic = "nodeB"
    IN  /\ bOut' = bOut \o taken
        /\ bUnacked' = bUnacked + Len(taken)
        /\ bLost' = \/ bLost /\ ~told
                    \/ \E m \in Refused(taken, msgs) : m.topic = "nodeB"

\* Mutant: no status after a change.
ReceiveSilently(m) ==
    /\ bLink = "up" /\ m.topic \in Devices
    /\ actuator' = [actuator EXCEPT ![m.topic] = m.state]
    /\ UNCHANGED <<bLink, bHeartbeatLast, now, bOut, bUnacked, bLost>>

\* mqtt_incoming_data_cb, set_lamp_state, set_window_state: a status is
\* published only when the state changes.
Receive(m) ==
    /\ bLink = "up" /\ UNCHANGED <<bLink, bHeartbeatLast, now>>
    /\ IF m.topic \notin Devices \/ actuator[m.topic] = m.state
       THEN UNCHANGED <<actuator, bOut, bUnacked, bLost>>
       ELSE /\ actuator' = [actuator EXCEPT ![m.topic] = m.state]
            /\ Publish(TRUE, <<StatusB(actuator')>>)

\* dns_found_cb and start_mqtt_client.
DnsFound ==
    /\ bLink = "dns" /\ bLink' \in {"connecting", "halted"}
    /\ UNCHANGED <<actuator, bOut, bUnacked, bHeartbeatLast, bLost, now>>

\* Mutant: a misspelt topic.
ConnectedMisspelt ==
    /\ bLink = "connecting" /\ bLink' = "up"
    /\ Publish(TRUE, <<SubscribeMsg("lamp"), SubscribeMsg("window"),
                       StatusB(actuator), HeartbeatMsg("heartbeatB")>>)
    /\ UNCHANGED <<actuator, bHeartbeatLast, now>>

\* mqtt_connection_cb: subscribe, then report the state and a heartbeat.
Connected ==
    /\ bLink = "connecting" /\ bLink' = "up"
    /\ Publish(TRUE, <<SubscribeMsg("light"), SubscribeMsg("window"),
                       StatusB(actuator), HeartbeatMsg("heartbeatB")>>)
    /\ UNCHANGED <<actuator, bHeartbeatLast, now>>

\* The attempt failed or the connection ended; nothing reconnects.
Disconnected ==
    /\ bLink \in {"connecting", "up"} /\ bLink' = "down"
    /\ bOut' = <<>> /\ bUnacked' = 0
    /\ bLost' = (bLost \/ \E i \in DOMAIN bOut : bOut[i].topic = "nodeB")
    /\ UNCHANGED <<actuator, bHeartbeatLast, now>>

\* The main loop: only it touches last_heartbeat_ms.
Heartbeat ==
    /\ bLink = "up" /\ (now - bHeartbeatLast) % Word >= HeartbeatInterval
    /\ bHeartbeatLast' = now
    /\ UNCHANGED <<actuator, bLink, now>>
    /\ Publish(TRUE, <<HeartbeatMsg("heartbeatB")>>)

Acked ==
    /\ bUnacked > Len(bOut) /\ bUnacked' = bUnacked - 1
    /\ UNCHANGED <<actuator, bLink, bOut, bHeartbeatLast, bLost, now>>

\* The broker takes the oldest request of this board.
Take ==
    /\ bOut # <<>> /\ bOut' = Tail(bOut)
    /\ UNCHANGED <<actuator, bLink, bUnacked, bHeartbeatLast, bLost, now>>

Tick ==
    /\ now < MaxTime /\ now' = now + 1
    /\ UNCHANGED <<actuator, bLink, bOut, bUnacked, bHeartbeatLast, bLost>>

Next ==
    \/ DnsFound \/ Connected \/ Disconnected \/ Heartbeat \/ Acked \/ Take \/ Tick
    \/ \E m \in BInputs : Receive(m)

Spec == Init /\ [][Next]_bVars
-----------------------------------------------------------------------------
TypeOK ==
    /\ actuator \in [Devices -> Switch]
    /\ bLink \in {"dns", "connecting", "up", "down", "halted"}
    /\ bOut \in Seq(Message) /\ bUnacked \in Nat
    /\ bHeartbeatLast \in Nat /\ bLost \in BOOLEAN /\ now \in Nat

\* The last status node B handed over tells its state, unless a later one was
\* refused: a reader of the whole stream knows the state of the actuators.
LastStatus(i) ==
    /\ bOut[i].topic = "nodeB"
    /\ \A j \in DOMAIN bOut : j > i => bOut[j].topic # "nodeB"
LastStatusTrue ==
    ~bLost => \A i \in DOMAIN bOut : LastStatus(i) => bOut[i] = StatusB(actuator)
=============================================================================
