-------------------------------- MODULE Mqtt --------------------------------
(***************************************************************************)
(* The messages of the house and the request slots of the lwIP MQTT client *)
(* through which each board publishes.                                     *)
(*                                                                         *)
(* A message is a record whose "topic" is the MQTT topic without its       *)
(* prefix: house/env, house/mode, house/cmd/light, house/cmd/window,       *)
(* house/status/nodeB, house/status/nodeC and house/heartbeat/*.  A        *)
(* subscription request is a message of topic "subscribe".                 *)
(***************************************************************************)
EXTENDS HouseRules, Sequences

Modes == {"AUTO", "MANUAL"}

EnvMsg(r)        == [topic |-> "env", reading |-> r]
ModeMsg(m)       == [topic |-> "mode", mode |-> m]
CmdMsg(d, s)     == [topic |-> d, state |-> s]
StatusB(dv)      == [topic |-> "nodeB", device |-> dv]
StatusC(m, dv)   == [topic |-> "nodeC", mode |-> m, device |-> dv]
HeartbeatMsg(n)  == [topic |-> n]
SubscribeMsg(t)  == [topic |-> "subscribe", filter |-> t]

Heartbeats == {"heartbeatA", "heartbeatB", "heartbeatC"}
Topic == {"env", "mode", "light", "window", "nodeB", "nodeC"} \cup Heartbeats

\* What a node may hand to its client, the whole vocabulary of the house.
Message ==
    [topic : {"env"}, reading : Reading] \cup [topic : {"mode"}, mode : Modes]
    \cup [topic : Devices, state : Switch]
    \cup [topic : {"nodeB"}, device : [Devices -> Switch]]
    \cup [topic : {"nodeC"}, mode : Modes, device : [Devices -> Switch]]
    \cup [topic : Heartbeats] \cup [topic : {"subscribe"}, filter : Topic]

(***************************************************************************)
(* lwIP keeps an array of MQTT_REQ_MAX_IN_FLIGHT requests; a QoS 1 publish *)
(* or a subscribe that finds no free entry returns ERR_MEM and sends       *)
(* nothing.  No caller looks at that result.  Taken(up, used, slots, msgs) *)
(* is the part of msgs, handed over in order with no acknowledgement in    *)
(* between, that is really sent.                                           *)
(***************************************************************************)
Taken(up, used, slots, msgs) ==
    IF ~up THEN <<>>
    ELSE SubSeq(msgs, 1, IF Len(msgs) <= slots - used THEN Len(msgs)
                                                      ELSE slots - used)

\* The messages of msgs that were handed over after the last one taken.
Refused(taken, msgs) == {msgs[i] : i \in Len(taken)+1 .. Len(msgs)}
=============================================================================
