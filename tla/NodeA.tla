-------------------------------- MODULE NodeA --------------------------------
(***************************************************************************)
(* Node A, the sensors: light, temperature and humidity.                   *)
(*   node_a/pico/src/project0.c                                            *)
(*                                                                         *)
(* As on the other boards the MQTT callbacks are interrupts that preempt   *)
(* the loop anywhere, except while it reads the climate sensor: read_dht   *)
(* disables interrupts.  The reading itself is that of SensorRead, which   *)
(* Dht implements.                                                         *)
(***************************************************************************)
EXTENDS Mqtt, SensorRead

CONSTANTS
    MaxInFlight,        \* MQTT_REQ_MAX_IN_FLIGHT
    HeartbeatInterval, SensorInterval, \* the intervals of the code, in ticks
    Word,               \* 2^w, the width of the clock
    MaxPass,            \* the longest pass of the loop, in ticks
    RawLight,           \* what adc_read may return
    Limit               \* how long another program waits for a topic of node A

Sends == {"env", "heartbeatA"}
LightScaleMax == 400
AdcMax == 4095

ASSUME NodeAAssumption ==
    /\ MaxInFlight \in Nat \ {0} /\ Word \in Nat \ {0} /\ MaxPass \in Nat \ {0}
    /\ HeartbeatInterval \in Nat /\ SensorInterval \in Nat
    /\ RawLight \subseteq 0 .. AdcMax /\ Limit \in [Sends -> Nat]
    /\ Climates \subseteq [temp : Int, humidity : Int]

Interval(t) == IF t = "env" THEN SensorInterval ELSE HeartbeatInterval

\* The clock does not come round from one pass to the next, and a reader waits for
\* two intervals and four passes: in the code 5 s at least, for intervals of 2 s
\* and passes of less than 0.1 s.
ASSUME TimeAssumption ==
    \A t \in Sends :
        /\ Interval(t) > 0 /\ Interval(t) + MaxPass <= Word
        /\ Limit[t] >= 2 * (Interval(t) - 1) + 4 * MaxPass

VARIABLES
    aLink, aOut, aUnacked, \* the connection, requests and slots, as in NodeB
    heartbeatLast, sensorLast, \* last_heartbeat_ms, last_sensor_publish_ms
    pc, cur, raw,       \* main loop: its place, now_ms, light_raw
    now,                \* the board's clock
    silence,            \* history: since a message of the topic was accepted
    misses              \* history: how many were due and not sent since then

loop   == <<pc, cur, raw, heartbeatLast, sensorLast>>
client == <<aLink, aOut, aUnacked>>
record == <<silence, misses>>
aVars  == <<client, loop, sensorVars, record, now>>

MqttReady == aLink = "up"
Elapsed(t, then) == (t - then) % Word

\* Mutant: the shift of a 12-bit value to 8 bits in place of the scale.
NormalizeLightShifted(r) == r \div 8

\* normalize_light; raw * 400 is an int, and fits.
NormalizeLight(r) == (r * LightScaleMax) \div AdcMax

\* main before its loop.  Any failure is a panic, which stops the board.
Init ==
    /\ aLink \in {"dns", "connecting", "halted"} /\ aOut = <<>> /\ aUnacked = 0
    /\ heartbeatLast = 0 /\ sensorLast = 0
    /\ pc = "clock" /\ cur = 0 /\ raw = 0 /\ SensorInit
    /\ now \in 0 .. Word - 1    \* two seconds and a Wi-Fi connection later
    /\ silence = [t \in Sends |-> 0] /\ misses = [t \in Sends |-> 0]

\* A message of topic t was due and not sent.  Two in a row are what matters.
Miss(t) == misses' = [misses EXCEPT ![t] = IF @ < 2 THEN @ + 1 ELSE @] /\ UNCHANGED silence

\* node_a_publish.
Publish(m) ==
    LET taken == Taken(MqttReady, aUnacked, MaxInFlight, <<m>>)
    IN  /\ aOut' = aOut \o taken /\ aUnacked' = aUnacked + Len(taken)
        /\ UNCHANGED aLink
        /\ IF taken = <<>> THEN Miss(m.topic)
           ELSE /\ misses' = [misses EXCEPT ![m.topic] = 0]
                /\ silence' = [silence EXCEPT ![m.topic] = 0]

-----------------------------------------------------------------------------
(* Callbacks, at any time but while the sensor is read.                    *)

\* dns_found_cb and start_mqtt_client.
DnsFound ==
    /\ ~reading /\ aLink = "dns" /\ aLink' \in {"connecting", "halted"}
    /\ UNCHANGED <<aOut, aUnacked, loop, sensorVars, record, now>>

\* mqtt_connection_cb: no subscription, only a heartbeat.  Silence counts from here.
Connected ==
    /\ ~reading /\ aLink = "connecting" /\ aLink' = "up"
    /\ aOut' = <<HeartbeatMsg("heartbeatA")>> /\ aUnacked' = 1
    /\ silence' = [t \in Sends |-> 0] /\ misses' = [t \in Sends |-> 0]
    /\ UNCHANGED <<loop, sensorVars, now>>

\* The attempt failed or the connection ended; nothing reconnects.
Disconnected ==
    /\ ~reading /\ aLink \in {"connecting", "up"} /\ aLink' = "down"
    /\ aOut' = <<>> /\ aUnacked' = 0
    /\ UNCHANGED <<loop, sensorVars, record, now>>

Acked ==
    /\ ~reading /\ aUnacked > Len(aOut) /\ aUnacked' = aUnacked - 1
    /\ UNCHANGED <<aLink, aOut, loop, sensorVars, record, now>>

\* The broker takes the oldest request; this needs nothing of the board.
Take ==
    /\ aOut # <<>> /\ aOut' = Tail(aOut)
    /\ UNCHANGED <<aLink, aUnacked, loop, sensorVars, record, now>>

-----------------------------------------------------------------------------
(* Main loop: clock, heartbeat, sensors, sleep.                            *)

Running == aLink # "halted"

ReadClock ==
    /\ Running /\ pc = "clock" /\ pc' = "beat" /\ cur' = now
    /\ UNCHANGED <<client, raw, heartbeatLast, sensorLast, sensorVars, record, now>>

HeartbeatDue ==
    /\ Running /\ pc = "beat"
    /\ IF MqttReady /\ Elapsed(cur, heartbeatLast) >= HeartbeatInterval
       THEN heartbeatLast' = cur /\ pc' = "alive"
       ELSE pc' = "sense" /\ UNCHANGED heartbeatLast
    /\ UNCHANGED <<client, cur, raw, sensorLast, sensorVars, record, now>>

PublishHeartbeat ==
    /\ Running /\ pc = "alive" /\ pc' = "sense"
    /\ Publish(HeartbeatMsg("heartbeatA"))
    /\ UNCHANGED <<cur, raw, heartbeatLast, sensorLast, sensorVars, now>>

\* Mutant: one timer for both.
SensorDueOneTimer ==
    /\ Running /\ pc = "sense"
    /\ IF MqttReady /\ Elapsed(cur, heartbeatLast) >= SensorInterval
       THEN sensorLast' = cur /\ raw' \in RawLight /\ Begin /\ pc' = "read"
       ELSE pc' = "sleep" /\ UNCHANGED <<sensorLast, raw, sensorVars>>
    /\ UNCHANGED <<client, cur, heartbeatLast, record, now>>

\* The timer is set before the sensor is read, whatever comes of it.
SensorDue ==
    /\ Running /\ pc = "sense"
    /\ IF MqttReady /\ Elapsed(cur, sensorLast) >= SensorInterval
       THEN sensorLast' = cur /\ raw' \in RawLight /\ Begin /\ pc' = "read"
       ELSE pc' = "sleep" /\ UNCHANGED <<sensorLast, raw, sensorVars>>
    /\ UNCHANGED <<client, cur, heartbeatLast, record, now>>

\* Mutant: a reading that failed is waited for again, without a start signal.
ReadSensorAgain ==
    /\ Running /\ pc = "read" /\ Return
    /\ IF measured' = Failed THEN pc' = "read" /\ Miss("env")
                             ELSE pc' = "env" /\ UNCHANGED record
    /\ UNCHANGED <<client, cur, raw, heartbeatLast, sensorLast, now>>

\* A reading that failed is skipped, not repeated.
ReadSensor ==
    /\ Running /\ pc = "read" /\ Return
    /\ IF measured' = Failed THEN pc' = "sleep" /\ Miss("env")
                             ELSE pc' = "env" /\ UNCHANGED record
    /\ UNCHANGED <<client, cur, raw, heartbeatLast, sensorLast, now>>

\* publish_environment.
PublishEnvironment ==
    /\ Running /\ pc = "env" /\ pc' = "sleep"
    /\ Publish(EnvMsg([light |-> NormalizeLight(raw), temp |-> measured.temp,
                       humidity |-> measured.humidity]))
    /\ UNCHANGED <<cur, raw, heartbeatLast, sensorLast, sensorVars, now>>

\* The sleep takes a tick at least, the whole pass no more than MaxPass.
Sleep ==
    /\ Running /\ pc = "sleep" /\ pc' = "clock" /\ now # cur
    /\ UNCHANGED <<client, cur, raw, heartbeatLast, sensorLast, sensorVars, record, now>>

Loop ==
    \/ ReadClock \/ HeartbeatDue \/ PublishHeartbeat
    \/ SensorDue \/ ReadSensor \/ PublishEnvironment \/ Sleep

Tick ==
    /\ Running /\ pc # "clock" /\ Elapsed(now, cur) < MaxPass /\ now' = (now + 1) % Word
    /\ silence' = [t \in Sends |-> IF MqttReady /\ silence[t] <= Limit[t]
                                   THEN silence[t] + 1 ELSE silence[t]]
    /\ UNCHANGED <<client, loop, sensorVars, misses>>

Next == DnsFound \/ Connected \/ Disconnected \/ Acked \/ Take \/ Loop \/ Tick

\* The loop is a while (true), read_dht returns, time passes.
Spec == Init /\ [][Next]_aVars /\ WF_aVars(Loop) /\ WF_aVars(Tick)
-----------------------------------------------------------------------------
SentByA ==
    [topic : {"heartbeatA"}]
    \cup [topic : {"env"}, reading : [light : 0 .. LightScaleMax, temp : Int, humidity : Int]]

\* The light sent stays on the scale of the thresholds of node C.
TypeOK ==
    /\ aLink \in {"dns", "connecting", "up", "down", "halted"} /\ aUnacked \in Nat
    /\ aOut \in Seq(SentByA)
    /\ heartbeatLast \in Nat /\ sensorLast \in Nat /\ cur \in Nat /\ now \in Nat
    /\ pc \in {"clock", "beat", "alive", "sense", "read", "env", "sleep"}
    /\ raw \in 0 .. AdcMax /\ reading \in BOOLEAN /\ climate \in Climates
    /\ measured \in Climates \cup {Failed} /\ (pc = "env" => measured # Failed)
    /\ silence \in [Sends -> Nat] /\ misses \in [Sends -> 0 .. 2]

\* Nothing but failure silences node A: while it is connected, a topic stays
\* without a message for longer than its reader waits (five seconds in node C,
\* six in the console) only if two that were due, one after the other, failed or
\* found no slot.
SilenceMeansFailures ==
    MqttReady => \A t \in Sends : silence[t] > Limit[t] => misses[t] = 2

\* A board that stays connected measures again and again.
KeepsMeasuring == MqttReady ~> (reading \/ ~MqttReady)
=============================================================================
