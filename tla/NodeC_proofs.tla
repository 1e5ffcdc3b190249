----------------------------- MODULE NodeC_proofs -----------------------------
(***************************************************************************)
(* Proofs about NodeC, for every threshold, interval, number of request    *)
(* slots, demo sequence and set of inputs.                                 *)
(*                                                                         *)
(* The inductive invariant IInv is the conjunction of four groups, one per *)
(* part of the state; a group is the share of TypeOK and of the safety     *)
(* invariants that speaks of this part, or what these rest on: the books   *)
(* of the request slots, and the guards the loop tested on its way.  One   *)
(* step lemma per group.                                                   *)
(***************************************************************************)
EXTENDS NodeC, Mqtt_proofs, SequenceTheorems, TLAPS

\* What the node believes of the house.
ControllerOK ==
    /\ mode \in Modes /\ device \in [Devices -> Switch]
    /\ env \in [valid : BOOLEAN, reading : Reading, last : Nat]
    /\ nodeBLast \in Nat /\ aReported \in BOOLEAN /\ bReported \in BOOLEAN

\* The client never holds more requests than it has slots, and holds one for
\* every message the broker has not taken yet; without a connection, none.
SlotAccounting ==
    /\ Len(out) <= unacked /\ unacked <= MaxInFlight
    /\ link # "up" => unacked = 0

\* At its steps on a device the loop has a device at the head of todo, and at
\* those on a mode a mode line.
LoopHasWork ==
    /\ pc \in {"decide", "humidity", "test", "write", "command"} => todo # <<>>
    /\ pc \in {"writeMode", "loadMode", "publishMode"} =>
          line \in [kind : {"mode"}, mode : Modes]

\* The MQTT client and its request slots.
NetworkOK ==
    /\ enabled \in BOOLEAN /\ link \in {"dns", "connecting", "up", "down"}
    /\ out \in Seq(Message) /\ unacked \in Nat /\ lost \subseteq Steering
    /\ SlotAccounting

\* The clock, the pass's copy of it and every timestamp.
TimersOK ==
    /\ statusLast \in Nat /\ heartbeatLast \in Nat /\ demoLast \in Nat
    /\ demoIndex \in DOMAIN DemoReadings
    /\ cur \in Nat /\ now \in Nat
    /\ TimersBehindPass

\* Where the main loop is and what it holds there.
ThreadOK ==
    /\ pc \in {"clock", "uart", "writeMode", "loadMode", "publishMode", "rules",
               "decide", "humidity", "test", "write", "command", "snapshot", "publish",
               "demo", "poll", "checkA", "reportA", "checkB", "reportB", "status",
               "statusSnapshot", "statusPublish"}
    /\ line \in UartCommand \cup {NoLine}
    /\ want \in Switch
    /\ todo \in Seq(Devices) /\ temp \in Int
    /\ snap \in [topic : {"nodeC"}, mode : Modes, device : [Devices -> Switch]]
    /\ unread \subseteq Fields /\ unread # {}
    /\ LoopHasWork

IInv == ControllerOK /\ NetworkOK /\ TimersOK /\ ThreadOK

\* Others may make good what this board lost: its state does not change.
OthersMakeGood ==
    /\ lost' \subseteq lost
    /\ UNCHANGED <<controller, timers, thread, enabled, link, out, unacked, now>>

\* A step of the board among others, where any message may arrive.
BoardStep ==
    \/ Main \/ Tick
    \/ DnsFound \/ Connected \/ Disconnected \/ Acked \/ Take
    \/ \E m \in Message : Receive(m)
    \/ OthersMakeGood

-----------------------------------------------------------------------------
(* The rules.                                                              *)

\* The rules ask for one of the two states of a device.
LEMMA EvaluatedType ==
    ASSUME NEW m, NEW valid, NEW r, device \in [Devices -> Switch]
    PROVE  Evaluated(m, valid, r) \in [Devices -> Switch]
<1>1. \A d \in Devices : Ruled(d, r, device[d]) \in Switch
  BY DEF Ruled, Switch
<1> QED
  BY <1>1 DEF Evaluated

\* The rules do not chatter: between a reading that switches a device on and one
\* that switches it off the light, or for the window temperature or humidity,
\* has crossed the whole band between the two thresholds.
THEOREM NoChatter ==
    ASSUME NEW d \in Devices, NEW s, NEW r \in Reading, NEW q \in Reading,
           s # "ON" /\ Ruled(d, r, s) = "ON", Ruled(d, q, "ON") # "ON"
    PROVE  IF d = "light" THEN q.light - r.light > LightOff - LightOn
           ELSE \/ r.temp - q.temp > OpenTemp - CloseTemp
                \/ r.humidity - q.humidity > OpenHumidity - CloseHumidity
<1>1. AsksOn(d, r) /\ AsksOff(d, q)
  BY DEF Ruled
<1>2. /\ r.light \in Int /\ r.temp \in Int /\ r.humidity \in Int
      /\ q.light \in Int /\ q.temp \in Int /\ q.humidity \in Int
  BY DEF Reading
<1> QED
  BY <1>1, <1>2, ThresholdAssumption DEF AsksOn, AsksOff, Devices

\* What a callback publishes: commands for the devices that change, a status.
LEMMA CommandsType ==
    ASSUME NEW new \in [Devices -> Switch], NEW m \in Modes
    PROVE  Append(Commands(new), StatusC(m, new)) \in Seq(Message)
<1> DEFINE of(d) == IF new[d] = device[d] THEN <<>> ELSE <<CmdMsg(d, new[d])>>
<1>1. \A d \in Devices : of(d) \in Seq(Message)
  BY MessageTypes, EmptySeq
<1>2. Commands(new) = of("light") \o of("window")
  BY DEF Commands
<1>3. of("light") \in Seq(Message) /\ of("window") \in Seq(Message)
  BY <1>1 DEF Devices
<1> HIDE DEF of
<1>4. Commands(new) \in Seq(Message)
  BY <1>2, <1>3, ConcatProperties
<1>5. StatusC(m, new) \in Message
  BY MessageTypes
<1> QED
  BY <1>4, <1>5, AppendProperties

-----------------------------------------------------------------------------
(* The request slots.                                                      *)

\* A publish keeps the books of the client.
LEMMA PublishKeeps ==
    ASSUME NetworkOK, NEW msgs \in Seq(Message), Publish(msgs)
    PROVE  NetworkOK'
<1> DEFINE taken == Taken(MqttReady, unacked, MaxInFlight, msgs)
<1>1. /\ out' = out \o taken /\ unacked' = unacked + Len(taken)
      /\ enabled' = enabled /\ link' = link
  BY DEF Publish
<1>2. lost' \subseteq Steering
  BY DEF Publish, NetworkOK, Topics, Steers
<1>3. /\ taken \in Seq(Message) /\ Len(taken) \in Nat
      /\ unacked + Len(taken) <= MaxInFlight
      /\ ~MqttReady => Len(taken) = 0
  BY SlotAssumption, TakenFits DEF NetworkOK, SlotAccounting
<1> HIDE DEF taken
<1>4. /\ out' \in Seq(Message) /\ Len(out') = Len(out) + Len(taken)
      /\ Len(out) \in Nat
  BY <1>1, <1>3, ConcatProperties, LenProperties DEF NetworkOK
<1>5. SlotAccounting'
  BY <1>1, <1>3, <1>4 DEF NetworkOK, SlotAccounting, MqttReady
<1> QED
  BY <1>1, <1>2, <1>3, <1>4, <1>5 DEF NetworkOK

\* The seven subscription requests are messages.
LEMMA RequestsType ==
    [j \in DOMAIN Required |-> SubscribeMsg(Required[j])] \in Seq(Message)
<1>1. Required \in Seq(Topic) /\ Len(Required) = 7
  BY DEF Required, Topic, Devices, Heartbeats
<1>2. \A j \in 1 .. 7 : SubscribeMsg(Required[j]) \in Message
  BY <1>1, MessageTypes, ElementOfSeq
<1>3. DOMAIN Required = 1 .. 7
  BY <1>1, LenProperties
<1>4. [j \in 1 .. 7 |-> SubscribeMsg(Required[j])] \in [1 .. 7 -> Message]
  BY <1>2
<1> QED
  BY <1>3, <1>4, SeqDef

\* One message alone.
LEMMA PublishOneKeeps ==
    ASSUME NetworkOK, NEW m \in Message, Publish(<<m>>)
    PROVE  NetworkOK'
<1>1. <<m>> \in Seq(Message)
  OBVIOUS
<1> QED
  BY <1>1, PublishKeeps

-----------------------------------------------------------------------------
(* The callbacks, run whole.                                               *)

\* Data of node A, from the broker or from the demo sequence.
LEMMA ApplyEnvKeeps ==
    ASSUME ControllerOK, NetworkOK, NEW r \in Reading, NEW t \in Nat, ApplyEnv(r, t)
    PROVE  /\ ControllerOK' /\ NetworkOK'
           /\ env'.last = t /\ nodeBLast' = nodeBLast
<1> DEFINE new == Evaluated(mode, TRUE, r)
<1>1. new \in [Devices -> Switch] /\ mode \in Modes
  BY EvaluatedType DEF ControllerOK
<1>2. /\ env' = [valid |-> TRUE, reading |-> r, last |-> t] /\ aReported' = FALSE
      /\ device' = new
      /\ Publish(Append(Commands(new), StatusC(mode, new)))
      /\ UNCHANGED <<mode, nodeBLast, bReported>>
  BY DEF ApplyEnv
<1> HIDE DEF new
<1>3. Append(Commands(new), StatusC(mode, new)) \in Seq(Message)
  BY <1>1, CommandsType
<1>4. NetworkOK'
  BY <1>2, <1>3, PublishKeeps
<1>5. ControllerOK'
  BY <1>1, <1>2 DEF ControllerOK
<1> QED
  BY <1>2, <1>4, <1>5

\* A mode heard from the broker.
LEMMA ApplyModeKeeps ==
    ASSUME ControllerOK, NetworkOK, NEW next \in Modes, ApplyMode(next)
    PROVE  /\ ControllerOK' /\ NetworkOK'
           /\ env' = env /\ nodeBLast' = nodeBLast
<1>1. CASE mode = next
  BY <1>1 DEF ApplyMode, controller, network, ControllerOK, NetworkOK, SlotAccounting
<1>2. CASE mode # next
  <2> DEFINE new == Evaluated(next, env.valid, env.reading)
  <2>1. new \in [Devices -> Switch]
    BY EvaluatedType DEF ControllerOK
  <2>2. /\ mode' = next /\ device' = new
        /\ Publish(Append(Commands(new), StatusC(next, new)))
        /\ UNCHANGED <<env, nodeBLast, aReported, bReported>>
    BY <1>2 DEF ApplyMode
  <2> HIDE DEF new
  <2>3. Append(Commands(new), StatusC(next, new)) \in Seq(Message)
    BY <2>1, CommandsType
  <2>4. NetworkOK'
    BY <2>2, <2>3, PublishKeeps
  <2>5. ControllerOK'
    BY <2>1, <2>2 DEF ControllerOK
  <2> QED
    BY <2>2, <2>4, <2>5
<1> QED
  BY <1>1, <1>2

\* A command heard from the broker.
LEMMA ApplyCommandKeeps ==
    ASSUME ControllerOK, NetworkOK, NEW d \in Devices, NEW s \in Switch,
           ApplyCommand(d, s)
    PROVE  /\ ControllerOK' /\ NetworkOK'
           /\ env' = env /\ nodeBLast' = nodeBLast
<1>1. CASE mode # "MANUAL"
  BY <1>1 DEF ApplyCommand, controller, network, ControllerOK, NetworkOK, SlotAccounting
<1>2. CASE mode = "MANUAL"
  <2>1. /\ device' = [device EXCEPT ![d] = s] /\ Publish(<<StatusC(mode, device')>>)
        /\ UNCHANGED <<mode, env, nodeBLast, aReported, bReported>>
    BY <1>2 DEF ApplyCommand
  <2>2. ControllerOK'
    BY <2>1 DEF ControllerOK
  <2>3. StatusC(mode, device') \in Message
    BY <2>1, <2>2, MessageTypes DEF ControllerOK
  <2> QED
    BY <2>1, <2>2, <2>3, PublishOneKeeps
<1> QED
  BY <1>1, <1>2

\* A status of node B.
LEMMA ApplyNodeBStatusKeeps ==
    ASSUME ControllerOK, NetworkOK, now \in Nat, NEW dv \in [Devices -> Switch],
           ApplyNodeBStatus(dv)
    PROVE  /\ ControllerOK' /\ NetworkOK'
           /\ env' = env /\ nodeBLast' = now
<1>1. /\ device' = dv /\ nodeBLast' = now /\ bReported' = FALSE
      /\ Publish(<<StatusC(mode, dv)>>)
      /\ UNCHANGED <<mode, env, aReported>>
  BY DEF ApplyNodeBStatus
<1>2. ControllerOK'
  BY <1>1 DEF ControllerOK
<1>3. StatusC(mode, dv) \in Message
  BY MessageTypes DEF ControllerOK
<1> QED
  BY <1>1, <1>2, <1>3, PublishOneKeeps

\* Whatever the broker delivers: a callback writes timestamps with the clock.
LEMMA ReceiveKeeps ==
    ASSUME ControllerOK, NetworkOK, now \in Nat, NEW m \in Message, Receive(m)
    PROVE  /\ ControllerOK' /\ NetworkOK'
           /\ env'.last \in {env.last, now} /\ nodeBLast' \in {nodeBLast, now}
<1>1. CASE m.topic = "env" /\ ApplyEnv(m.reading, now)
  BY <1>1, MessageFields, ApplyEnvKeeps
<1>2. CASE m.topic = "mode" /\ ApplyMode(m.mode)
  BY <1>2, MessageFields, ApplyModeKeeps
<1>3. CASE m.topic \in Devices /\ ApplyCommand(m.topic, m.state)
  BY <1>3, MessageFields, ApplyCommandKeeps
<1>4. CASE m.topic = "nodeB" /\ ApplyNodeBStatus(m.device)
  BY <1>4, MessageFields, ApplyNodeBStatusKeeps
<1>5. CASE UNCHANGED <<controller, network>>
  BY <1>5 DEF controller, network, ControllerOK, NetworkOK, SlotAccounting
<1> QED
  BY <1>1, <1>2, <1>3, <1>4, <1>5 DEF Receive

-----------------------------------------------------------------------------
(* The steps, one lemma per group of IInv.                                 *)

\* Demo data are readings, and the index stays within the sequence.
LEMMA DemoRange ==
    ASSUME demoIndex \in DOMAIN DemoReadings
    PROVE  /\ DemoReadings[demoIndex] \in Reading
           /\ NextDemo \in DOMAIN DemoReadings
<1>1. /\ DOMAIN DemoReadings = 1 .. Len(DemoReadings)
      /\ Len(DemoReadings) \in Nat \ {0}
      /\ DemoReadings \in [1 .. Len(DemoReadings) -> Reading]
  BY DemoAssumption, LenProperties, EmptySeq
<1>2. NextDemo \in 1 .. Len(DemoReadings)
  BY <1>1 DEF NextDemo
<1> QED
  BY <1>1, <1>2

\* One pass over the demo step, with or without data.
LEMMA DemoKeeps ==
    ASSUME IInv, Demo
    PROVE  /\ ControllerOK' /\ NetworkOK'
           /\ env'.last \in {env.last, cur} /\ nodeBLast' = nodeBLast
           /\ demoLast' \in {demoLast, cur} /\ demoIndex' \in DOMAIN DemoReadings
<1>1. CASE /\ demoLast' = cur
           /\ demoIndex' = NextDemo
           /\ ApplyEnv(DemoReadings[demoIndex], cur)
  BY <1>1, DemoRange, ApplyEnvKeeps DEF IInv, TimersOK
<1>2. CASE UNCHANGED <<controller, demoLast, demoIndex, network>>
  BY <1>2 DEF IInv, TimersOK, controller, network, ControllerOK, NetworkOK, SlotAccounting
<1> QED
  BY <1>1, <1>2 DEF Demo

\* Nothing in the invariant can be disturbed by a step that changes nothing.
LEMMA StutterKeeps ==
    ASSUME IInv, UNCHANGED vars
    PROVE  IInv'
  BY DEF IInv, vars, controller, timers, thread, locals, network, ControllerOK, NetworkOK,
         TimersOK, ThreadOK, SlotAccounting, TimersBehindPass, LoopHasWork

LEMMA ControllerStep ==
    ASSUME IInv, BoardStep
    PROVE  ControllerOK'
<1> USE DEF IInv
<1>1. CASE \E m \in Message : Receive(m)
  BY <1>1, ReceiveKeeps DEF TimersOK
<1>2. CASE Demo
  BY <1>2, DemoKeeps
<1>3. CASE WriteMode
  BY <1>3 DEF WriteMode, ControllerOK, ThreadOK, LoopHasWork
<1>4. CASE WriteDevice
  <2>1. Head(todo) \in Devices /\ want \in Switch
    BY <1>4, HeadTailProperties DEF WriteDevice, ThreadOK, LoopHasWork
  <2> QED
    BY <1>4, <2>1 DEF WriteDevice, ControllerOK
<1>5. CASE ReportNodeA \/ ReportNodeB
  BY <1>5 DEF ReportNodeA, ReportNodeB, ControllerOK
<1>6. CASE \/ ReadClock \/ NoUart \/ LoadMode \/ PublishMode \/ EnterRules \/ LoadTemp \/ Decide
           \/ TestDevice \/ PublishCommand \/ BuildSnapshot \/ PublishSnapshot
           \/ Poll \/ CheckNodeA \/ CheckNodeB \/ StatusDue
           \/ \E l \in UartLines : UartLine(l)
  BY <1>6 DEF ReadClock, NoUart, LoadMode, PublishMode, EnterRules, LoadTemp, Decide,
              TestDevice, PublishCommand, BuildSnapshot, PublishSnapshot, Poll, CheckNodeA,
              CheckNodeB, StatusDue, UartLine, controller, ControllerOK
<1>7. CASE Tick \/ DnsFound \/ Connected \/ Disconnected \/ Acked \/ Take \/ OthersMakeGood
  BY <1>7 DEF Tick, DnsFound, Connected, Disconnected, Acked, Take, OthersMakeGood,
              controller, ControllerOK
<1> QED
  BY <1>1, <1>2, <1>3, <1>4, <1>5, <1>6, <1>7 DEF BoardStep, Main, Loop

LEMMA NetworkStep ==
    ASSUME IInv, BoardStep
    PROVE  NetworkOK'
<1> USE DEF IInv
<1>1. CASE \E m \in Message : Receive(m)
  BY <1>1, ReceiveKeeps DEF TimersOK
<1>2. CASE Demo
  BY <1>2, DemoKeeps
<1>3. CASE PublishMode
  BY <1>3, MessageTypes, PublishOneKeeps DEF PublishMode, ThreadOK
<1>4. CASE PublishCommand
  <2>1. Head(todo) \in Devices /\ want \in Switch
    BY <1>4, HeadTailProperties DEF PublishCommand, ThreadOK, LoopHasWork
  <2> QED
    BY <1>4, <2>1, MessageTypes, PublishOneKeeps DEF PublishCommand
<1>5. CASE PublishSnapshot
  <2>1. snap \in Message
    BY DEF ThreadOK, Message
  <2> QED
    BY <1>5, <2>1, PublishOneKeeps DEF PublishSnapshot
<1>6. CASE Poll
  BY <1>6, MessageTypes, PublishOneKeeps
     DEF Poll, Heartbeats, network, NetworkOK, SlotAccounting
<1>7. CASE Connected
  <2> DEFINE requests == [j \in DOMAIN Required |-> SubscribeMsg(Required[j])]
             taken == Taken(TRUE, unacked, MaxInFlight, requests)
  <2>1. requests \in Seq(Message)
    BY RequestsType
  <2>2. /\ out' = out \o taken /\ unacked' = unacked + Len(taken)
        /\ link' = "up" /\ enabled' = enabled /\ lost' = lost
    BY <1>7 DEF Connected
  <2> HIDE DEF requests
  <2>3. /\ taken \in Seq(Message) /\ Len(taken) \in Nat
        /\ unacked + Len(taken) <= MaxInFlight
    BY <2>1, SlotAssumption, TakenFits DEF NetworkOK, SlotAccounting
  <2> HIDE DEF taken
  <2>4. /\ out' \in Seq(Message) /\ Len(out') = Len(out) + Len(taken)
        /\ Len(out) \in Nat
    BY <2>2, <2>3, ConcatProperties, LenProperties DEF NetworkOK
  <2> QED
    BY <2>2, <2>3, <2>4 DEF NetworkOK, SlotAccounting
<1>8. CASE Disconnected
  <2>1. lost' \subseteq Steering
    BY <1>8 DEF Disconnected, NetworkOK, Topics, Steers
  <2>2. out' = <<>> /\ unacked' = 0 /\ link' = "down" /\ enabled' = enabled
    BY <1>8 DEF Disconnected
  <2>3. out' \in Seq(Message) /\ Len(out') = 0
    BY <2>2, EmptySeq
  <2> QED
    BY <2>1, <2>2, <2>3, SlotAssumption DEF NetworkOK, SlotAccounting
<1>9. CASE Acked
  <2>1. /\ unacked' = unacked - 1 /\ unacked > Len(out)
        /\ enabled' = enabled /\ link' = link /\ out' = out /\ lost' = lost
    BY <1>9 DEF Acked
  <2>2. Len(out) \in Nat /\ unacked \in Nat /\ MaxInFlight \in Nat
    BY LenProperties, SlotAssumption DEF NetworkOK
  <2>3. SlotAccounting'
    BY <2>1, <2>2 DEF NetworkOK, SlotAccounting
  <2>4. unacked' \in Nat
    BY <2>1, <2>2
  <2> QED
    BY <2>1, <2>3, <2>4 DEF NetworkOK
<1>10. CASE Take
  BY <1>10, HeadTailProperties, LenProperties DEF Take, NetworkOK, SlotAccounting
<1>11. CASE \/ ReadClock \/ NoUart \/ WriteMode \/ LoadMode \/ EnterRules \/ LoadTemp \/ Decide
            \/ TestDevice \/ WriteDevice \/ BuildSnapshot \/ CheckNodeA \/ ReportNodeA
            \/ CheckNodeB \/ ReportNodeB \/ StatusDue \/ Tick
            \/ \E l \in UartLines : UartLine(l)
  BY <1>11 DEF ReadClock, NoUart, WriteMode, LoadMode, EnterRules, LoadTemp, Decide,
               TestDevice, WriteDevice, BuildSnapshot, CheckNodeA, ReportNodeA, CheckNodeB,
               ReportNodeB, StatusDue, Tick, UartLine,
               network, NetworkOK, SlotAccounting
<1>12. CASE DnsFound \/ OthersMakeGood
  BY <1>12 DEF DnsFound, OthersMakeGood, NetworkOK, SlotAccounting
<1> QED
  BY <1>1, <1>2, <1>3, <1>4, <1>5, <1>6, <1>7, <1>8, <1>9, <1>10, <1>11, <1>12
     DEF BoardStep, Main, Loop

LEMMA TimersStep ==
    ASSUME IInv, BoardStep
    PROVE  TimersOK'
<1> USE DEF IInv, TimersOK, TimersBehindPass
<1>0. /\ env.last \in Nat /\ nodeBLast \in Nat
  BY DEF ControllerOK
<1>1. CASE \E m \in Message : Receive(m)
  <2>1. PICK m \in Message : Receive(m)
    BY <1>1
  <2>2. env'.last \in {env.last, now} /\ nodeBLast' \in {nodeBLast, now}
    BY <2>1, ReceiveKeeps
  <2>3. UNCHANGED <<statusLast, heartbeatLast, demoLast, demoIndex, cur, now>>
    BY <2>1 DEF Receive, timers, thread, locals
  <2> QED
    BY <1>0, <2>2, <2>3
<1>2. CASE Demo
  <2>1. UNCHANGED <<statusLast, heartbeatLast, cur, now>>
    BY <1>2 DEF Demo
  <2>2. /\ env'.last \in {env.last, cur} /\ nodeBLast' = nodeBLast
        /\ demoLast' \in {demoLast, cur} /\ demoIndex' \in DOMAIN DemoReadings
    BY <1>2, DemoKeeps
  <2> QED
    BY <1>0, <2>1, <2>2
<1>3. CASE ReadClock
  BY <1>0, <1>3 DEF ReadClock, controller, timers
<1>4. CASE Poll \/ StatusDue
  BY <1>0, <1>4 DEF Poll, StatusDue, controller
<1>5. CASE Tick
  BY <1>0, <1>5 DEF Tick, controller, timers, thread, locals
<1>6. CASE \/ NoUart \/ WriteMode \/ LoadMode \/ PublishMode \/ EnterRules \/ LoadTemp \/ Decide
           \/ TestDevice \/ WriteDevice \/ PublishCommand \/ BuildSnapshot
           \/ PublishSnapshot \/ CheckNodeA \/ ReportNodeA \/ CheckNodeB
           \/ ReportNodeB \/ \E l \in UartLines : UartLine(l)
  BY <1>6 DEF NoUart, WriteMode, LoadMode, PublishMode, EnterRules, LoadTemp, Decide, TestDevice,
              WriteDevice, PublishCommand, BuildSnapshot, PublishSnapshot,
              CheckNodeA, ReportNodeA, CheckNodeB, ReportNodeB, UartLine,
              controller, timers
<1>7. CASE DnsFound \/ Connected \/ Disconnected \/ Acked \/ Take \/ OthersMakeGood
  BY <1>7 DEF DnsFound, Connected, Disconnected, Acked, Take, OthersMakeGood,
              controller, timers, thread, locals
<1> QED
  BY <1>1, <1>2, <1>3, <1>4, <1>5, <1>6, <1>7 DEF BoardStep, Main, Loop

\* What NextDevice leaves is again a list of devices, empty only when the loop
\* has left the rules.
LEMMA NextDeviceKeeps ==
    ASSUME ThreadOK, todo # <<>>, NextDevice
    PROVE  /\ todo' \in Seq(Devices) /\ pc' \in {"snapshot", "decide"}
           /\ pc' = "decide" => todo' # <<>>
  BY HeadTailProperties DEF ThreadOK, NextDevice

LEMMA ThreadStep ==
    ASSUME IInv, BoardStep
    PROVE  ThreadOK'
<1> USE DEF IInv, LoopHasWork, locals
<1>1. CASE \E l \in UartLines : UartLine(l)
  <2>1. PICK l \in UartLines : UartLine(l)
    BY <1>1
  <2>2. /\ l \in UartCommand
        /\ l.kind = "mode" => l \in [kind : {"mode"}, mode : Modes]
        /\ l.kind = "device" => l.device \in Devices /\ l.state \in Switch
    BY InputAssumption DEF UartCommand
  <2>3. CASE /\ l.kind = "mode"
             /\ pc' = (IF mode = l.mode THEN "demo" ELSE "writeMode")
             /\ UNCHANGED <<want, todo>>
    BY <2>1, <2>2, <2>3 DEF UartLine, ThreadOK
  <2>4. CASE /\ l.kind = "device"
             /\ pc' = (IF mode = "MANUAL" THEN "test" ELSE "demo")
             /\ want' = l.state /\ todo' = <<l.device>>
    <3>1. todo' \in Seq(Devices) /\ todo' # <<>>
      BY <2>2, <2>4
    <3>2. line' = l /\ UNCHANGED <<temp, snap, unread>>
      BY <2>1 DEF UartLine
    <3> QED
      BY <2>2, <2>4, <3>1, <3>2 DEF ThreadOK
  <2> QED
    BY <2>1, <2>3, <2>4 DEF UartLine
<1>2. CASE EnterRules
  <2>1. <<"light", "window">> \in Seq(Devices) /\ <<"light", "window">> # <<>>
    BY DEF Devices
  <2>2. <<>> \in Seq(Devices)
    BY EmptySeq
  <2> QED
    BY <1>2, <2>1, <2>2 DEF EnterRules, ThreadOK
<1>3. CASE Decide
  <2>1. want' \in Switch /\ UNCHANGED <<line, temp, snap, unread>>
    BY <1>3 DEF Decide, Compare, ThreadOK, Switch
  <2>2. CASE NextDevice
    BY <1>3, <2>1, <2>2, NextDeviceKeeps DEF Decide, Compare, ThreadOK
  <2>3. CASE pc' = "test" /\ UNCHANGED todo
    BY <1>3, <2>1, <2>3 DEF Decide, Compare, ThreadOK
  <2> QED
    BY <1>3, <2>2, <2>3 DEF Decide, Compare
<1>4. CASE TestDevice
  <2>1. CASE NextDevice
    BY <1>4, <2>1, NextDeviceKeeps DEF TestDevice, ThreadOK
  <2>2. CASE pc' = "write" /\ UNCHANGED todo
    BY <1>4, <2>2 DEF TestDevice, ThreadOK
  <2> QED
    BY <1>4, <2>1, <2>2 DEF TestDevice
<1>5. CASE PublishCommand
  BY <1>5, NextDeviceKeeps DEF PublishCommand, ThreadOK
<1>6. CASE BuildSnapshot
  <2>1. PICK f \in unread :
          /\ snap' = IF f = "mode" THEN [snap EXCEPT !.mode = mode]
                     ELSE [snap EXCEPT !.device = [@ EXCEPT ![f] = device[f]]]
          /\ IF unread = {f}
             THEN /\ pc' = IF pc = "snapshot" THEN "publish" ELSE "statusPublish"
                  /\ unread' = Fields
             ELSE unread' = unread \ {f} /\ UNCHANGED pc
    BY <1>6 DEF BuildSnapshot
  <2>2. pc \in {"snapshot", "statusSnapshot"} /\ UNCHANGED <<line, want, todo, temp>>
    BY <1>6 DEF BuildSnapshot
  <2>3. unread' \subseteq Fields /\ unread' # {}
    BY <2>1 DEF ThreadOK, Fields
  <2>4. f # "mode" => f \in Devices /\ device[f] \in Switch
    BY DEF ThreadOK, Fields, ControllerOK
  <2>5. snap' \in [topic : {"nodeC"}, mode : Modes, device : [Devices -> Switch]]
    BY <2>1, <2>4 DEF ThreadOK, ControllerOK
  <2>6. pc' \in {"snapshot", "publish", "statusSnapshot", "statusPublish"}
    BY <2>1, <2>2
  <2> QED
    BY <2>2, <2>3, <2>5, <2>6 DEF ThreadOK
<1>7. CASE WriteMode \/ WriteDevice
  BY <1>7 DEF WriteMode, WriteDevice, ThreadOK
<1>13. CASE LoadMode
  BY <1>13 DEF LoadMode, ThreadOK, ControllerOK
<1>8. CASE \/ ReadClock \/ NoUart \/ Demo \/ Poll
           \/ CheckNodeA \/ ReportNodeA \/ CheckNodeB \/ ReportNodeB \/ StatusDue
  BY <1>8 DEF ReadClock, NoUart, Demo, Poll, CheckNodeA,
              ReportNodeA, CheckNodeB, ReportNodeB, StatusDue, ThreadOK
<1>9. CASE Tick \/ DnsFound \/ Connected \/ Disconnected \/ Acked \/ Take \/ OthersMakeGood
  BY <1>9 DEF Tick, DnsFound, Connected, Disconnected, Acked, Take, OthersMakeGood, thread, ThreadOK
<1>10. CASE \E m \in Message : Receive(m)
  BY <1>10 DEF Receive, thread, ThreadOK
<1>11. CASE LoadTemp
  BY <1>11 DEF LoadTemp, ThreadOK, ControllerOK, Reading
<1>12. CASE PublishSnapshot \/ PublishMode
  <2>1. NoSnapshot \in [topic : {"nodeC"}, mode : Modes, device : [Devices -> Switch]]
    BY DEF NoSnapshot, StatusC, AllOff, Modes, Switch
  <2> QED
    BY <1>12, <2>1 DEF PublishSnapshot, PublishMode, ThreadOK
<1> QED
  BY <1>1, <1>2, <1>3, <1>4, <1>5, <1>6, <1>7, <1>8, <1>9, <1>10, <1>11, <1>12, <1>13
     DEF BoardStep, Main, Loop

-----------------------------------------------------------------------------
(* The theorems.                                                           *)

\* A board that has just booted.
LEMMA InitIInv == Init => IInv
<1> SUFFICES ASSUME Init PROVE IInv
  OBVIOUS
<1>1. AllOff \in [Devices -> Switch] /\ ZeroReading \in Reading
  BY DEF AllOff, Switch, ZeroReading, Reading
<1>2. ControllerOK
  BY <1>1 DEF Init, ControllerOK, Modes
<1>3. NetworkOK
  <2>1. out \in Seq(Message) /\ Len(out) = 0
    BY EmptySeq DEF Init
  <2>2. SlotAccounting
    BY <2>1, SlotAssumption DEF Init, SlotAccounting
  <2>3. enabled \in BOOLEAN /\ link \in {"dns", "connecting", "up", "down"}
    BY DEF Init, Started
  <2> QED
    BY <2>1, <2>2, <2>3 DEF Init, Started, NetworkOK
<1>4. demoIndex \in DOMAIN DemoReadings
  BY DemoAssumption, LenProperties, EmptySeq DEF Init
<1>5. TimersOK
  BY <1>4 DEF Init, TimersOK, TimersBehindPass, BootTime
<1>6. ThreadOK
  BY <1>1, EmptySeq DEF Init, ThreadOK, LoopHasWork, NoSnapshot, StatusC, Modes, Switch, Fields
<1> QED
  BY <1>2, <1>3, <1>5, <1>6 DEF IInv

LEMMA StepIInv == IInv /\ [BoardStep]_vars => IInv'
  BY ControllerStep, NetworkStep, TimersStep, ThreadStep, StutterKeeps DEF IInv

LEMMA NextIsBoardStep == Next => BoardStep
  BY InputAssumption DEF Next, BoardStep

\* IInv holds in every reachable state.
LEMMA Invariance == Spec => []IInv
  BY InitIInv, StepIInv, NextIsBoardStep, PTL DEF Spec

\* Every variable of node C keeps its type.
THEOREM TypeCorrect == Spec => []TypeOK
<1>1. IInv => TypeOK
  BY DEF IInv, ControllerOK, NetworkOK, TimersOK, ThreadOK, TypeOK
<1> QED
  BY <1>1, Invariance, PTL

\* The unsigned subtractions for the status, heartbeat and demo timers never
\* wrap, wherever callbacks and ticks of the clock fall in a pass.
THEOREM TimersOrdered == Spec => []TimersBehindPass
<1>1. IInv => TimersBehindPass
  BY DEF IInv, TimersOK
<1> QED
  BY <1>1, Invariance, PTL
=============================================================================
