----------------------------- MODULE NodeB_proofs -----------------------------
(* Proofs about NodeB, for every number of slots, interval and input.       *)
EXTENDS NodeB, Mqtt_proofs, SequenceTheorems, TLAPS

\* The client never holds more requests than it has slots, and holds one for
\* every message the broker has not taken yet.
SlotAccounting == Len(bOut) <= bUnacked /\ bUnacked <= MaxInFlight

IInv == TypeOK /\ SlotAccounting /\ LastStatusTrue

-----------------------------------------------------------------------------
\* What node_b_publish does to the requests and the slots.
LEMMA PublishFits ==
    ASSUME TypeOK, SlotAccounting, NEW msgs \in Seq(Message), NEW up, Publish(up, msgs)
    PROVE  \E t \in Seq(Message) :
              /\ t = Taken(up, bUnacked, MaxInFlight, msgs)
              /\ Len(t) \in Nat /\ bUnacked + Len(t) <= MaxInFlight
              /\ \A j \in 1 .. Len(t) : t[j] = msgs[j]
              /\ bOut' = bOut \o t /\ bOut' \in Seq(Message)
              /\ Len(bOut') = Len(bOut) + Len(t)
              /\ \A j \in 1 .. Len(bOut) : bOut'[j] = bOut[j]
              /\ \A j \in 1 .. Len(t) : bOut'[Len(bOut) + j] = msgs[j]
              /\ bUnacked' = bUnacked + Len(t)
<1> DEFINE t == Taken(up, bUnacked, MaxInFlight, msgs)
<1>1. bOut' = bOut \o t /\ bUnacked' = bUnacked + Len(t)
  BY DEF Publish
<1>2. /\ t \in Seq(Message) /\ Len(t) \in Nat /\ bUnacked + Len(t) <= MaxInFlight
      /\ \A j \in 1 .. Len(t) : t[j] = msgs[j]
  <2>1. bUnacked \in Nat /\ MaxInFlight \in Nat /\ bUnacked <= MaxInFlight
    BY NodeBAssumption DEF TypeOK, SlotAccounting
  <2> QED
    BY <2>1, TakenFits, Zenon
<1>3. t = Taken(up, bUnacked, MaxInFlight, msgs)
  OBVIOUS
<1> HIDE DEF t
<1>4. /\ bOut' \in Seq(Message) /\ Len(bOut') = Len(bOut) + Len(t)
      /\ Len(bOut) \in Nat
      /\ \A j \in 1 .. Len(bOut) + Len(t) :
            bOut'[j] = IF j <= Len(bOut) THEN bOut[j] ELSE t[j - Len(bOut)]
  <2>1. bOut \in Seq(Message)
    BY DEF TypeOK
  <2>2. Len(bOut) \in Nat
    BY <2>1, LenProperties
  <2>3. \A j \in 1 .. Len(bOut) + Len(t) :
            (bOut \o t)[j] = IF j <= Len(bOut) THEN bOut[j] ELSE t[j - Len(bOut)]
    BY <1>2, <2>1, ConcatProperties, Zenon
  <2>4. bOut \o t \in Seq(Message) /\ Len(bOut \o t) = Len(bOut) + Len(t)
    BY <1>2, <2>1, ConcatProperties, Zenon
  <2>5. bOut' = bOut \o t
    BY <1>1
  <2> QED
    BY <2>2, <2>3, <2>4, <2>5, Zenon
<1>5. \A j \in 1 .. Len(bOut) : bOut'[j] = bOut[j]
  BY <1>2, <1>4
<1>6. \A j \in 1 .. Len(t) : bOut'[Len(bOut) + j] = msgs[j]
  <2> TAKE j \in 1 .. Len(t)
  <2>1. /\ Len(bOut) + j \in 1 .. Len(bOut) + Len(t) /\ ~(Len(bOut) + j <= Len(bOut))
        /\ (Len(bOut) + j) - Len(bOut) = j
    BY <1>2, <1>4
  <2>2. bOut'[Len(bOut) + j] = t[(Len(bOut) + j) - Len(bOut)]
    BY <1>4, <2>1
  <2> QED
    BY <1>2, <2>1, <2>2
<1> QED
  BY <1>1, <1>2, <1>3, <1>4, <1>5, <1>6

\* A publish keeps types and slots.
LEMMA PublishKeeps ==
    ASSUME TypeOK, SlotAccounting, NEW msgs \in Seq(Message), NEW up, Publish(up, msgs)
    PROVE  /\ bOut' \in Seq(Message) /\ bUnacked' \in Nat /\ bLost' \in BOOLEAN
           /\ SlotAccounting'
<1>1. bLost' \in BOOLEAN
  BY DEF Publish
<1>2. Len(bOut) \in Nat /\ MaxInFlight \in Nat /\ bUnacked \in Nat
  BY LenProperties, NodeBAssumption DEF TypeOK
<1>3. PICK t \in Seq(Message) :
              /\ Len(t) \in Nat /\ bUnacked + Len(t) <= MaxInFlight
              /\ bOut' \in Seq(Message)
              /\ Len(bOut') = Len(bOut) + Len(t) /\ bUnacked' = bUnacked + Len(t)
  BY PublishFits
<1> QED
  BY <1>1, <1>2, <1>3 DEF SlotAccounting

\* A publish of messages in which every status tells the state of the actuators
\* after the step leaves the last status true: it was and the actuators have not
\* changed, or a status is what is published.
LEMMA PublishTells ==
    ASSUME TypeOK, SlotAccounting, NEW msgs \in Seq(Message), NEW up, Publish(up, msgs),
           \A j \in 1 .. Len(msgs) :
                msgs[j].topic = "nodeB" => msgs[j] = StatusB(actuator'),
           \/ LastStatusTrue /\ actuator' = actuator
           \/ Len(msgs) = 1 /\ msgs[1].topic = "nodeB"
    PROVE  LastStatusTrue'
<1> SUFFICES ASSUME ~bLost', NEW i \in (DOMAIN bOut)', LastStatus(i)'
             PROVE  bOut'[i] = StatusB(actuator')
  BY DEF LastStatusTrue
<1>1. PICK t \in Seq(Message) :
              /\ t = Taken(up, bUnacked, MaxInFlight, msgs)
              /\ Len(t) \in Nat
              /\ \A j \in 1 .. Len(t) : t[j] = msgs[j]
              /\ bOut' \in Seq(Message)
              /\ Len(bOut') = Len(bOut) + Len(t)
              /\ \A j \in 1 .. Len(bOut) : bOut'[j] = bOut[j]
              /\ \A j \in 1 .. Len(t) : bOut'[Len(bOut) + j] = msgs[j]
  BY PublishFits
<1>2. /\ Len(bOut) \in Nat /\ DOMAIN bOut = 1 .. Len(bOut)
      /\ DOMAIN bOut' = 1 .. Len(bOut') /\ Len(msgs) \in Nat
  BY <1>1, LenProperties DEF TypeOK
<1>3. /\ ~bLost \/ \E j \in DOMAIN t : t[j].topic = "nodeB"
      /\ \A m \in Refused(t, msgs) : m.topic # "nodeB"
  BY <1>1 DEF Publish
<1>4. Len(t) <= Len(msgs)
  <2>1. CASE ~up
    BY <1>1, <1>2, <2>1, EmptySeq DEF Taken
  <2>2. CASE up
    BY <1>1, <1>2, <2>2, NodeBAssumption, SubSeqProperties, LenProperties
       DEF Taken, TypeOK, SlotAccounting
  <2> QED
    BY <2>1, <2>2
<1>5. CASE i > Len(bOut)
  <2> DEFINE j == i - Len(bOut)
  <2>1. j \in 1 .. Len(t) /\ i = Len(bOut) + j /\ j \in 1 .. Len(msgs)
    <3>1. i \in 1 .. Len(bOut) + Len(t)
      BY <1>1, <1>2
    <3>2. Len(t) \in Nat /\ Len(bOut) \in Nat /\ Len(msgs) \in Nat
      BY <1>1, <1>2
    <3> QED
      BY <1>4, <1>5, <3>1, <3>2
  <2>2. bOut'[i] = msgs[j]
    BY <1>1, <2>1
  <2>3. msgs[j].topic = "nodeB"
    BY <2>2 DEF LastStatus
  <2> QED
    BY <2>1, <2>2, <2>3
<1>6. CASE i <= Len(bOut)
  <2>1. i \in DOMAIN bOut /\ bOut'[i] = bOut[i]
    BY <1>1, <1>2, <1>6
  <2>2. LastStatus(i)
    <3>1. \A j \in DOMAIN bOut : j \in DOMAIN bOut' /\ bOut'[j] = bOut[j]
      BY <1>1, <1>2
    <3> QED
      BY <2>1, <3>1 DEF LastStatus
  <2>3. ~bLost
    <3>1. ASSUME NEW j \in DOMAIN t PROVE t[j].topic # "nodeB"
      <4>1. j \in 1 .. Len(t)
        BY <1>1, <3>1, LenProperties
      <4>2. Len(bOut) + j \in DOMAIN bOut' /\ Len(bOut) + j > i
        BY <1>1, <1>2, <1>6, <4>1
      <4>3. bOut'[Len(bOut) + j] = t[j]
        BY <1>1, <4>1
      <4> QED
        BY <4>2, <4>3 DEF LastStatus
    <3> QED
      BY <1>3, <3>1
  <2>4. LastStatusTrue /\ actuator' = actuator
    <3> SUFFICES ASSUME Len(msgs) = 1, msgs[1].topic = "nodeB" PROVE FALSE
      OBVIOUS
    <3>1. CASE Len(t) = 0
      <4>1. 1 \in 1 .. Len(msgs) /\ 1 > Len(t)
        BY <3>1
      <4>2. msgs[1] \in Refused(t, msgs)
        BY <1>1, <4>1, RefusedRest
      <4> QED
        BY <1>3, <4>2
    <3>2. CASE Len(t) # 0
      <4>1. /\ 1 \in 1 .. Len(t) /\ Len(bOut) + 1 \in DOMAIN bOut'
            /\ Len(bOut) + 1 > i
        BY <1>1, <1>2, <1>6, <3>2
      <4>2. bOut'[Len(bOut) + 1] = msgs[1]
        BY <1>1, <4>1
      <4> QED
        BY <4>1, <4>2 DEF LastStatus
    <3> QED
      BY <3>1, <3>2
  <2> QED
    BY <2>1, <2>2, <2>3, <2>4 DEF LastStatusTrue
<1> QED
  BY <1>2, <1>5, <1>6

-----------------------------------------------------------------------------
LEMMA InitIInv == Init => IInv
<1> SUFFICES ASSUME Init PROVE IInv
  OBVIOUS
<1>1. actuator \in [Devices -> Switch]
  BY DEF Init, Switch
<1>2. bOut = <<>> /\ bOut \in Seq(Message) /\ Len(bOut) = 0 /\ DOMAIN bOut = {}
  BY EmptySeq, LenProperties DEF Init
<1>3. TypeOK
  BY <1>1, <1>2 DEF Init, TypeOK
<1>4. SlotAccounting
  BY <1>2, NodeBAssumption DEF Init, SlotAccounting
<1>5. LastStatusTrue
  BY <1>2 DEF LastStatusTrue
<1> QED
  BY <1>3, <1>4, <1>5 DEF IInv

\* A command from the broker: the only change of the actuators, and a status.
LEMMA ReceiveKeeps ==
    ASSUME IInv, NEW m \in Message, Receive(m)
    PROVE  IInv'
<1> USE DEF IInv
<1>1. CASE UNCHANGED <<actuator, bOut, bUnacked, bLost>>
  BY <1>1 DEF Receive, TypeOK, SlotAccounting, LastStatusTrue, LastStatus
<1>2. CASE /\ m.topic \in Devices
           /\ actuator' = [actuator EXCEPT ![m.topic] = m.state]
           /\ Publish(TRUE, <<StatusB(actuator')>>)
  <2>1. actuator' \in [Devices -> Switch]
    BY <1>2, MessageFields DEF TypeOK
  <2>2. <<StatusB(actuator')>> \in Seq(Message)
    <3>1. StatusB(actuator') \in Message
      BY <2>1, MessageTypes
    <3> QED
      BY <3>1
  <2>3. StatusB(actuator').topic = "nodeB" /\ Len(<<StatusB(actuator')>>) = 1
    BY DEF StatusB
  <2>4. LastStatusTrue'
    <3> DEFINE msgs == <<StatusB(actuator')>>
    <3>1. \A j \in 1 .. Len(msgs) : msgs[j] = StatusB(actuator')
      BY <2>3
    <3>2. /\ msgs \in Seq(Message) /\ Publish(TRUE, msgs)
          /\ Len(msgs) = 1 /\ msgs[1].topic = "nodeB"
      BY <1>2, <2>2, <2>3
    <3> HIDE DEF msgs
    <3> QED
      BY <3>1, <3>2, PublishTells
  <2>5. /\ bOut' \in Seq(Message) /\ bUnacked' \in Nat /\ bLost' \in BOOLEAN
        /\ SlotAccounting'
    BY <1>2, <2>2, PublishKeeps
  <2> QED
    BY <2>1, <2>4, <2>5 DEF Receive, TypeOK
<1> QED
  BY <1>1, <1>2 DEF Receive

LEMMA ConnectedKeeps ==
    ASSUME IInv, Connected
    PROVE  IInv'
<1> USE DEF IInv
<1> DEFINE msgs == <<SubscribeMsg("light"), SubscribeMsg("window"),
                     StatusB(actuator), HeartbeatMsg("heartbeatB")>>
<1>1. /\ SubscribeMsg("light") \in Message /\ SubscribeMsg("window") \in Message
      /\ StatusB(actuator) \in Message /\ HeartbeatMsg("heartbeatB") \in Message
  BY MessageTypes DEF TypeOK, Topic, Devices, Heartbeats
<1>2. msgs \in Seq(Message) /\ Len(msgs) = 4
  BY <1>1
<1>3. Publish(TRUE, msgs) /\ bLink' = "up" /\ UNCHANGED <<actuator, bHeartbeatLast, now>>
  BY DEF Connected
<1>4. /\ msgs[1].topic # "nodeB" /\ msgs[2].topic # "nodeB"
      /\ msgs[3] = StatusB(actuator) /\ msgs[4].topic # "nodeB"
  BY DEF SubscribeMsg, HeartbeatMsg
<1> HIDE DEF msgs
<1>5. \A j \in 1 .. Len(msgs) : msgs[j].topic = "nodeB" => msgs[j] = StatusB(actuator')
  BY <1>2, <1>3, <1>4
<1>6. LastStatusTrue'
  BY <1>2, <1>3, <1>5, PublishTells
<1>7. /\ bOut' \in Seq(Message) /\ bUnacked' \in Nat /\ bLost' \in BOOLEAN
      /\ SlotAccounting'
  BY <1>2, <1>3, PublishKeeps
<1> QED
  BY <1>3, <1>6, <1>7 DEF TypeOK

LEMMA HeartbeatKeeps ==
    ASSUME IInv, Heartbeat
    PROVE  IInv'
<1> USE DEF IInv
<1> DEFINE msgs == <<HeartbeatMsg("heartbeatB")>>
<1>1. HeartbeatMsg("heartbeatB") \in Message
  BY MessageTypes DEF Heartbeats
<1>2. msgs \in Seq(Message) /\ Len(msgs) = 1 /\ msgs[1].topic # "nodeB"
  BY <1>1 DEF HeartbeatMsg
<1>3. Publish(TRUE, msgs) /\ bHeartbeatLast' = now /\ UNCHANGED <<actuator, bLink, now>>
  BY DEF Heartbeat
<1> HIDE DEF msgs
<1>4. LastStatusTrue'
  <2>1. \A j \in 1 .. Len(msgs) : msgs[j].topic # "nodeB"
    BY <1>2
  <2> QED
    BY <1>2, <1>3, <2>1, PublishTells
<1>5. /\ bOut' \in Seq(Message) /\ bUnacked' \in Nat /\ bLost' \in BOOLEAN
      /\ SlotAccounting'
  BY <1>2, <1>3, PublishKeeps
<1> QED
  BY <1>3, <1>4, <1>5 DEF TypeOK

\* The oldest request leaves, the others move up one place.
LEMMA TakeShifts ==
    ASSUME TypeOK, Take
    PROVE  /\ bOut' \in Seq(Message) /\ Len(bOut) \in Nat /\ Len(bOut') = Len(bOut) - 1
           /\ \A k \in DOMAIN bOut' : k \in Nat /\ k + 1 \in DOMAIN bOut /\ bOut'[k] = bOut[k + 1]
           /\ \A j \in DOMAIN bOut :
                 \A k \in DOMAIN bOut' :
                    j > k + 1 => j - 1 \in DOMAIN bOut' /\ j - 1 > k /\ bOut'[j - 1] = bOut[j]
<1>1. bOut # <<>> /\ bOut' = Tail(bOut)
  BY DEF Take
<1>2. /\ bOut' \in Seq(Message) /\ Len(bOut') = Len(bOut) - 1
      /\ \A j \in 1 .. Len(bOut') : bOut'[j] = bOut[j + 1]
  BY <1>1, HeadTailProperties DEF TypeOK
<1>3. /\ Len(bOut) \in Nat /\ DOMAIN bOut = 1 .. Len(bOut)
      /\ Len(bOut') \in Nat /\ DOMAIN bOut' = 1 .. Len(bOut')
  BY <1>2, LenProperties DEF TypeOK
<1>4. ASSUME NEW j \in DOMAIN bOut, NEW k \in DOMAIN bOut', j > k + 1
      PROVE  j - 1 \in DOMAIN bOut' /\ j - 1 > k /\ bOut'[j - 1] = bOut[j]
  <2>1. j - 1 \in DOMAIN bOut' /\ j - 1 > k /\ (j - 1) + 1 = j
    BY <1>2, <1>3, <1>4
  <2> QED
    BY <1>2, <1>3, <2>1
<1> QED
  BY <1>2, <1>3, <1>4

\* The last status, if one is left, was the last before.
LEMMA TakeLastStatus ==
    ASSUME TypeOK, Take, NEW k \in DOMAIN bOut', LastStatus(k)'
    PROVE  k + 1 \in DOMAIN bOut /\ bOut'[k] = bOut[k + 1] /\ LastStatus(k + 1)
<1>1. k + 1 \in DOMAIN bOut /\ bOut'[k] = bOut[k + 1]
  BY TakeShifts
<1>2. ASSUME NEW j \in DOMAIN bOut, j > k + 1 PROVE bOut[j].topic # "nodeB"
  <2>1. j - 1 \in DOMAIN bOut' /\ j - 1 > k /\ bOut'[j - 1] = bOut[j]
    BY <1>2, TakeShifts
  <2> QED
    BY <2>1 DEF LastStatus
<1>3. bOut'[k].topic = "nodeB"
  BY DEF LastStatus
<1> QED
  BY <1>1, <1>2, <1>3 DEF LastStatus

LEMMA TakeKeeps ==
    ASSUME IInv, Take
    PROVE  IInv'
<1>0. TypeOK /\ SlotAccounting /\ LastStatusTrue
  BY DEF IInv
<1>1. /\ UNCHANGED <<actuator, bLink, bUnacked, bHeartbeatLast, bLost, now>>
      /\ bOut' \in Seq(Message) /\ Len(bOut') = Len(bOut) - 1 /\ Len(bOut) \in Nat
  BY <1>0, TakeShifts DEF Take
<1>2. LastStatusTrue'
  <2> SUFFICES ASSUME ~bLost', NEW k \in DOMAIN bOut', LastStatus(k)'
               PROVE  bOut'[k] = StatusB(actuator)'
    BY DEF LastStatusTrue
  <2>1. k + 1 \in DOMAIN bOut /\ bOut'[k] = bOut[k + 1] /\ LastStatus(k + 1)
    BY <1>0, TakeLastStatus
  <2>2. ~bLost /\ StatusB(actuator)' = StatusB(actuator)
    BY <1>1 DEF StatusB
  <2> QED
    BY <1>0, <2>1, <2>2 DEF LastStatusTrue
<1> QED
  BY <1>0, <1>1, <1>2 DEF IInv, TypeOK, SlotAccounting

LEMMA StepIInv == IInv /\ [Next]_bVars => IInv'
<1> SUFFICES ASSUME IInv, [Next]_bVars PROVE IInv'
  OBVIOUS
<1>1. CASE \E m \in BInputs : Receive(m)
  BY <1>1, ReceiveKeeps, NodeBAssumption
<1>2. CASE Disconnected
  <2>1. bLost' \in BOOLEAN
    BY <1>2 DEF Disconnected
  <2>2. bOut' \in Seq(Message) /\ Len(bOut') = 0 /\ DOMAIN bOut' = {}
    BY <1>2, EmptySeq, LenProperties DEF Disconnected
  <2> QED
    BY <1>2, <2>1, <2>2, NodeBAssumption
       DEF Disconnected, IInv, TypeOK, SlotAccounting, LastStatusTrue
<1>3. CASE Acked
  <2>1. Len(bOut) \in Nat /\ bUnacked \in Nat /\ MaxInFlight \in Nat
    BY LenProperties, NodeBAssumption DEF IInv, TypeOK
  <2>2. /\ bUnacked > Len(bOut) /\ bUnacked' = bUnacked - 1
        /\ UNCHANGED <<actuator, bLink, bOut, bHeartbeatLast, bLost, now>>
    BY <1>3 DEF Acked
  <2>3. bUnacked' \in Nat /\ SlotAccounting'
    BY <2>1, <2>2 DEF IInv, SlotAccounting
  <2>4. LastStatusTrue'
    BY <2>2 DEF IInv, LastStatusTrue, LastStatus
  <2> QED
    BY <2>2, <2>3, <2>4 DEF IInv, TypeOK
<1>4. CASE Tick \/ DnsFound \/ UNCHANGED bVars
  BY <1>4 DEF Tick, DnsFound, bVars, IInv, TypeOK, SlotAccounting, LastStatusTrue, LastStatus
<1>5. CASE Connected
  BY <1>5, ConnectedKeeps
<1>6. CASE Heartbeat
  BY <1>6, HeartbeatKeeps
<1>7. CASE Take
  BY <1>7, TakeKeeps
<1> QED
  BY <1>1, <1>2, <1>3, <1>4, <1>5, <1>6, <1>7 DEF Next

LEMMA Invariance == Spec => []IInv
  BY InitIInv, StepIInv, PTL DEF Spec

\* Node B keeps its types, and its requests are all of the vocabulary of Mqtt.
THEOREM TypeCorrect == Spec => []TypeOK
<1>1. IInv => TypeOK
  BY DEF IInv
<1> QED
  BY <1>1, Invariance, PTL

\* Unless a later one was refused, the last status on its way to the broker tells
\* the state of lamp and window: commands, heartbeats, the end of the connection
\* and acknowledgements may come in any order.
THEOREM StatusTellsTruth == Spec => []LastStatusTrue
<1>1. IInv => LastStatusTrue
  BY DEF IInv
<1> QED
  BY <1>1, Invariance, PTL
=============================================================================
