----------------------------- MODULE Mqtt_proofs -----------------------------
(* Lemmas about the messages and the request slots, for both boards.        *)
EXTENDS Mqtt, SequenceTheorems, TLAPS

\* Every message a node builds belongs to the vocabulary of the house.
LEMMA MessageTypes ==
    /\ \A m \in Modes : ModeMsg(m) \in Message
    /\ \A d \in Devices, s \in Switch : CmdMsg(d, s) \in Message
    /\ \A m \in Modes, dv \in [Devices -> Switch] : StatusC(m, dv) \in Message
    /\ \A t \in Topic : SubscribeMsg(t) \in Message
    /\ \A n \in Heartbeats : HeartbeatMsg(n) \in Message
    /\ \A dv \in [Devices -> Switch] : StatusB(dv) \in Message
<1>1. \A m \in Modes : ModeMsg(m) \in Message
  BY DEF ModeMsg, Message
<1>2. \A d \in Devices, s \in Switch : CmdMsg(d, s) \in Message
  BY DEF CmdMsg, Message
<1>3. \A m \in Modes, dv \in [Devices -> Switch] : StatusC(m, dv) \in Message
  BY DEF StatusC, Message
<1>4. \A t \in Topic : SubscribeMsg(t) \in Message
  BY DEF SubscribeMsg, Message
<1>5. \A n \in Heartbeats : HeartbeatMsg(n) \in Message
  BY DEF HeartbeatMsg, Message
<1>6. \A dv \in [Devices -> Switch] : StatusB(dv) \in Message
  BY DEF StatusB, Message
<1> QED
  BY <1>1, <1>2, <1>3, <1>4, <1>5, <1>6

\* What a message of each topic carries.
LEMMA MessageFields ==
    ASSUME NEW m \in Message
    PROVE  /\ m.topic = "env" => m.reading \in Reading
           /\ m.topic = "mode" => m.mode \in Modes
           /\ m.topic \in Devices => m.state \in Switch
           /\ m.topic = "nodeB" => m.device \in [Devices -> Switch]
  BY DEF Message, Devices, Heartbeats

\* Of the messages handed over, those that find a slot are sent, no more.
LEMMA TakenFits ==
    ASSUME NEW up, NEW used \in Nat, NEW slots \in Nat, used <= slots,
           NEW msgs \in Seq(Message)
    PROVE  LET t == Taken(up, used, slots, msgs)
           IN  /\ t \in Seq(Message) /\ Len(t) \in Nat
               /\ used + Len(t) <= slots
               /\ ~up => Len(t) = 0
               /\ \A j \in 1 .. Len(t) : t[j] = msgs[j]
<1>1. CASE ~up
  <2>1. Taken(up, used, slots, msgs) = <<>>
    BY <1>1 DEF Taken
  <2> QED
    BY <2>1, EmptySeq
<1>2. CASE up
  <2> DEFINE n == IF Len(msgs) <= slots - used THEN Len(msgs) ELSE slots - used
  <2>1. Len(msgs) \in Nat /\ \A j \in 1 .. Len(msgs) : msgs[j] \in Message
    BY LenProperties
  <2>2. n \in Nat /\ n <= Len(msgs) /\ used + n <= slots
    BY <2>1
  <2>3. Taken(up, used, slots, msgs) = SubSeq(msgs, 1, n)
    BY <1>2 DEF Taken
  <2> HIDE DEF n
  <2>4. \A j \in 1 .. n : msgs[j] \in Message
    BY <2>1, <2>2
  <2>5. /\ SubSeq(msgs, 1, n) \in Seq(Message)
        /\ Len(SubSeq(msgs, 1, n)) = n
        /\ \A j \in 1 .. n : SubSeq(msgs, 1, n)[j] = msgs[j]
    <3>1. Len(SubSeq(msgs, 1, n)) = IF 1 <= n THEN n - 1 + 1 ELSE 0
      BY <2>2, <2>4, SubSeqProperties
    <3>2. SubSeq(msgs, 1, n) \in Seq(Message)
      BY <2>2, <2>4, SubSeqProperties
    <3>3. \A j \in 1 .. n - 1 + 1 : SubSeq(msgs, 1, n)[j] = msgs[1 + j - 1]
      BY <2>2, <2>4, SubSeqProperties
    <3>5. \A j \in 1 .. n : SubSeq(msgs, 1, n)[j] = msgs[j]
      <4> TAKE j \in 1 .. n
      <4>1. j \in 1 .. n - 1 + 1 /\ 1 + j - 1 = j
        BY <2>2
      <4>2. SubSeq(msgs, 1, n)[j] = msgs[1 + j - 1]
        BY <3>3, <4>1
      <4> QED
        BY <4>1, <4>2
    <3> QED
      BY <2>2, <3>1, <3>2, <3>5
  <2> QED
    BY <1>2, <2>2, <2>3, <2>5
<1> QED
  BY <1>1, <1>2

\* No more is sent than was handed over.
LEMMA TakenShort ==
    ASSUME NEW up, NEW used \in Nat, NEW slots \in Nat, used <= slots,
           NEW msgs \in Seq(Message)
    PROVE  Len(Taken(up, used, slots, msgs)) <= Len(msgs)
<1>1. Len(msgs) \in Nat /\ \A j \in 1 .. Len(msgs) : msgs[j] \in Message
  BY LenProperties
<1>2. CASE ~up
  BY <1>1, <1>2, EmptySeq DEF Taken
<1>3. CASE up
  <2> DEFINE n == IF Len(msgs) <= slots - used THEN Len(msgs) ELSE slots - used
  <2>1. n \in Nat /\ n <= Len(msgs)
    BY <1>1
  <2>2. Taken(up, used, slots, msgs) = SubSeq(msgs, 1, n)
    BY <1>3 DEF Taken
  <2> HIDE DEF n
  <2>3. Len(SubSeq(msgs, 1, n)) = IF 1 <= n THEN n - 1 + 1 ELSE 0
    <3>1. \A j \in 1 .. n : msgs[j] \in Message
      BY <1>1, <2>1
    <3> QED
      BY <1>1, <2>1, <3>1, SubSeqProperties
  <2> QED
    BY <2>1, <2>2, <2>3
<1> QED
  BY <1>2, <1>3

\* What is handed over and not sent is refused.
LEMMA RefusedRest ==
    ASSUME NEW t, Len(t) \in Nat, NEW msgs \in Seq(Message),
           NEW j \in 1 .. Len(msgs), j > Len(t)
    PROVE  msgs[j] \in Refused(t, msgs)
<1>1. j \in Len(t)+1 .. Len(msgs)
  BY LenProperties
<1> QED
  BY <1>1 DEF Refused
=============================================================================
