----------------------------- MODULE House_proofs -----------------------------
(***************************************************************************)
(* Proofs about House, from boot and from a settled house, for every       *)
(* threshold, interval, number of request slots and bound on the inputs.   *)
(*                                                                         *)
(* HouseInv puts what is under way between the boards beside what each of  *)
(* them holds: a status tells the truth or a later one does, the echo of a *)
(* command is harmless or a status follows it, and where node C is wrong   *)
(* about a device, a command that corrects this is on its way.  Each needs *)
(* the others to be inductive.  A command or a status that is refused,     *)
(* dropped or not heard may break them; the next status that node B hands  *)
(* over restores all of them, whatever state the house was in before.      *)
(* ModesOrdered, about the modes under way, stands on its own.             *)
(***************************************************************************)
EXTENDS House, NodeC_proofs

Packet == Message \cup {Ack}

\* Node B and its request slots; what the broker keeps for the boards.
BSlots == Len(bOut) <= bUnacked /\ bUnacked <= MaxInFlight
NodeBOK == B!TypeOK /\ BSlots
BrokerOK ==
    /\ inboxC \in Seq(Packet) /\ inboxB \in Seq(Packet)
    /\ subsC \subseteq Topic /\ subsB \subseteq Topic
    /\ lastMode \in Modes \cup {NoMode} /\ missed \subseteq Steering \cup {"nodeB"}
    /\ view \in [topic : {"nodeC"}, mode : Modes, device : [Devices -> Switch]]
    /\ used \in [uart : 0..MaxUart, console : 0..MaxConsole, readings : 0..MaxReadings]

\* Only node B speaks for node B.
OnlyBReports == ~Has(out, "nodeB")

\* A status tells the state of the actuators, or a later one does: among the
\* requests of node B, and among the packets on their way to node C.
NodeBTruthful ==
    \A i \in DOMAIN bOut : bOut[i].topic = "nodeB" =>
        bOut[i].device = actuator \/ Followed(bOut, i, "nodeB")
StatusesTrue ==
    \A i \in DOMAIN inboxC : inboxC[i].topic = "nodeB" =>
        \/ inboxC[i].device = actuator
        \/ Followed(inboxC, i, "nodeB") \/ Has(bOut, "nodeB")

\* A command heard by node C tells the state of the device, or is not the last
\* that node B will hear, or a status comes after it.
EchoesHarmless ==
    \A i \in DOMAIN inboxC : \A d \in Devices : inboxC[i].topic = d =>
        \/ inboxC[i].state = actuator[d] \/ Opposed(inboxB, d, actuator[d])
        \/ Followed(inboxC, i, "nodeB") \/ Has(bOut, "nodeB")

\* With no status under way, node C is right about a device, or a command that
\* contradicts the actuator is: at node B's door, with the broker, in the loop.
Justified(d) ==
    \/ device[d] = actuator[d]
    \/ Opposed(inboxB, d, actuator[d]) \/ Opposed(out, d, actuator[d])
    \/ pc = "command" /\ Head(todo) = d /\ want # actuator[d]
BeliefsJustified ==
    Has(inboxC, "nodeB") \/ Has(bOut, "nodeB") \/ \A d \in Devices : Justified(d)

\* The modes on their way to node C end with the last one announced; without
\* any, node C is in it, or about to announce another.
Announcing == pc \in {"loadMode", "publishMode"}
ModeJustified == mode = lastMode \/ Has(out, "mode") \/ Announcing
ModesOrdered ==
    lastMode # NoMode =>
        /\ \A i \in DOMAIN inboxC : inboxC[i].topic = "mode" =>
              inboxC[i].mode = lastMode \/ Followed(inboxC, i, "mode")
        /\ Has(inboxC, "mode") \/ ModeJustified

Consistent ==
    NodeBTruthful /\ StatusesTrue /\ EchoesHarmless /\ BeliefsJustified

HouseInv ==
    /\ IInv /\ NodeBOK /\ BrokerOK
    /\ enabled /\ OnlyBReports
    /\ Sound => Consistent
    /\ ModesSound => ModesOrdered

-----------------------------------------------------------------------------
(* Queues: what taking the head and putting packets at the end does.        *)

\* The head leaves: the others move up one place and keep their order.
LEMMA TakeHead ==
    ASSUME NEW S, NEW s \in Seq(S), s # <<>>
    PROVE  /\ Head(s) \in S /\ Head(s) = s[1] /\ 1 \in DOMAIN s
           /\ Tail(s) \in Seq(S)
           /\ \A i \in DOMAIN Tail(s) : i + 1 \in DOMAIN s /\ Tail(s)[i] = s[i + 1]
           /\ \A t : Has(s, t) <=> Head(s).topic = t \/ Has(Tail(s), t)
           /\ \A t : Followed(s, 1, t) <=> Has(Tail(s), t)
           /\ \A t : \A i \in DOMAIN Tail(s) :
                 Followed(s, i + 1, t) <=> Followed(Tail(s), i, t)
           /\ \A d, a : Opposed(s, d, a) <=>
                 \/ Head(s).topic = d /\ Head(s).state # a
                 \/ Opposed(Tail(s), d, a)
<1>1. /\ Len(s) \in Nat \ {0} /\ DOMAIN s = 1 .. Len(s) /\ Head(s) = s[1]
      /\ Head(s) \in S /\ Tail(s) \in Seq(S)
      /\ DOMAIN Tail(s) = 1 .. Len(s) - 1
      /\ \A i \in DOMAIN Tail(s) : Tail(s)[i] = s[i + 1]
  BY HeadTailProperties, LenProperties, EmptySeq
<1>2. \A i \in DOMAIN Tail(s) : i + 1 \in DOMAIN s
  BY <1>1
<1>3. \A k \in DOMAIN s : k # 1 => k - 1 \in DOMAIN Tail(s) /\ (k - 1) + 1 = k
  BY <1>1
<1>4. \A k \in DOMAIN s : k # 1 => Tail(s)[k - 1] = s[k]
  BY <1>1, <1>3
<1>5. \A t : Has(s, t) <=> Head(s).topic = t \/ Has(Tail(s), t)
  BY <1>1, <1>2, <1>3, <1>4 DEF Has
<1>6. \A t : Followed(s, 1, t) <=> Has(Tail(s), t)
  BY <1>1, <1>2, <1>3, <1>4 DEF Has, Followed
<1>7. \A t : \A i \in DOMAIN Tail(s) : Followed(s, i + 1, t) <=> Followed(Tail(s), i, t)
  <2> TAKE t
  <2> TAKE i \in DOMAIN Tail(s)
  <2>1. ASSUME NEW k \in DOMAIN s, k > i + 1, s[k].topic = t
        PROVE  Followed(Tail(s), i, t)
    <3>1. k # 1 /\ k - 1 > i
      BY <1>1, <2>1
    <3> QED
      BY <1>3, <1>4, <2>1, <3>1 DEF Followed
  <2>2. ASSUME NEW k \in DOMAIN Tail(s), k > i, Tail(s)[k].topic = t
        PROVE  Followed(s, i + 1, t)
    <3>1. k + 1 > i + 1
      BY <1>1, <2>2
    <3> QED
      BY <1>1, <1>2, <2>2, <3>1 DEF Followed
  <2> QED
    BY <2>1, <2>2 DEF Followed
<1>8. \A d, a : Opposed(s, d, a) <=> \/ Head(s).topic = d /\ Head(s).state # a
                                     \/ Opposed(Tail(s), d, a)
  BY <1>1, <1>2, <1>3, <1>4 DEF Opposed
<1> QED
  BY <1>1, <1>2, <1>5, <1>6, <1>7, <1>8

\* Packets are put at the end: the others keep their places.
LEMMA PutBehind ==
    ASSUME NEW S, NEW s \in Seq(S), NEW u \in Seq(S)
    PROVE  /\ s \o u \in Seq(S)
           /\ \A i \in DOMAIN s : i \in DOMAIN (s \o u) /\ (s \o u)[i] = s[i]
           /\ \A i \in DOMAIN (s \o u) : i \notin DOMAIN s =>
                 i - Len(s) \in DOMAIN u /\ (s \o u)[i] = u[i - Len(s)]
           /\ \A t : Has(s \o u, t) <=> Has(s, t) \/ Has(u, t)
           /\ \A t : \A i \in DOMAIN s :
                 Followed(s \o u, i, t) <=> Followed(s, i, t) \/ Has(u, t)
           /\ \A t : \A i \in DOMAIN (s \o u) : i \notin DOMAIN s =>
                 (Followed(s \o u, i, t) <=> Followed(u, i - Len(s), t))
           /\ \A d, a : Opposed(s \o u, d, a) <=> Opposed(s, d, a) \/ Opposed(u, d, a)
<1> DEFINE w == s \o u
<1>1. /\ w \in Seq(S) /\ Len(s) \in Nat /\ Len(u) \in Nat
      /\ DOMAIN s = 1 .. Len(s) /\ DOMAIN u = 1 .. Len(u)
      /\ DOMAIN w = 1 .. Len(s) + Len(u)
      /\ \A i \in DOMAIN w : w[i] = IF i <= Len(s) THEN s[i] ELSE u[i - Len(s)]
  BY ConcatProperties, LenProperties
<1> HIDE DEF w
<1>2. \A i \in DOMAIN s : i \in DOMAIN w /\ w[i] = s[i]
  BY <1>1
<1>3. \A i \in DOMAIN w : i \notin DOMAIN s => i - Len(s) \in DOMAIN u /\ i > Len(s)
  BY <1>1
<1>4. \A i \in DOMAIN w : i \notin DOMAIN s => w[i] = u[i - Len(s)]
  BY <1>1
<1>5. \A k \in DOMAIN u : k + Len(s) \in DOMAIN w /\ k + Len(s) \notin DOMAIN s
                          /\ (k + Len(s)) - Len(s) = k
  BY <1>1
<1>6. \A k \in DOMAIN u : w[k + Len(s)] = u[k]
  BY <1>4, <1>5
<1>7. \A t : Has(w, t) <=> Has(s, t) \/ Has(u, t)
  BY <1>2, <1>3, <1>4, <1>5, <1>6 DEF Has
<1>8. \A d, a : Opposed(w, d, a) <=> Opposed(s, d, a) \/ Opposed(u, d, a)
  BY <1>2, <1>3, <1>4, <1>5, <1>6 DEF Opposed
<1>9. ASSUME NEW t, NEW i \in DOMAIN s
      PROVE  Followed(w, i, t) <=> Followed(s, i, t) \/ Has(u, t)
  <2>1. \A k \in DOMAIN u : k + Len(s) > i
    BY <1>1
  <2> QED
    BY <1>2, <1>3, <1>4, <1>5, <1>6, <2>1 DEF Followed, Has
<1>10. ASSUME NEW t, NEW i \in DOMAIN w, i \notin DOMAIN s
       PROVE  Followed(w, i, t) <=> Followed(u, i - Len(s), t)
  <2>1. ASSUME NEW k \in DOMAIN w, k > i, w[k].topic = t
        PROVE  Followed(u, i - Len(s), t)
    <3>1. k \notin DOMAIN s /\ k - Len(s) > i - Len(s)
      BY <1>1, <1>10, <2>1
    <3> QED
      BY <1>3, <1>4, <2>1, <3>1 DEF Followed
  <2>2. ASSUME NEW k \in DOMAIN u, k > i - Len(s), u[k].topic = t
        PROVE  Followed(w, i, t)
    <3>1. k + Len(s) > i
      BY <1>1, <1>10, <2>2
    <3> QED
      BY <1>5, <1>6, <2>2, <3>1 DEF Followed
  <2> QED
    BY <2>1, <2>2 DEF Followed
<1> QED
  BY <1>1, <1>2, <1>3, <1>4, <1>7, <1>8, <1>9, <1>10 DEF w

-----------------------------------------------------------------------------
(* Publishing: what is taken lands behind the requests, and nothing that     *)
(* steers is refused without a trace.                                       *)

\* No command of node C was refused or dropped, or all that were are made good.
NoCommandLost == lost \cap Devices = {}

LEMMA PublishEffect ==
    ASSUME NetworkOK, NEW msgs \in Seq(Message), Publish(msgs)
    PROVE  /\ lost \subseteq lost'
           /\ \A t : Has(out, t) => Has(out', t)
           /\ \A t : Has(out', t) => Has(out, t) \/ Has(msgs, t)
           /\ \A d, a : Opposed(out, d, a) => Opposed(out', d, a)
           /\ "mode" \notin lost' /\ Has(msgs, "mode") => Has(out', "mode")
           /\ NoCommandLost' => \A d \in Devices : \A a :
                                   Opposed(msgs, d, a) => Opposed(out', d, a)
<1> DEFINE t == Taken(MqttReady, unacked, MaxInFlight, msgs)
<1>1. /\ out' = out \o t
      /\ lost' = lost \cup Topics(Refused(t, msgs))
  BY DEF Publish
<1>2. /\ t \in Seq(Message) /\ Len(t) \in Nat
      /\ \A j \in 1 .. Len(t) : t[j] = msgs[j]
  BY SlotAssumption, TakenFits DEF NetworkOK, SlotAccounting
<1>3. Len(t) <= Len(msgs)
  BY SlotAssumption, TakenShort DEF NetworkOK, SlotAccounting
<1> HIDE DEF t
<1>4. /\ DOMAIN msgs = 1 .. Len(msgs) /\ Len(msgs) \in Nat
      /\ DOMAIN t = 1 .. Len(t) /\ out \in Seq(Message)
  BY <1>2, LenProperties DEF NetworkOK
<1>5. /\ \A x : Has(out', x) <=> Has(out, x) \/ Has(t, x)
      /\ \A d, a : Opposed(out', d, a) <=> Opposed(out, d, a) \/ Opposed(t, d, a)
  BY <1>1, <1>2, <1>4, PutBehind
<1>6. \A x : Has(t, x) => Has(msgs, x)
  BY <1>2, <1>3, <1>4 DEF Has
<1>7. ASSUME NEW j \in DOMAIN msgs, msgs[j].topic \in Steering, msgs[j].topic \notin lost'
      PROVE  j \in DOMAIN t /\ t[j] = msgs[j]
  <2>1. CASE j > Len(t)
    <3>1. msgs[j] \in Refused(t, msgs)
      BY <1>2, <1>4, <2>1, RefusedRest
    <3> QED
      BY <1>1, <1>7, <3>1 DEF Topics, Steers
  <2> QED
    BY <1>2, <1>4, <2>1
<1>8. /\ "mode" \notin lost' /\ Has(msgs, "mode") => Has(t, "mode")
      /\ NoCommandLost' => \A d \in Devices : \A a : Opposed(msgs, d, a) => Opposed(t, d, a)
  BY <1>7 DEF Has, Opposed, Steering, NoCommandLost
<1> QED
  BY <1>1, <1>5, <1>6, <1>8

\* The requests grow at the end; node C adds no status of node B.
RequestsGrow ==
    /\ lost \subseteq lost'
    /\ Has(out', "nodeB") => Has(out, "nodeB")
    /\ Has(out, "mode") => Has(out', "mode")
    /\ \A d, a : Opposed(out, d, a) => Opposed(out', d, a)

LEMMA PublishGrows ==
    ASSUME NetworkOK, NEW msgs \in Seq(Message), ~Has(msgs, "nodeB"), Publish(msgs)
    PROVE  RequestsGrow
  BY PublishEffect DEF RequestsGrow

LEMMA SingleMessage ==
    ASSUME NEW m
    PROVE  /\ \A t : Has(<<m>>, t) <=> m.topic = t
           /\ \A d, a : Opposed(<<m>>, d, a) <=> m.topic = d /\ m.state # a
  BY DEF Has, Opposed

LEMMA PublishOneGrows ==
    ASSUME NetworkOK, NEW m \in Message, m.topic # "nodeB", Publish(<<m>>)
    PROVE  RequestsGrow
<1>1. <<m>> \in Seq(Message) /\ ~Has(<<m>>, "nodeB")
  BY SingleMessage
<1> QED
  BY <1>1, PublishGrows

\* The rules publish a command for every device they change.
LEMMA CommandsTell ==
    ASSUME NEW new \in [Devices -> Switch], NEW m \in Modes
    PROVE  LET msgs == Append(Commands(new), StatusC(m, new))
           IN  /\ ~Has(msgs, "nodeB")
               /\ \A d \in Devices : \A a :
                    new[d] # device[d] /\ new[d] # a => Opposed(msgs, d, a)
<1> DEFINE of(d) == IF new[d] = device[d] THEN <<>> ELSE <<CmdMsg(d, new[d])>>
           cmds == of("light") \o of("window")
           status == StatusC(m, new)
<1>1. Commands(new) = cmds
  BY DEF Commands
<1>2. \A d \in Devices : of(d) \in Seq(Message)
  BY MessageTypes, EmptySeq
<1>3. \A d \in Devices : ~Has(of(d), "nodeB")
  BY DEF Has, CmdMsg, Devices
<1>4. \A d \in Devices : \A a : new[d] # device[d] /\ new[d] # a => Opposed(of(d), d, a)
  BY DEF Opposed, CmdMsg
<1> HIDE DEF of
<1>5. of("light") \in Seq(Message) /\ of("window") \in Seq(Message)
  BY <1>2 DEF Devices
<1>6. /\ cmds \in Seq(Message) /\ ~Has(cmds, "nodeB")
      /\ \A d, a : Opposed(of("light"), d, a) => Opposed(cmds, d, a)
      /\ \A d, a : Opposed(of("window"), d, a) => Opposed(cmds, d, a)
  BY <1>3, <1>5, PutBehind DEF Devices
<1>7. status \in Message /\ status.topic # "nodeB"
  BY MessageTypes DEF StatusC
<1> HIDE DEF cmds, status
<1>8. Append(cmds, status) = cmds \o <<status>> /\ <<status>> \in Seq(Message)
  BY <1>6, <1>7, AppendIsConcat
<1>9. ~Has(<<status>>, "nodeB")
  BY <1>7, SingleMessage
<1>10. /\ ~Has(cmds \o <<status>>, "nodeB")
       /\ \A d, a : Opposed(cmds, d, a) => Opposed(cmds \o <<status>>, d, a)
  BY <1>6, <1>8, <1>9, PutBehind
<1>11. Append(Commands(new), StatusC(m, new)) = cmds \o <<status>>
  BY <1>1, <1>8 DEF status
<1>12. \A d \in Devices : \A a : new[d] # device[d] /\ new[d] # a => Opposed(cmds, d, a)
  BY <1>4, <1>6 DEF Devices
<1> QED
  BY <1>10, <1>11, <1>12

-----------------------------------------------------------------------------
(* Node C.                                                                  *)

\* State a of device d is what node C believes, or it has commanded another.
Backed(d, a) ==
    \/ device[d] = a \/ Opposed(out, d, a)
    \/ pc = "command" /\ Head(todo) = d /\ want # a

\* The rules, run by a callback: a changed belief is backed by a command.
LEMMA RulesKeepBacked ==
    ASSUME ControllerOK, NetworkOK, NEW new \in [Devices -> Switch], NEW m \in Modes,
           device' = new, Publish(Append(Commands(new), StatusC(m, new))),
           UNCHANGED <<pc, todo, want>>
    PROVE  /\ RequestsGrow
           /\ NoCommandLost' => \A d \in Devices : \A a : Backed(d, a) => Backed(d, a)'
<1> DEFINE msgs == Append(Commands(new), StatusC(m, new))
<1>1. msgs \in Seq(Message)
  BY CommandsType
<1>2. /\ ~Has(msgs, "nodeB")
      /\ \A d \in Devices : \A a : new[d] # device[d] /\ new[d] # a => Opposed(msgs, d, a)
  BY CommandsTell
<1> HIDE DEF msgs
<1>3. Publish(msgs)
  BY DEF msgs
<1>4. RequestsGrow
  BY <1>1, <1>2, <1>3, PublishGrows
<1>5. NoCommandLost' => \A d \in Devices : \A a : Opposed(msgs, d, a) => Opposed(out', d, a)
  BY <1>1, <1>3, PublishEffect
<1>6. ASSUME NoCommandLost', NEW d \in Devices, NEW a, Backed(d, a)
      PROVE  Backed(d, a)'
  <2>1. CASE device[d] = a
    BY <1>2, <1>5, <1>6, <2>1 DEF Backed
  <2>2. CASE Opposed(out, d, a)
    BY <1>4, <2>2 DEF Backed, RequestsGrow
  <2>3. CASE pc = "command" /\ Head(todo) = d /\ want # a
    BY <2>3 DEF Backed
  <2> QED
    BY <1>6, <2>1, <2>2, <2>3 DEF Backed
<1> QED
  BY <1>4, <1>6

\* What a step of node C that hears nothing does to its beliefs.
LoopFaithful ==
    /\ RequestsGrow
    /\ NoCommandLost' => \A d \in Devices : \A a : Backed(d, a) => Backed(d, a)'
    /\ "mode" \notin lost' => \A x : mode = x \/ Has(out, "mode") \/ Announcing
                                  => mode' = x \/ Has(out', "mode") \/ Announcing'

LEMMA LoopStep ==
    ASSUME IInv, enabled, Main \/ Tick \/ DnsFound \/ Connected \/ Acked
    PROVE  LoopFaithful
<1> USE DEF IInv
<1>1. CASE PublishMode
  <2>1. ModeMsg(snap.mode) \in Message /\ ModeMsg(snap.mode).topic = "mode"
    BY MessageTypes DEF ThreadOK, ModeMsg
  <2>2. <<ModeMsg(snap.mode)>> \in Seq(Message) /\ Has(<<ModeMsg(snap.mode)>>, "mode")
    BY <2>1, SingleMessage
  <2>3. Publish(<<ModeMsg(snap.mode)>>) /\ pc = "publishMode" /\ UNCHANGED <<mode, device>>
    BY <1>1 DEF PublishMode, controller
  <2>4. RequestsGrow
    BY <2>1, <2>3, PublishOneGrows
  <2>5. "mode" \notin lost' => Has(out', "mode")
    BY <2>2, <2>3, PublishEffect
  <2> QED
    BY <2>3, <2>4, <2>5 DEF LoopFaithful, RequestsGrow, Backed
<1>2. CASE PublishCommand
  <2> DEFINE m == CmdMsg(Head(todo), want)
  <2>1. Head(todo) \in Devices /\ want \in Switch
    BY <1>2, HeadTailProperties DEF PublishCommand, ThreadOK, LoopHasWork
  <2>2. m \in Message /\ m.topic = Head(todo) /\ m.state = want
    BY <2>1, MessageTypes DEF CmdMsg
  <2>3. Publish(<<m>>) /\ pc = "command" /\ UNCHANGED <<mode, device>>
    BY <1>2 DEF PublishCommand, controller
  <2> HIDE DEF m
  <2>4. RequestsGrow
    BY <2>1, <2>2, <2>3, PublishOneGrows DEF Devices
  <2>5. <<m>> \in Seq(Message) /\ \A a : want # a => Opposed(<<m>>, Head(todo), a)
    BY <2>2, SingleMessage
  <2>6. NoCommandLost' => \A a : want # a => Opposed(out', Head(todo), a)
    BY <2>1, <2>3, <2>5, PublishEffect
  <2> QED
    BY <2>3, <2>4, <2>6 DEF LoopFaithful, RequestsGrow, Backed, Announcing
<1>3. CASE PublishSnapshot
  <2>1. snap \in Message /\ snap.topic # "nodeB"
    BY DEF ThreadOK, Message
  <2>2. /\ Publish(<<snap>>) /\ pc \in {"publish", "statusPublish"}
        /\ UNCHANGED <<mode, device>>
    BY <1>3 DEF PublishSnapshot, controller
  <2>3. RequestsGrow
    BY <2>1, <2>2, PublishOneGrows
  <2> QED
    BY <2>2, <2>3 DEF LoopFaithful, RequestsGrow, Backed, Announcing
<1>4. CASE Poll
  <2>1. HeartbeatMsg("heartbeatC") \in Message /\ HeartbeatMsg("heartbeatC").topic # "nodeB"
    BY MessageTypes DEF Heartbeats, HeartbeatMsg
  <2>2. RequestsGrow
    BY <1>4, <2>1, PublishOneGrows DEF Poll, network, RequestsGrow
  <2>3. pc = "poll" /\ UNCHANGED <<mode, device>>
    BY <1>4 DEF Poll, controller
  <2> QED
    BY <2>2, <2>3 DEF LoopFaithful, RequestsGrow, Backed, Announcing
<1>5. CASE WriteMode \/ LoadMode
  BY <1>5 DEF WriteMode, LoadMode, controller, network, LoopFaithful, RequestsGrow, Backed,
       Announcing
<1>6. CASE WriteDevice
  <2>1. /\ pc = "write" /\ pc' = "command" /\ device' = [device EXCEPT ![Head(todo)] = want]
        /\ UNCHANGED <<mode, todo, want, out, lost>>
    BY <1>6 DEF WriteDevice, locals, network
  <2>2. Head(todo) \in Devices
    BY <2>1, HeadTailProperties DEF ThreadOK, LoopHasWork
  <2> QED
    BY <2>1, <2>2 DEF LoopFaithful, RequestsGrow, Backed, Announcing, ControllerOK
<1>7. CASE Connected
  <2> DEFINE requests == [j \in DOMAIN Required |-> SubscribeMsg(Required[j])]
             taken == Taken(TRUE, unacked, MaxInFlight, requests)
  <2>1. requests \in Seq(Message) /\ ~Has(requests, "nodeB")
    BY RequestsType DEF SubscribeMsg, Has
  <2>2. out' = out \o taken /\ UNCHANGED <<mode, device, pc, todo, want, lost>>
    BY <1>7 DEF Connected, controller, thread, locals
  <2> HIDE DEF requests
  <2>3. /\ taken \in Seq(Message) /\ Len(taken) <= Len(requests)
        /\ Len(taken) \in Nat
        /\ \A j \in 1 .. Len(taken) : taken[j] = requests[j]
    BY <2>1, SlotAssumption, TakenFits, TakenShort DEF NetworkOK, SlotAccounting
  <2> HIDE DEF taken
  <2>4. /\ DOMAIN taken = 1 .. Len(taken) /\ DOMAIN requests = 1 .. Len(requests)
        /\ Len(requests) \in Nat
    BY <2>1, <2>3, LenProperties
  <2>5. ~Has(taken, "nodeB")
    BY <2>1, <2>3, <2>4 DEF Has
  <2>6. RequestsGrow
    BY <2>2, <2>3, <2>5, PutBehind DEF RequestsGrow, NetworkOK
  <2> QED
    BY <2>2, <2>6 DEF LoopFaithful, RequestsGrow, Backed, Announcing
<1>8. CASE \/ ReadClock \/ NoUart \/ EnterRules \/ LoadTemp \/ Decide \/ TestDevice
           \/ BuildSnapshot \/ Demo \/ CheckNodeA \/ ReportNodeA \/ CheckNodeB
           \/ ReportNodeB \/ StatusDue \/ \E l \in UartLines : UartLine(l)
  <2>1. /\ pc # "command" /\ ~Announcing /\ UNCHANGED <<mode, device, out, lost>>
    BY <1>8 DEF ReadClock, NoUart, EnterRules, LoadTemp, Decide, TestDevice, BuildSnapshot,
         Demo, CheckNodeA, ReportNodeA, CheckNodeB, ReportNodeB, StatusDue,
         UartLine, controller, network, Announcing
  <2> QED
    BY <2>1 DEF LoopFaithful, RequestsGrow, Backed
<1>9. CASE Tick \/ DnsFound \/ Acked
  <2>1. UNCHANGED <<mode, device, pc, todo, want, out, lost>>
    BY <1>9 DEF Tick, DnsFound, Acked, controller, thread, locals, network
  <2> QED
    BY <2>1 DEF LoopFaithful, RequestsGrow, Backed, Announcing
<1> QED
  BY <1>1, <1>2, <1>3, <1>4, <1>5, <1>6, <1>7, <1>8, <1>9 DEF Main, Loop

\* What node C makes of a message.
HeardFaithful(m) ==
    /\ RequestsGrow /\ UNCHANGED <<pc, todo, want, enabled>>
    /\ m.topic \notin Devices \cup {"nodeB"} =>
          (NoCommandLost' => \A d \in Devices : \A a : Backed(d, a) => Backed(d, a)')
    /\ m.topic \in Devices => \A d \in Devices :
          device'[d] = device[d] \/ (d = m.topic /\ device'[d] = m.state)
    /\ m.topic = "nodeB" => device' = m.device
    /\ mode' = IF m.topic = "mode" THEN m.mode ELSE mode

LEMMA HearStep ==
    ASSUME IInv, NEW m \in Message, Receive(m)
    PROVE  HeardFaithful(m)
<1> USE DEF IInv
<1>0. UNCHANGED <<pc, todo, want, enabled>>
  <2>1. UNCHANGED <<pc, todo, want>>
    BY DEF Receive, thread, locals
  <2>2. enabled' = enabled
    BY DEF Receive, ApplyEnv, ApplyMode, ApplyCommand, ApplyNodeBStatus, Publish, network
  <2> QED
    BY <2>1, <2>2
<1>1. CASE UNCHANGED <<controller, network>> /\ (m.topic = "mode" => mode = m.mode)
                                           /\ m.topic # "nodeB"
  BY <1>0, <1>1 DEF controller, network, HeardFaithful, RequestsGrow, Backed
<1>2. CASE m.topic = "env" /\ ApplyEnv(m.reading, now)
  <2> DEFINE new == Evaluated(mode, TRUE, m.reading)
  <2>1. /\ device' = new /\ mode' = mode
        /\ Publish(Append(Commands(new), StatusC(mode, new)))
    BY <1>2 DEF ApplyEnv
  <2>2. new \in [Devices -> Switch] /\ mode \in Modes
    BY EvaluatedType DEF ControllerOK
  <2> HIDE DEF new
  <2> QED
    BY <1>0, <1>2, <2>1, <2>2, RulesKeepBacked DEF HeardFaithful, Devices
<1>3. CASE m.topic = "mode" /\ mode # m.mode /\ ApplyMode(m.mode)
  <2> DEFINE new == Evaluated(m.mode, env.valid, env.reading)
  <2>1. /\ device' = new /\ mode' = m.mode
        /\ Publish(Append(Commands(new), StatusC(m.mode, new)))
    BY <1>3 DEF ApplyMode
  <2>2. new \in [Devices -> Switch] /\ m.mode \in Modes
    BY <1>3, EvaluatedType, MessageFields DEF ControllerOK
  <2> HIDE DEF new
  <2> QED
    BY <1>0, <1>3, <2>1, <2>2, RulesKeepBacked DEF HeardFaithful, Devices
<1>4. CASE m.topic \in Devices /\ mode = "MANUAL" /\ ApplyCommand(m.topic, m.state)
  <2>1. /\ device' = [device EXCEPT ![m.topic] = m.state] /\ mode' = mode
        /\ Publish(<<StatusC(mode, device')>>)
    BY <1>4 DEF ApplyCommand
  <2>2. device' \in [Devices -> Switch]
    BY <1>4, <2>1, MessageFields DEF ControllerOK
  <2>3. StatusC(mode, device') \in Message /\ StatusC(mode, device').topic # "nodeB"
    BY <2>2, MessageTypes DEF ControllerOK, StatusC
  <2>4. RequestsGrow
    BY <2>1, <2>3, PublishOneGrows
  <2> QED
    BY <1>0, <1>4, <2>1, <2>4 DEF HeardFaithful, ControllerOK, Devices
<1>5. CASE m.topic = "nodeB" /\ ApplyNodeBStatus(m.device)
  <2>1. device' = m.device /\ mode' = mode /\ Publish(<<StatusC(mode, m.device)>>)
    BY <1>5 DEF ApplyNodeBStatus
  <2>2. StatusC(mode, m.device) \in Message /\ StatusC(mode, m.device).topic # "nodeB"
    BY <1>5, MessageFields, MessageTypes DEF ControllerOK, StatusC
  <2>3. RequestsGrow
    BY <2>1, <2>2, PublishOneGrows
  <2> QED
    BY <1>0, <1>5, <2>1, <2>3 DEF HeardFaithful, Devices
<1> QED
  BY <1>1, <1>2, <1>3, <1>4, <1>5 DEF Receive, ApplyMode, ApplyCommand, Devices

-----------------------------------------------------------------------------
(* Node B.  Its module is an instance here, so what its definitions share    *)
(* with those of this module is said first.                                 *)

LEMMA SameVocabulary ==
    /\ B!Devices = Devices /\ B!Switch = Switch /\ B!Message = Message
    /\ \A up, used0, slots, msgs :
          B!Taken(up, used0, slots, msgs) = Taken(up, used0, slots, msgs)
    /\ \A taken, msgs : B!Refused(taken, msgs) = Refused(taken, msgs)
    /\ \A dv : B!StatusB(dv) = StatusB(dv)
    /\ \A n : B!HeartbeatMsg(n) = HeartbeatMsg(n)
    /\ \A t : B!SubscribeMsg(t) = SubscribeMsg(t)
<1>1. B!Devices = Devices /\ B!Switch = Switch
  BY DEF B!Devices, Devices, B!Switch, Switch
<1>2. B!Reading = Reading /\ B!Modes = Modes /\ B!Heartbeats = Heartbeats /\ B!Topic = Topic
  BY DEF B!Reading, Reading, B!Modes, Modes, B!Heartbeats, Heartbeats, B!Topic, Topic
<1>3. B!Message = Message
  BY <1>1, <1>2 DEF B!Message, Message
<1>4. \A up, used0, slots, msgs :
          B!Taken(up, used0, slots, msgs) = Taken(up, used0, slots, msgs)
  BY DEF B!Taken, Taken
<1>5. \A taken, msgs : B!Refused(taken, msgs) = Refused(taken, msgs)
  BY DEF B!Refused, Refused
<1>6. \A dv : B!StatusB(dv) = StatusB(dv)
  BY DEF B!StatusB, StatusB
<1>7. \A n : B!HeartbeatMsg(n) = HeartbeatMsg(n)
  BY DEF B!HeartbeatMsg, HeartbeatMsg
<1>8. \A t : B!SubscribeMsg(t) = SubscribeMsg(t)
  BY DEF B!SubscribeMsg, SubscribeMsg
<1> QED
  BY <1>1, <1>3, <1>4, <1>5, <1>6, <1>7, <1>8

\* A publish of node B, in which every status tells the new state.
LEMMA NodeBPublish ==
    ASSUME NodeBOK, NEW msgs \in Seq(Message), B!Publish(TRUE, msgs),
           \A j \in DOMAIN msgs : msgs[j].topic = "nodeB" => msgs[j].device = actuator',
           actuator' = actuator \/ Has(msgs, "nodeB")
    PROVE  /\ bOut' \in Seq(Message) /\ bUnacked' \in Nat /\ bLost' \in BOOLEAN
           /\ BSlots'
           /\ Has(bOut, "nodeB") => Has(bOut', "nodeB")
           /\ ~bLost' => /\ NodeBTruthful => NodeBTruthful'
                         /\ Has(msgs, "nodeB") => Has(bOut', "nodeB")
           /\ Told => Has(msgs, "nodeB") /\ NodeBTruthful' /\ Has(bOut', "nodeB")
           /\ ~Told => (bLost => bLost')
<1> DEFINE t == Taken(TRUE, bUnacked, MaxInFlight, msgs)
<1>1. /\ bOut' = bOut \o t /\ bUnacked' = bUnacked + Len(t)
      /\ bLost' = \/ bLost /\ ~\E i \in DOMAIN t : t[i].topic = "nodeB"
                  \/ \E m \in Refused(t, msgs) : m.topic = "nodeB"
  BY SameVocabulary DEF B!Publish
<1>2. /\ bOut \in Seq(Message) /\ bUnacked \in Nat /\ bLost \in BOOLEAN
      /\ Len(bOut) <= bUnacked /\ bUnacked <= MaxInFlight
  BY SameVocabulary DEF NodeBOK, B!TypeOK, BSlots
<1>3. /\ t \in Seq(Message) /\ Len(t) \in Nat /\ bUnacked + Len(t) <= MaxInFlight
      /\ \A j \in 1 .. Len(t) : t[j] = msgs[j]
  <2>1. MaxInFlight \in Nat
    BY SlotAssumption
  <2> QED
    BY <1>2, <2>1, TakenFits, Zenon
<1>4. Len(t) <= Len(msgs)
  BY <1>2, SlotAssumption, TakenShort
<1> HIDE DEF t
<1>5. /\ DOMAIN msgs = 1 .. Len(msgs) /\ Len(msgs) \in Nat /\ DOMAIN t = 1 .. Len(t)
      /\ Len(bOut) \in Nat /\ DOMAIN bOut = 1 .. Len(bOut)
  BY <1>2, <1>3, LenProperties
<1>6. bOut' \in Seq(Message) /\ Len(bOut') = Len(bOut) + Len(t)
  BY <1>1, <1>2, <1>3, ConcatProperties
<1>7. BSlots'
  BY <1>1, <1>2, <1>3, <1>5, <1>6 DEF BSlots
<1>8. /\ \A i \in DOMAIN bOut : i \in DOMAIN bOut' /\ bOut'[i] = bOut[i]
      /\ \A i \in DOMAIN bOut' : i \notin DOMAIN bOut =>
            i - Len(bOut) \in DOMAIN t /\ bOut'[i] = t[i - Len(bOut)]
      /\ \A x : Has(bOut', x) <=> Has(bOut, x) \/ Has(t, x)
      /\ \A x : \A i \in DOMAIN bOut :
            Followed(bOut', i, x) <=> Followed(bOut, i, x) \/ Has(t, x)
  BY <1>1, <1>2, <1>3, PutBehind
<1>9. ASSUME ~bLost', Has(msgs, "nodeB") PROVE Has(t, "nodeB")
  <2>1. PICK j \in DOMAIN msgs : msgs[j].topic = "nodeB"
    BY <1>9 DEF Has
  <2>2. ~(j > Len(t))
    BY <1>1, <1>3, <1>5, <1>9, <2>1, RefusedRest
  <2> QED
    BY <1>3, <1>5, <2>1, <2>2 DEF Has
<1>10. ASSUME ~bLost', NodeBTruthful, NEW i \in DOMAIN bOut', bOut'[i].topic = "nodeB"
       PROVE  bOut'[i].device = actuator' \/ Followed(bOut', i, "nodeB")
  <2>1. CASE i \in DOMAIN bOut
    BY <1>8, <1>9, <1>10, <2>1 DEF NodeBTruthful
  <2>2. CASE i \notin DOMAIN bOut
    <3>1. i - Len(bOut) \in DOMAIN t /\ bOut'[i] = t[i - Len(bOut)]
      BY <1>8, <2>2
    <3>2. i - Len(bOut) \in DOMAIN msgs /\ t[i - Len(bOut)] = msgs[i - Len(bOut)]
      BY <1>3, <1>4, <1>5, <3>1
    <3> QED
      BY <1>10, <3>1, <3>2
  <2> QED
    BY <2>1, <2>2
<1>11. Told <=> Has(t, "nodeB")
  <2>1. \A k \in DOMAIN t : k + Len(bOut) \in DOMAIN bOut' /\ k + Len(bOut) > Len(bOut)
                            /\ bOut'[k + Len(bOut)] = t[k]
    BY <1>1, <1>2, <1>3, <1>5, ConcatProperties
  <2>2. \A i \in DOMAIN bOut' : i > Len(bOut) => i \notin DOMAIN bOut
    BY <1>5
  <2> QED
    BY <1>8, <2>1, <2>2 DEF Told, Has
<1>12. ASSUME Has(t, "nodeB"), NEW i \in DOMAIN bOut', bOut'[i].topic = "nodeB"
       PROVE  bOut'[i].device = actuator' \/ Followed(bOut', i, "nodeB")
  <2>1. CASE i \in DOMAIN bOut
    BY <1>8, <1>12, <2>1
  <2>2. CASE i \notin DOMAIN bOut
    <3>1. i - Len(bOut) \in DOMAIN t /\ bOut'[i] = t[i - Len(bOut)]
      BY <1>8, <2>2
    <3>2. i - Len(bOut) \in DOMAIN msgs /\ t[i - Len(bOut)] = msgs[i - Len(bOut)]
      BY <1>3, <1>4, <1>5, <3>1
    <3> QED
      BY <1>12, <3>1, <3>2
  <2> QED
    BY <2>1, <2>2
<1>13. Told => Has(msgs, "nodeB") /\ NodeBTruthful' /\ Has(bOut', "nodeB")
  <2>1. Has(t, "nodeB") => Has(msgs, "nodeB")
    BY <1>3, <1>4, <1>5 DEF Has
  <2> QED
    BY <1>8, <1>11, <1>12, <2>1 DEF NodeBTruthful
<1>14. ~Told => (bLost => bLost')
  BY <1>1, <1>11 DEF Has
<1>15. bLost' \in BOOLEAN
  BY <1>1
<1> QED
  BY <1>1, <1>2, <1>3, <1>6, <1>7, <1>8, <1>9, <1>10, <1>13, <1>14, <1>15 DEF NodeBTruthful

-----------------------------------------------------------------------------
(* The broker.                                                              *)

\* What the distribution of a message does to the queues of the boards.
RouteDone(m) ==
    /\ inboxC' \in Seq(Packet) /\ inboxB' \in Seq(Packet)
    /\ missed \subseteq missed'
    /\ \A i \in DOMAIN inboxC' :
          \/ i \in DOMAIN inboxC /\ inboxC'[i] = inboxC[i]
          \/ inboxC'[i] \in {m, Ack}
    /\ \A t : Has(inboxC, t) => Has(inboxC', t)
    /\ \A t : \A i \in DOMAIN inboxC : Followed(inboxC, i, t) => Followed(inboxC', i, t)
    /\ \A d, a : Opposed(inboxB, d, a) => Opposed(inboxB', d, a)
    /\ m.topic \notin missed' /\ m.topic \in ForNodeC =>
          /\ Has(inboxC', m.topic)
          /\ \A i \in DOMAIN inboxC : Followed(inboxC', i, m.topic)
    /\ m.topic \notin missed' /\ m.topic \in Devices =>
          \A a : m.state # a => Opposed(inboxB', m.topic, a)

LEMMA RouteEffect ==
    ASSUME BrokerOK, NEW m \in Message, NEW toC \in {<<>>, <<Ack>>},
           NEW toB \in {<<>>, <<Ack>>}, Route(m, toC, toB)
    PROVE  RouteDone(m)
<1> DEFINE forC == IF link = "up" /\ m.topic \in subsC THEN <<m>> ELSE <<>>
           forB == IF bLink = "up" /\ m.topic \in subsB THEN <<m>> ELSE <<>>
<1>1. /\ inboxC' = inboxC \o forC \o toC /\ inboxB' = inboxB \o forB \o toB
      /\ missed' = missed
                   \cup (IF forC = <<>> THEN {m.topic} \cap ForNodeC ELSE {})
                   \cup (IF forB = <<>> THEN {m.topic} \cap Devices ELSE {})
  BY DEF Route
<1>2. /\ forC \in {<<>>, <<m>>} /\ forB \in {<<>>, <<m>>}
      /\ <<>> \in Seq(Packet) /\ <<m>> \in Seq(Packet) /\ <<Ack>> \in Seq(Packet)
  BY EmptySeq DEF Packet
<1>3. /\ m.topic \notin missed' /\ m.topic \in ForNodeC => forC = <<m>>
      /\ m.topic \notin missed' /\ m.topic \in Devices => forB = <<m>>
  <2> HIDE DEF forC, forB
  <2> QED
    BY <1>1, <1>2
<1> HIDE DEF forC, forB
<1>4. forC \in Seq(Packet) /\ forB \in Seq(Packet) /\ toC \in Seq(Packet) /\ toB \in Seq(Packet)
  BY <1>2
<1>5. /\ \A i \in DOMAIN forC : forC[i] = m
      /\ \A i \in DOMAIN toC : toC[i] = Ack
      /\ Has(<<m>>, m.topic)
      /\ m.topic \in Devices => \A a : m.state # a => Opposed(<<m>>, m.topic, a)
  BY <1>2, SingleMessage
<1> DEFINE w == inboxC \o forC
           v == inboxB \o forB
<1>6. /\ w \in Seq(Packet) /\ v \in Seq(Packet)
      /\ \A i \in DOMAIN inboxC : i \in DOMAIN w /\ w[i] = inboxC[i]
      /\ \A i \in DOMAIN w : i \notin DOMAIN inboxC => w[i] = m
      /\ \A t : Has(w, t) <=> Has(inboxC, t) \/ Has(forC, t)
      /\ \A t : \A i \in DOMAIN inboxC :
            Followed(w, i, t) <=> Followed(inboxC, i, t) \/ Has(forC, t)
      /\ \A d, a : Opposed(v, d, a) <=> Opposed(inboxB, d, a) \/ Opposed(forB, d, a)
  <2>1. inboxC \in Seq(Packet) /\ inboxB \in Seq(Packet)
    BY DEF BrokerOK
  <2> QED
    BY <1>4, <1>5, <2>1, PutBehind
<1>7. inboxC' = w \o toC /\ inboxB' = v \o toB
  BY <1>1
<1> HIDE DEF w, v
<1>8. /\ inboxC' \in Seq(Packet) /\ inboxB' \in Seq(Packet)
      /\ \A i \in DOMAIN w : i \in DOMAIN inboxC' /\ inboxC'[i] = w[i]
      /\ \A i \in DOMAIN inboxC' : i \notin DOMAIN w => inboxC'[i] = Ack
      /\ \A t : Has(w, t) => Has(inboxC', t)
      /\ \A t : \A i \in DOMAIN w : Followed(w, i, t) => Followed(inboxC', i, t)
      /\ \A d, a : Opposed(v, d, a) => Opposed(inboxB', d, a)
  <2>1. \A i \in DOMAIN toC : toC[i] = Ack
    OBVIOUS
  <2> QED
    BY <1>4, <1>6, <1>7, <2>1, PutBehind
<1>9. \A i \in DOMAIN inboxC' : \/ i \in DOMAIN inboxC /\ inboxC'[i] = inboxC[i]
                                \/ inboxC'[i] \in {m, Ack}
  BY <1>6, <1>8
<1>10. m.topic \notin missed' /\ m.topic \in ForNodeC =>
          /\ Has(inboxC', m.topic)
          /\ \A i \in DOMAIN inboxC : Followed(inboxC', i, m.topic)
  BY <1>3, <1>5, <1>6, <1>8
<1>11. m.topic \notin missed' /\ m.topic \in Devices => \A a : m.state # a => Opposed(inboxB', m.topic, a)
  BY <1>3, <1>5, <1>6, <1>8
<1> QED
  <2>1. missed \subseteq missed'
    BY <1>1
  <2> QED
    BY <1>6, <1>8, <1>9, <1>10, <1>11, <2>1 DEF RouteDone

\* A message goes from a source outside, or from the requests of a board, to
\* the queues, and nothing else changes: the commands and statuses.
LEMMA RouteConsistent ==
    ASSUME Consistent, missed' \cap (Devices \cup {"nodeB"}) = {},
           NEW m \in Message, RouteDone(m),
           UNCHANGED <<actuator, device, pc, todo, want>>,
           \A d, a : Opposed(out, d, a) =>
                Opposed(out', d, a) \/ (m.topic = d /\ m.state # a),
           Has(bOut, "nodeB") => Has(bOut', "nodeB") \/ m.topic = "nodeB",
           NodeBTruthful',
           m.topic = "nodeB" => m.device = actuator \/ Has(bOut', "nodeB")
    PROVE  Consistent'
<1> USE DEF Consistent
<1>1. Ack.topic = "ack"
  BY DEF Ack
<1>2. StatusesTrue'
  BY <1>1 DEF StatusesTrue, RouteDone, ForNodeC
<1>3. EchoesHarmless'
  <2> SUFFICES ASSUME NEW i \in DOMAIN inboxC', NEW d \in Devices, inboxC'[i].topic = d,
                      inboxC'[i].state # actuator[d], ~Opposed(inboxB', d, actuator[d]),
                      ~Followed(inboxC', i, "nodeB"), ~Has(bOut', "nodeB")
               PROVE  FALSE
    BY DEF EchoesHarmless
  <2>1. CASE i \in DOMAIN inboxC /\ inboxC'[i] = inboxC[i]
    BY <2>1 DEF RouteDone, EchoesHarmless, ForNodeC
  <2>2. CASE inboxC'[i] \in {m, Ack}
    BY <1>1, <2>2 DEF RouteDone, Devices
  <2> QED
    BY <2>1, <2>2 DEF RouteDone
<1>4. BeliefsJustified'
  <2> SUFFICES ASSUME ~Has(inboxC', "nodeB"), ~Has(bOut', "nodeB"), NEW d \in Devices
               PROVE  Justified(d)'
    BY DEF BeliefsJustified
  <2>1. m.topic # "nodeB" /\ ~Has(inboxC, "nodeB") /\ ~Has(bOut, "nodeB")
    BY DEF RouteDone, ForNodeC
  <2>2. Justified(d)
    BY <2>1 DEF BeliefsJustified
  <2> QED
    BY <2>2 DEF Justified, RouteDone
<1> QED
  BY <1>2, <1>3, <1>4

\* The same for the modes.
LEMMA RouteModes ==
    ASSUME ModesOrdered, "mode" \notin missed', NEW m \in Message, RouteDone(m),
           lastMode' = IF m.topic = "mode" THEN m.mode ELSE lastMode,
           UNCHANGED <<mode, pc>>,
           Has(out, "mode") => Has(out', "mode") \/ m.topic = "mode"
    PROVE  ModesOrdered'
<1>1. Ack.topic = "ack"
  BY DEF Ack
<1>2. CASE m.topic = "mode"
  BY <1>1, <1>2 DEF ModesOrdered, RouteDone, ForNodeC
<1>3. CASE m.topic # "mode"
  BY <1>1, <1>3 DEF ModesOrdered, ModeJustified, Announcing, RouteDone
<1> QED
  BY <1>2, <1>3

-----------------------------------------------------------------------------
(* Deliveries and the other steps.                                          *)

LEMMA DeliverCConsistent ==
    ASSUME HouseInv, Consistent, NoCommandLost', DeliverToC
    PROVE  Consistent'
<1> USE DEF HouseInv, Consistent
<1> DEFINE m == Head(inboxC)
<1>1. /\ inboxC # <<>> /\ inboxC' = Tail(inboxC)
      /\ UNCHANGED <<inboxB, lastMode, actuator, bOut>>
  BY DEF DeliverToC, nodeB
<1>2. inboxC \in Seq(Packet)
  BY DEF BrokerOK
<1>3. /\ m \in Packet /\ m = inboxC[1] /\ 1 \in DOMAIN inboxC
      /\ \A i \in DOMAIN inboxC' : i + 1 \in DOMAIN inboxC /\ inboxC'[i] = inboxC[i + 1]
      /\ \A t : Has(inboxC, t) <=> m.topic = t \/ Has(inboxC', t)
      /\ \A t : Followed(inboxC, 1, t) <=> Has(inboxC', t)
      /\ \A t : \A i \in DOMAIN inboxC' : Followed(inboxC, i + 1, t) <=> Followed(inboxC', i, t)
  BY <1>1, <1>2, TakeHead
<1>4. NodeBTruthful'
  BY <1>1 DEF NodeBTruthful
<1>5. StatusesTrue'
  BY <1>1, <1>3 DEF StatusesTrue
<1>6. EchoesHarmless'
  BY <1>1, <1>3 DEF EchoesHarmless
<1>7. CASE m = Ack
  <2>1. UNCHANGED <<mode, device, pc, todo, want, out>>
    BY <1>7 DEF DeliverToC, Acked, controller, thread, locals
  <2>2. m.topic = "ack"
    BY <1>7 DEF Ack
  <2> HIDE DEF m
  <2>3. BeliefsJustified'
    BY <1>1, <1>3, <2>1, <2>2 DEF BeliefsJustified, Justified
  <2> QED
    BY <1>4, <1>5, <1>6, <2>3
<1>8. CASE m # Ack
  <2>1. m \in Message /\ Receive(m)
    BY <1>3, <1>8 DEF DeliverToC, Packet
  <2>2. HeardFaithful(m)
    BY <2>1, HearStep
  <2> HIDE DEF m
  <2>3. BeliefsJustified'
    <3> SUFFICES ASSUME ~Has(inboxC', "nodeB"), ~Has(bOut', "nodeB"), NEW d \in Devices
                 PROVE  Justified(d)'
      BY DEF BeliefsJustified
    <3>1. CASE m.topic = "nodeB"
      <4>1. m.device = actuator
        BY <1>1, <1>3, <3>1 DEF StatusesTrue
      <4> QED
        BY <1>1, <2>2, <3>1, <4>1 DEF HeardFaithful, Justified
    <3>2. CASE m.topic # "nodeB"
      <4>1. Justified(d)
        BY <1>1, <1>3, <3>2 DEF BeliefsJustified
      <4>2. CASE m.topic \in Devices /\ d = m.topic /\ device'[d] = m.state
        <5>1. m.state = actuator[d] \/ Opposed(inboxB, d, actuator[d])
          BY <1>1, <1>3, <4>2 DEF EchoesHarmless
        <5> QED
          BY <1>1, <4>2, <5>1 DEF Justified
      <4>3. CASE m.topic \in Devices /\ device'[d] = device[d]
        BY <1>1, <2>2, <4>1, <4>3 DEF HeardFaithful, RequestsGrow, Justified
      <4>4. CASE m.topic \notin Devices
        BY <1>1, <2>2, <3>2, <4>1, <4>4 DEF HeardFaithful, Justified, Backed
      <4> QED
        BY <2>2, <4>2, <4>3, <4>4 DEF HeardFaithful
    <3> QED
      BY <3>1, <3>2
  <2> QED
    BY <1>4, <1>5, <1>6, <2>3
<1> QED
  BY <1>7, <1>8

LEMMA DeliverCModes ==
    ASSUME HouseInv, ModesOrdered, "mode" \notin lost', DeliverToC
    PROVE  ModesOrdered'
<1> USE DEF HouseInv
<1> DEFINE m == Head(inboxC)
<1>1. inboxC # <<>> /\ inboxC' = Tail(inboxC) /\ lastMode' = lastMode
  BY DEF DeliverToC
<1>2. inboxC \in Seq(Packet)
  BY DEF BrokerOK
<1>3. /\ m \in Packet /\ m = inboxC[1] /\ 1 \in DOMAIN inboxC
      /\ \A i \in DOMAIN inboxC' : i + 1 \in DOMAIN inboxC /\ inboxC'[i] = inboxC[i + 1]
      /\ \A t : Has(inboxC, t) <=> m.topic = t \/ Has(inboxC', t)
      /\ \A t : Followed(inboxC, 1, t) <=> Has(inboxC', t)
      /\ \A t : \A i \in DOMAIN inboxC' : Followed(inboxC, i + 1, t) <=> Followed(inboxC', i, t)
  BY <1>1, <1>2, TakeHead
<1>4. CASE m = Ack
  <2>1. UNCHANGED <<mode, pc, out>> /\ m.topic = "ack"
    BY <1>4 DEF DeliverToC, Acked, controller, thread, Ack
  <2> HIDE DEF m
  <2> QED
    BY <1>1, <1>3, <2>1 DEF ModesOrdered, ModeJustified, Announcing
<1>5. CASE m # Ack
  <2>1. m \in Message /\ Receive(m)
    BY <1>3, <1>5 DEF DeliverToC, Packet
  <2>2. HeardFaithful(m)
    BY <2>1, HearStep
  <2> HIDE DEF m
  <2>3. CASE m.topic = "mode"
    BY <1>1, <1>3, <2>2, <2>3 DEF ModesOrdered, ModeJustified, HeardFaithful
  <2>4. CASE m.topic # "mode"
    BY <1>1, <1>3, <2>2, <2>4
       DEF ModesOrdered, ModeJustified, Announcing, HeardFaithful, RequestsGrow
  <2> QED
    BY <2>3, <2>4
<1> QED
  BY <1>4, <1>5

\* Node B acts, and tells of it or not; its queue may have lost a command that
\* asked for what is already so.
LEMMA NodeBConsistent ==
    ASSUME Consistent, NodeBTruthful',
           UNCHANGED <<inboxC, device, pc, todo, want, out, actuator>>,
           Has(bOut, "nodeB") => Has(bOut', "nodeB"),
           \A d \in Devices : Opposed(inboxB, d, actuator[d]) => Opposed(inboxB', d, actuator[d])
    PROVE  Consistent'
<1> USE DEF Consistent
<1>1. StatusesTrue'
  BY DEF StatusesTrue
<1>2. EchoesHarmless'
  BY DEF EchoesHarmless
<1>3. BeliefsJustified'
  BY DEF BeliefsJustified, Justified
<1> QED
  BY <1>1, <1>2, <1>3

\* With a status of node B that tells the truth on its way nothing else matters.
LEMMA ToldConsistent ==
    ASSUME NodeBTruthful', Has(bOut', "nodeB")
    PROVE  Consistent'
  BY DEF Consistent, StatusesTrue, EchoesHarmless, BeliefsJustified

\* A step of node B and its queue leaves the modes alone.
LEMMA ModesUntouched ==
    ASSUME ModesOrdered, UNCHANGED <<inboxC, lastMode, mode, pc, out>>
    PROVE  ModesOrdered'
  BY DEF ModesOrdered, ModeJustified, Announcing

\* A command node B hears: the one step that changes the actuators.
LEMMA NodeBReceive ==
    ASSUME NodeBOK, NEW m \in Message, B!Receive(m)
    PROVE  /\ actuator' \in [Devices -> Switch]
           /\ bOut' \in Seq(Message) /\ bUnacked' \in Nat /\ bLost' \in BOOLEAN
           /\ BSlots'
           /\ UNCHANGED <<bLink, bHeartbeatLast, now>>
           /\ Has(bOut, "nodeB") => Has(bOut', "nodeB")
           /\ ~bLost' /\ NodeBTruthful => NodeBTruthful'
           /\ Told => NodeBTruthful' /\ Has(bOut', "nodeB")
           /\ ~Told => (bLost => bLost')
           /\ ~bLost' => \/ Has(bOut', "nodeB")
                         \/ /\ actuator' = actuator
                            /\ m.topic \in Devices => m.state = actuator[m.topic]
<1>1. /\ actuator \in [Devices -> Switch]
      /\ bOut \in Seq(Message) /\ bUnacked \in Nat /\ bLost \in BOOLEAN
  BY SameVocabulary DEF NodeBOK, B!TypeOK
<1>2. UNCHANGED <<bLink, bHeartbeatLast, now>>
  BY DEF B!Receive
<1>3. CASE /\ m.topic \notin Devices \/ actuator[m.topic] = m.state
           /\ UNCHANGED <<actuator, bOut, bUnacked, bLost>>
  <2>1. ~Told
    BY <1>1, <1>3, LenProperties DEF Told
  <2> QED
    BY <1>1, <1>2, <1>3, <2>1 DEF NodeBOK, BSlots, NodeBTruthful
<1>4. CASE /\ m.topic \in Devices
           /\ actuator' = [actuator EXCEPT ![m.topic] = m.state]
           /\ B!Publish(TRUE, <<StatusB(actuator')>>)
  <2> DEFINE msgs == <<StatusB(actuator')>>
  <2>1. actuator' \in [Devices -> Switch]
    BY <1>1, <1>4, MessageFields
  <2>2. /\ StatusB(actuator') \in Message /\ StatusB(actuator').topic = "nodeB"
        /\ StatusB(actuator').device = actuator'
    BY <2>1, MessageTypes DEF StatusB
  <2>3. /\ msgs \in Seq(Message) /\ Has(msgs, "nodeB")
        /\ \A j \in DOMAIN msgs : msgs[j].device = actuator'
    BY <2>2, SingleMessage
  <2>4. B!Publish(TRUE, msgs)
    BY <1>4
  <2> HIDE DEF msgs
  <2> QED
    BY <1>2, <2>1, <2>3, <2>4, NodeBPublish
<1> QED
  BY <1>3, <1>4, SameVocabulary DEF B!Receive

LEMMA DeliverBConsistent ==
    ASSUME HouseInv, Consistent, ~bLost', DeliverToB
    PROVE  Consistent'
<1> USE DEF HouseInv, Consistent
<1> DEFINE m == Head(inboxB)
<1>1. /\ inboxB # <<>> /\ inboxB' = Tail(inboxB)
      /\ UNCHANGED <<inboxC, device, pc, todo, want, out>>
  BY DEF DeliverToB, MadeGood, controller, thread, locals
<1>2. inboxB \in Seq(Packet)
  BY DEF BrokerOK
<1>3. /\ m \in Packet
      /\ \A d, a : Opposed(inboxB, d, a) =>
            (m.topic = d /\ m.state # a) \/ Opposed(inboxB', d, a)
  BY <1>1, <1>2, TakeHead
<1>4. CASE m = Ack
  <2>1. UNCHANGED <<actuator, bOut>> /\ m.topic = "ack"
    BY <1>4 DEF DeliverToB, B!Acked, Ack
  <2> HIDE DEF m
  <2>2. \A d \in Devices : Opposed(inboxB, d, actuator[d]) => Opposed(inboxB', d, actuator[d])
    BY <1>3, <2>1 DEF Devices
  <2> QED
    BY <1>1, <2>1, <2>2, NodeBConsistent DEF NodeBTruthful
<1>5. CASE m # Ack
  <2>1. m \in Message /\ B!Receive(m)
    BY <1>3, <1>5 DEF DeliverToB, Packet
  <2> HIDE DEF m
  <2>2. /\ Has(bOut, "nodeB") => Has(bOut', "nodeB")
        /\ NodeBTruthful'
        /\ \/ Has(bOut', "nodeB")
           \/ actuator' = actuator /\ (m.topic \in Devices => m.state = actuator[m.topic])
    BY <2>1, NodeBReceive
  <2>3. CASE Has(bOut', "nodeB")
    BY <2>2, <2>3, ToldConsistent
  <2>4. CASE actuator' = actuator /\ (m.topic \in Devices => m.state = actuator[m.topic])
    BY <1>1, <1>3, <2>2, <2>4, NodeBConsistent
  <2> QED
    BY <2>2, <2>3, <2>4
<1> QED
  BY <1>4, <1>5

\* The other steps of node B that publish: the connection and the heartbeat.
LEMMA NodeBTells ==
    ASSUME NodeBOK, B!Connected \/ B!Heartbeat
    PROVE  /\ actuator' = actuator
           /\ bLink' \in {bLink, "up"} /\ bHeartbeatLast' \in {bHeartbeatLast, now}
           /\ now' = now
           /\ bOut' \in Seq(Message) /\ bUnacked' \in Nat /\ bLost' \in BOOLEAN
           /\ BSlots'
           /\ Has(bOut, "nodeB") => Has(bOut', "nodeB")
           /\ ~bLost' /\ NodeBTruthful => NodeBTruthful'
           /\ Told => B!Connected /\ NodeBTruthful' /\ Has(bOut', "nodeB")
           /\ ~Told => (bLost => bLost')
<1>1. actuator \in [Devices -> Switch]
  BY SameVocabulary DEF NodeBOK, B!TypeOK
<1>2. CASE B!Connected
  <2> DEFINE msgs == <<SubscribeMsg("light"), SubscribeMsg("window"),
                       StatusB(actuator), HeartbeatMsg("heartbeatB")>>
  <2>1. /\ SubscribeMsg("light") \in Message /\ SubscribeMsg("window") \in Message
        /\ StatusB(actuator) \in Message /\ HeartbeatMsg("heartbeatB") \in Message
    BY <1>1, MessageTypes DEF Topic, Devices, Heartbeats
  <2>2. msgs \in Seq(Message) /\ DOMAIN msgs = 1 .. 4
    BY <2>1
  <2>3. /\ B!Publish(TRUE, msgs) /\ bLink' = "up"
        /\ UNCHANGED <<actuator, bHeartbeatLast, now>>
    BY <1>2, SameVocabulary DEF B!Connected
  <2>4. /\ msgs[1].topic # "nodeB" /\ msgs[2].topic # "nodeB"
        /\ msgs[3].device = actuator /\ msgs[4].topic # "nodeB"
    BY DEF SubscribeMsg, HeartbeatMsg, StatusB
  <2> HIDE DEF msgs
  <2>5. \A j \in DOMAIN msgs : msgs[j].topic = "nodeB" => msgs[j].device = actuator'
    BY <2>2, <2>3, <2>4
  <2> QED
    BY <1>2, <2>2, <2>3, <2>5, NodeBPublish
<1>3. CASE B!Heartbeat
  <2> DEFINE msgs == <<HeartbeatMsg("heartbeatB")>>
  <2>1. HeartbeatMsg("heartbeatB") \in Message
    BY MessageTypes DEF Heartbeats
  <2>2. /\ msgs \in Seq(Message) /\ \A j \in DOMAIN msgs : msgs[j].topic # "nodeB"
        /\ ~Has(msgs, "nodeB")
    BY <2>1 DEF HeartbeatMsg, Has
  <2>3. /\ B!Publish(TRUE, msgs) /\ bHeartbeatLast' = now
        /\ UNCHANGED <<actuator, bLink, now>>
    BY <1>3, SameVocabulary DEF B!Heartbeat
  <2> HIDE DEF msgs
  <2> QED
    BY <2>2, <2>3, NodeBPublish
<1> QED
  BY <1>2, <1>3

\* A step of node C that hears nothing.
LEMMA LoopConsistent ==
    ASSUME HouseInv, Consistent, NoCommandLost',
           Main \/ Tick \/ DnsFound \/ Connected \/ Acked,
           UNCHANGED <<inboxC, inboxB, actuator, bOut>>
    PROVE  Consistent'
<1> USE DEF HouseInv, Consistent
<1>1. LoopFaithful
  BY LoopStep
<1>2. NodeBTruthful' /\ StatusesTrue' /\ EchoesHarmless'
  BY DEF NodeBTruthful, StatusesTrue, EchoesHarmless
<1>3. BeliefsJustified'
  <2> SUFFICES ASSUME ~Has(inboxC, "nodeB"), ~Has(bOut, "nodeB"), NEW d \in Devices
               PROVE  Justified(d)'
    BY DEF BeliefsJustified
  <2>1. Opposed(inboxB, d, actuator[d]) \/ Backed(d, actuator[d])
    BY DEF BeliefsJustified, Justified, Backed
  <2>2. Opposed(inboxB, d, actuator[d]) \/ Backed(d, actuator[d])'
    BY <1>1, <2>1 DEF LoopFaithful
  <2> QED
    BY <2>2 DEF Justified, Backed
<1> QED
  BY <1>2, <1>3

LEMMA LoopModes ==
    ASSUME HouseInv, ModesOrdered, "mode" \notin lost',
           Main \/ Tick \/ DnsFound \/ Connected \/ Acked,
           UNCHANGED <<inboxC, lastMode>>
    PROVE  ModesOrdered'
  BY LoopStep DEF HouseInv, ModesOrdered, ModeJustified, LoopFaithful

\* A connection that ends without a trace had nothing under way that steers.
LEMMA LoseCConsistent ==
    ASSUME Consistent, Sound', LoseC
    PROVE  Consistent'
<1> USE DEF Consistent
<1>1. /\ UNCHANGED <<inboxB, actuator, bOut, device, pc, todo, want>>
      /\ inboxC' = <<>> /\ out' = <<>>
      /\ lost' = lost \cup Topics({out[i] : i \in DOMAIN out})
      /\ missed' = missed \cup (TopicsOf(inboxC) \cap ForNodeC)
  BY DEF LoseC, Disconnected, nodeB, controller, thread, locals
<1>2. \A d \in Devices : \A a : ~Opposed(out, d, a)
  BY <1>1 DEF Sound, Topics, Steers, Steering, Opposed
<1>3. ~Has(inboxC, "nodeB")
  BY <1>1 DEF Sound, TopicsOf, ForNodeC, Has
<1>4. NodeBTruthful' /\ StatusesTrue' /\ EchoesHarmless'
  BY <1>1 DEF NodeBTruthful, StatusesTrue, EchoesHarmless
<1>5. BeliefsJustified'
  BY <1>1, <1>2, <1>3 DEF BeliefsJustified, Justified
<1> QED
  BY <1>4, <1>5

LEMMA LoseCModes ==
    ASSUME ModesOrdered, ModesSound', LoseC
    PROVE  ModesOrdered'
<1>1. /\ UNCHANGED <<lastMode, mode, pc>> /\ inboxC' = <<>> /\ out' = <<>>
      /\ lost' = lost \cup Topics({out[i] : i \in DOMAIN out})
      /\ missed' = missed \cup (TopicsOf(inboxC) \cap ForNodeC)
  BY DEF LoseC, Disconnected, controller, thread
<1>2. ~Has(out, "mode")
  BY <1>1 DEF ModesSound, Topics, Steers, Steering, Has
<1>3. ~Has(inboxC, "mode")
  BY <1>1 DEF ModesSound, TopicsOf, ForNodeC, Has
<1> QED
  BY <1>1, <1>2, <1>3 DEF ModesOrdered, ModeJustified, Announcing

LEMMA LoseBConsistent ==
    ASSUME Consistent, Sound', LoseB
    PROVE  Consistent'
<1>1. /\ UNCHANGED <<inboxC, device, pc, todo, want, out, actuator>>
      /\ inboxB' = <<>> /\ bOut' = <<>>
      /\ bLost' = (bLost \/ \E i \in DOMAIN bOut : bOut[i].topic = "nodeB")
      /\ missed' = missed \cup (TopicsOf(inboxB) \cap Devices)
  BY DEF LoseB, B!Disconnected, nodeC, controller, thread, locals, network
<1>2. ~Has(bOut, "nodeB")
  BY <1>1 DEF Sound, Has
<1>4. NodeBTruthful'
  BY <1>1 DEF NodeBTruthful
<1>3. \A d \in Devices : ~Opposed(inboxB, d, actuator[d])
  BY <1>1 DEF Sound, TopicsOf, Opposed
<1> QED
  BY <1>1, <1>2, <1>3, <1>4, NodeBConsistent

\* The oldest request of a board reaches the broker.
LEMMA TakeCConsistent ==
    ASSUME HouseInv, TakeFromC
    PROVE  /\ Consistent /\ Sound' => Consistent'
           /\ ModesOrdered /\ ModesSound' => ModesOrdered'
<1> USE DEF HouseInv
<1> DEFINE m == Head(out)
<1>1. /\ out # <<>> /\ out' = Tail(out) /\ out \in Seq(Message)
      /\ Route(m, <<Ack>>, <<>>)
      /\ UNCHANGED <<actuator, device, mode, pc, todo, want, bOut>>
  BY DEF TakeFromC, Take, IInv, NetworkOK, nodeB, controller, thread, locals
<1>2. /\ m \in Message
      /\ \A t : Has(out, t) <=> m.topic = t \/ Has(out', t)
      /\ \A d, a : Opposed(out, d, a) <=> (m.topic = d /\ m.state # a) \/ Opposed(out', d, a)
  BY <1>1, TakeHead
<1>3. RouteDone(m) /\ lastMode' = IF m.topic = "mode" THEN m.mode ELSE lastMode
  BY <1>1, <1>2, RouteEffect DEF Route
<1>4. m.topic # "nodeB"
  BY <1>2 DEF OnlyBReports
<1> HIDE DEF m
<1>5. Consistent => NodeBTruthful'
  BY <1>1 DEF Consistent, NodeBTruthful
<1>6. /\ Sound' => missed' \cap (Devices \cup {"nodeB"}) = {}
      /\ ModesSound' => "mode" \notin missed'
  BY DEF Sound, ModesSound
<1>7. Consistent /\ Sound' => Consistent'
  BY <1>1, <1>2, <1>3, <1>4, <1>5, <1>6, RouteConsistent
<1>8. ModesOrdered /\ ModesSound' => ModesOrdered'
  BY <1>1, <1>2, <1>3, <1>6, RouteModes
<1> QED
  BY <1>7, <1>8

LEMMA TakeBConsistent ==
    ASSUME HouseInv, TakeFromB
    PROVE  /\ Consistent /\ Sound' => Consistent'
           /\ ModesOrdered /\ ModesSound' => ModesOrdered'
<1> USE DEF HouseInv
<1> DEFINE m == Head(bOut)
<1>1. /\ bOut # <<>> /\ bOut' = Tail(bOut)
      /\ Route(m, <<>>, <<Ack>>)
      /\ UNCHANGED <<actuator, device, mode, pc, todo, want, out>>
  BY DEF TakeFromB, B!Take, nodeC, controller, thread, locals, network
<1>2. bOut \in Seq(Message)
  BY SameVocabulary DEF NodeBOK, B!TypeOK
<1>3. /\ m \in Message /\ m = bOut[1] /\ 1 \in DOMAIN bOut
      /\ \A i \in DOMAIN bOut' : i + 1 \in DOMAIN bOut /\ bOut'[i] = bOut[i + 1]
      /\ \A t : Has(bOut, t) <=> m.topic = t \/ Has(bOut', t)
      /\ \A t : Followed(bOut, 1, t) <=> Has(bOut', t)
      /\ \A t : \A i \in DOMAIN bOut' : Followed(bOut, i + 1, t) <=> Followed(bOut', i, t)
  BY <1>1, <1>2, TakeHead
<1>4. RouteDone(m) /\ lastMode' = IF m.topic = "mode" THEN m.mode ELSE lastMode
  BY <1>1, <1>3, RouteEffect DEF Route
<1> HIDE DEF m
<1>5. /\ Sound' => missed' \cap (Devices \cup {"nodeB"}) = {}
      /\ ModesSound' => "mode" \notin missed'
  BY DEF Sound, ModesSound
<1>6. ASSUME Consistent, Sound' PROVE Consistent'
  <2>1. NodeBTruthful'
    BY <1>1, <1>3, <1>6 DEF Consistent, NodeBTruthful
  <2>2. m.topic = "nodeB" => m.device = actuator \/ Has(bOut', "nodeB")
    BY <1>3, <1>6 DEF Consistent, NodeBTruthful
  <2> QED
    BY <1>1, <1>3, <1>4, <1>5, <1>6, <2>1, <2>2, RouteConsistent
<1>7. ModesOrdered /\ ModesSound' => ModesOrdered'
  BY <1>1, <1>3, <1>4, <1>5, RouteModes
<1> QED
  BY <1>6, <1>7

\* Node A and the console publish straight to the broker.
LEMMA InputConsistent ==
    ASSUME HouseInv, Console \/ \E r \in Readings : Measure(r)
    PROVE  /\ Consistent /\ Sound' => Consistent'
           /\ ModesOrdered /\ ModesSound' => ModesOrdered'
<1> USE DEF HouseInv
<1>1. PICK m \in Message : Route(m, <<>>, <<>>) /\ m.topic # "nodeB"
  <2>1. CASE Console
    BY <2>1, HouseAssumption DEF Console, Steers, Steering, Devices
  <2>2. ASSUME NEW r \in Readings, Measure(r) PROVE EnvMsg(r) \in Message
    BY HouseAssumption DEF EnvMsg, Message
  <2> QED
    BY <2>1, <2>2 DEF Measure, EnvMsg
<1>2. UNCHANGED <<actuator, device, mode, pc, todo, want, out, bOut>>
  BY DEF Console, Measure, nodeB, nodeC, controller, thread, locals, network
<1>3. RouteDone(m) /\ lastMode' = IF m.topic = "mode" THEN m.mode ELSE lastMode
  BY <1>1, RouteEffect DEF Route
<1>4. Consistent => NodeBTruthful'
  BY <1>2 DEF Consistent, NodeBTruthful
<1>5. /\ Sound' => missed' \cap (Devices \cup {"nodeB"}) = {}
      /\ ModesSound' => "mode" \notin missed'
  BY DEF Sound, ModesSound
<1>6. Consistent /\ Sound' => Consistent'
  BY <1>1, <1>2, <1>3, <1>4, <1>5, RouteConsistent
<1>7. ModesOrdered /\ ModesSound' => ModesOrdered'
  BY <1>2, <1>3, <1>5, RouteModes
<1> QED
  BY <1>6, <1>7

-----------------------------------------------------------------------------
(* HouseInv is kept, one lemma per part.                                     *)

\* For node C a step of the house is one of its own, or none.
LEMMA NodeCSteps ==
    ASSUME BrokerOK, HouseNext
    PROVE  BoardStep \/ UNCHANGED vars
<1> USE DEF BoardStep
<1>1. CASE LoopC \/ HouseTick \/ ResolveC \/ ConnectC \/ LoseC \/ TakeFromC \/ Uart
  BY <1>1 DEF LoopC, HouseTick, ResolveC, ConnectC, LoseC, TakeFromC, Uart, Main
<1>2. CASE DeliverToC
  <2>1. Head(inboxC) # Ack => Head(inboxC) \in Message
    BY <1>2, TakeHead DEF DeliverToC, BrokerOK, Packet
  <2> QED
    BY <1>2, <2>1 DEF DeliverToC
<1>5. CASE DeliverToB \/ ConnectB
  <2>1. now' = now /\ MadeGood
    BY <1>5 DEF DeliverToB, ConnectB, B!Acked, B!Receive, B!Connected
  <2>2. lost' \subseteq lost
    BY <2>1 DEF MadeGood
  <2> QED
    BY <2>1, <2>2 DEF MadeGood, OthersMakeGood
<1>3. CASE TakeFromB \/ LoseB \/ ResolveB \/ BeatB
  <2>1. UNCHANGED <<nodeC, now>>
    BY <1>3 DEF TakeFromB, LoseB, ResolveB, BeatB,
         B!Take, B!Disconnected, B!DnsFound, B!Heartbeat
  <2> QED
    BY <2>1 DEF nodeC, vars
<1>4. CASE Console \/ \E r \in Readings : Measure(r)
  BY <1>4 DEF Console, Measure, nodeC, vars
<1> QED
  BY <1>1, <1>2, <1>3, <1>4, <1>5 DEF HouseNext, Work

LEMMA EnabledKept ==
    ASSUME BoardStep \/ UNCHANGED vars
    PROVE  enabled' = enabled
<1>1. CASE Main
  BY <1>1 DEF Main, Loop, ReadClock, NoUart, WriteMode, LoadMode, PublishMode, EnterRules, LoadTemp,
       Decide, TestDevice, WriteDevice, PublishCommand, BuildSnapshot, PublishSnapshot,
       Demo, ApplyEnv, Poll, CheckNodeA, ReportNodeA, CheckNodeB, ReportNodeB,
       StatusDue, UartLine, Publish, network
<1>2. CASE \/ Tick \/ DnsFound \/ Connected \/ Disconnected \/ Acked \/ Take
           \/ OthersMakeGood \/ UNCHANGED vars
  BY <1>2 DEF Tick, DnsFound, Connected, Disconnected, Acked, Take, OthersMakeGood, vars, network
<1>3. CASE \E m \in Message : Receive(m)
  BY <1>3 DEF Receive, ApplyEnv, ApplyMode, ApplyCommand, ApplyNodeBStatus, Publish, network
<1> QED
  BY <1>1, <1>2, <1>3 DEF BoardStep

LEMMA OnlyBReportsKept ==
    ASSUME IInv, enabled, OnlyBReports, BoardStep \/ UNCHANGED vars
    PROVE  OnlyBReports'
<1>1. CASE Main \/ Tick \/ DnsFound \/ Connected \/ Acked
  BY <1>1, LoopStep DEF LoopFaithful, RequestsGrow, OnlyBReports
<1>2. CASE Disconnected
  BY <1>2 DEF Disconnected, OnlyBReports, Has
<1>3. CASE Take
  BY <1>3, TakeHead DEF Take, OnlyBReports, IInv, NetworkOK
<1>4. CASE \E m \in Message : Receive(m)
  BY <1>4, HearStep DEF HeardFaithful, RequestsGrow, OnlyBReports
<1>5. CASE OthersMakeGood \/ UNCHANGED vars
  BY <1>5 DEF OthersMakeGood, vars, network, OnlyBReports
<1> QED
  BY <1>1, <1>2, <1>3, <1>4, <1>5 DEF BoardStep

LEMMA NodeBStep ==
    ASSUME NodeBOK, BrokerOK, HouseNext, now' \in Nat
    PROVE  NodeBOK'
<1>1. /\ actuator \in [Devices -> Switch]
      /\ bLink \in {"dns", "connecting", "up", "down", "halted"}
      /\ bOut \in Seq(Message) /\ bUnacked \in Nat
      /\ bHeartbeatLast \in Nat /\ bLost \in BOOLEAN /\ now \in Nat
  BY SameVocabulary DEF NodeBOK, B!TypeOK
<1>2. Len(bOut) \in Nat /\ MaxInFlight \in Nat
  BY <1>1, SlotAssumption, LenProperties
<1> DEFINE Typed ==
       /\ actuator' \in [Devices -> Switch]
       /\ bLink' \in {"dns", "connecting", "up", "down", "halted"}
       /\ bOut' \in Seq(Message) /\ bUnacked' \in Nat
       /\ bHeartbeatLast' \in Nat /\ bLost' \in BOOLEAN
<1>3. Typed /\ BSlots' => NodeBOK'
  BY SameVocabulary DEF NodeBOK, B!TypeOK
<1>4. CASE UNCHANGED nodeB
  BY <1>1, <1>3, <1>4 DEF nodeB, NodeBOK, BSlots
<1>5. CASE TakeFromB
  BY <1>1, <1>2, <1>3, <1>5, HeadTailProperties, LenProperties
     DEF TakeFromB, B!Take, NodeBOK, BSlots
<1>6. CASE DeliverToB /\ Head(inboxB) = Ack
  <2>1. /\ bUnacked > Len(bOut) /\ bUnacked' = bUnacked - 1
        /\ UNCHANGED <<actuator, bLink, bOut, bHeartbeatLast, bLost>>
    BY <1>6 DEF DeliverToB, B!Acked
  <2>2. bUnacked' \in Nat /\ BSlots'
    BY <1>1, <1>2, <2>1 DEF NodeBOK, BSlots
  <2> QED
    BY <1>1, <1>3, <2>1, <2>2
<1>7. CASE DeliverToB /\ Head(inboxB) # Ack
  <2>1. Head(inboxB) \in Message /\ B!Receive(Head(inboxB))
    BY <1>7, TakeHead DEF DeliverToB, BrokerOK, Packet
  <2> QED
    BY <1>1, <1>3, <2>1, NodeBReceive
<1>8. CASE LoseB
  <2>1. /\ bLink' = "down" /\ bOut' = <<>> /\ bUnacked' = 0 /\ bLost' \in BOOLEAN
        /\ UNCHANGED <<actuator, bHeartbeatLast>>
    BY <1>8 DEF LoseB, B!Disconnected
  <2>2. bOut' \in Seq(Message) /\ Len(bOut') = 0
    BY <2>1, EmptySeq
  <2> QED
    BY <1>1, <1>2, <1>3, <2>1, <2>2 DEF BSlots
<1>9. CASE ResolveB
  BY <1>1, <1>3, <1>9 DEF ResolveB, B!DnsFound, NodeBOK, BSlots
<1>10. CASE ConnectB \/ BeatB
  BY <1>1, <1>3, <1>10, NodeBTells DEF ConnectB, BeatB
<1>11. CASE \/ LoopC \/ HouseTick \/ TakeFromC \/ DeliverToC \/ ResolveC \/ ConnectC \/ LoseC
            \/ Uart \/ Console \/ \E r \in Readings : Measure(r)
  BY <1>4, <1>11 DEF LoopC, HouseTick, TakeFromC, DeliverToC, ResolveC, ConnectC, LoseC, Uart,
       Console, Measure
<1> QED
  BY <1>5, <1>6, <1>7, <1>8, <1>9, <1>10, <1>11 DEF HouseNext, Work

\* What a message of node C's status or a subscription carries.
LEMMA BrokerFields ==
    ASSUME NEW m \in Message
    PROVE  /\ m.topic = "nodeC" =>
                 m \in [topic : {"nodeC"}, mode : Modes, device : [Devices -> Switch]]
           /\ m.topic = "subscribe" => m.filter \in Topic
  BY DEF Message, Devices, Heartbeats

LEMMA RouteTypes ==
    ASSUME BrokerOK, NEW m \in Message, NEW toC \in {<<>>, <<Ack>>},
           NEW toB \in {<<>>, <<Ack>>}, Route(m, toC, toB)
    PROVE  /\ inboxC' \in Seq(Packet) /\ inboxB' \in Seq(Packet)
           /\ lastMode' \in Modes \cup {NoMode} /\ missed' \subseteq Steering \cup {"nodeB"}
           /\ view' \in [topic : {"nodeC"}, mode : Modes, device : [Devices -> Switch]]
<1>1. inboxC' \in Seq(Packet) /\ inboxB' \in Seq(Packet)
  BY RouteEffect DEF RouteDone
<1>2. lastMode' \in Modes \cup {NoMode}
  BY MessageFields DEF Route, BrokerOK
<1>3. view' \in [topic : {"nodeC"}, mode : Modes, device : [Devices -> Switch]]
  BY BrokerFields DEF Route, BrokerOK
<1>4. missed' \subseteq Steering \cup {"nodeB"}
  BY DEF Route, BrokerOK, ForNodeC, Steering
<1> QED
  BY <1>1, <1>2, <1>3, <1>4

LEMMA BrokerStep ==
    ASSUME IInv, NodeBOK, BrokerOK, HouseNext
    PROVE  BrokerOK'
<1>1. CASE TakeFromC
  <2>1. Head(out) \in Message
    BY <1>1, TakeHead DEF TakeFromC, Take, IInv, NetworkOK
  <2>2. Route(Head(out), <<Ack>>, <<>>) /\ UNCHANGED <<subsB, used>>
    BY <1>1 DEF TakeFromC
  <2>3. subsC' \subseteq Topic
    BY <1>1, <2>1, BrokerFields DEF TakeFromC, BrokerOK
  <2> QED
    BY <2>1, <2>2, <2>3, RouteTypes DEF BrokerOK
<1>2. CASE TakeFromB
  <2>1. Head(bOut) \in Message
    BY <1>2, TakeHead, SameVocabulary DEF TakeFromB, B!Take, NodeBOK, B!TypeOK
  <2>2. Route(Head(bOut), <<>>, <<Ack>>) /\ UNCHANGED <<subsC, used>>
    BY <1>2 DEF TakeFromB
  <2>3. subsB' \subseteq Topic
    BY <1>2, <2>1, BrokerFields DEF TakeFromB, BrokerOK
  <2> QED
    BY <2>1, <2>2, <2>3, RouteTypes DEF BrokerOK
<1>3. CASE DeliverToC \/ DeliverToB
  <2>1. /\ inboxC # <<>> => Tail(inboxC) \in Seq(Packet)
        /\ inboxB # <<>> => Tail(inboxB) \in Seq(Packet)
    BY TakeHead DEF BrokerOK
  <2>2. missed' \subseteq missed
    BY <1>3 DEF DeliverToC, DeliverToB, MadeGood
  <2>3. inboxC' \in Seq(Packet) /\ inboxB' \in Seq(Packet)
    BY <1>3, <2>1 DEF DeliverToC, DeliverToB, BrokerOK
  <2>4. UNCHANGED <<subsC, subsB, lastMode, view, used>>
    BY <1>3 DEF DeliverToC, DeliverToB
  <2> QED
    BY <2>2, <2>3, <2>4 DEF BrokerOK
<1>4. CASE LoseC \/ LoseB
  <2>1. missed' \subseteq Steering \cup {"nodeB"} /\ <<>> \in Seq(Packet)
    BY <1>4, EmptySeq DEF LoseC, LoseB, ForNodeC, Steering, BrokerOK
  <2> QED
    BY <1>4, <2>1 DEF LoseC, LoseB, BrokerOK
<1>5. CASE Uart
  <2>1. used.uart < MaxUart /\ used' = [used EXCEPT !.uart = @ + 1] /\ UNCHANGED broker
    BY <1>5 DEF Uart
  <2> QED
    BY <2>1, HouseAssumption DEF BrokerOK, broker
<1>6. CASE Console
  <2>1. used.console < MaxConsole /\ used' = [used EXCEPT !.console = @ + 1]
    BY <1>6 DEF Console
  <2>2. used' \in [uart : 0..MaxUart, console : 0..MaxConsole, readings : 0..MaxReadings]
    BY <2>1, HouseAssumption DEF BrokerOK
  <2>3. PICK m \in Message : Route(m, <<>>, <<>>)
    BY <1>6, HouseAssumption DEF Console
  <2> QED
    BY <1>6, <2>2, <2>3, RouteTypes DEF Console, BrokerOK
<1>7. CASE \E r \in Readings : Measure(r)
  <2>1. PICK r \in Readings : Measure(r)
    BY <1>7
  <2>2. EnvMsg(r) \in Message
    BY HouseAssumption DEF EnvMsg, Message
  <2>3. used' \in [uart : 0..MaxUart, console : 0..MaxConsole, readings : 0..MaxReadings]
    BY <2>1, HouseAssumption DEF Measure, BrokerOK
  <2> QED
    BY <2>1, <2>2, <2>3, RouteTypes DEF Measure, BrokerOK
<1>8. CASE UNCHANGED <<broker, used>>
  BY <1>8 DEF broker, BrokerOK
<1>9. CASE LoopC \/ BeatB \/ HouseTick \/ ResolveC \/ ResolveB \/ ConnectC
  BY <1>8, <1>9 DEF LoopC, BeatB, HouseTick, ResolveC, ResolveB, ConnectC
<1>10. CASE ConnectB
  <2>1. missed' \subseteq missed
    BY <1>10 DEF ConnectB, MadeGood
  <2> QED
    BY <1>10, <2>1 DEF ConnectB, BrokerOK
<1> QED
  BY <1>1, <1>2, <1>3, <1>4, <1>5, <1>6, <1>7, <1>9, <1>10 DEF HouseNext, Work

\* What was lost stays lost until a status of node B tells the whole state; a
\* lost mode stays lost.
LEMMA LostStays ==
    ASSUME HouseInv, HouseNext
    PROVE  \/ lost \subseteq lost' /\ missed \subseteq missed'
           \/ (DeliverToB \/ ConnectB) /\ MadeGood
<1> USE DEF HouseInv
<1>1. CASE DeliverToB \/ ConnectB
  BY <1>1 DEF DeliverToB, ConnectB
<1>2. CASE ~(DeliverToB \/ ConnectB)
  <2>1. missed \subseteq missed'
    <3>1. CASE TakeFromC \/ TakeFromB \/ Console \/ \E r \in Readings : Measure(r)
      BY <3>1 DEF TakeFromC, TakeFromB, Console, Measure, Route
    <3>2. CASE LoseC \/ LoseB
      BY <3>2 DEF LoseC, LoseB
    <3>3. CASE \/ LoopC \/ BeatB \/ HouseTick \/ DeliverToC \/ ResolveC \/ ResolveB
               \/ ConnectC \/ Uart
      BY <3>3 DEF LoopC, BeatB, HouseTick, DeliverToC, ResolveC, ResolveB, ConnectC, Uart,
           broker
    <3> QED
      BY <1>2, <3>1, <3>2, <3>3 DEF HouseNext, Work
  <2>2. lost \subseteq lost'
    <3>1. CASE LoopC \/ HouseTick \/ ResolveC \/ ConnectC \/ Uart
      <4>1. Main \/ Tick \/ DnsFound \/ Connected
        BY <3>1 DEF LoopC, HouseTick, ResolveC, ConnectC, Uart, Main
      <4> QED
        BY <4>1, LoopStep DEF LoopFaithful, RequestsGrow
    <3>2. CASE DeliverToC
      <4>1. CASE Acked
        BY <4>1 DEF Acked
      <4>2. CASE Head(inboxC) # Ack
        <5>1. Head(inboxC) \in Message /\ Receive(Head(inboxC))
          BY <3>2, <4>2, TakeHead DEF DeliverToC, BrokerOK, Packet
        <5> QED
          BY <5>1, HearStep DEF HeardFaithful, RequestsGrow
      <4> QED
        BY <3>2, <4>1, <4>2 DEF DeliverToC
    <3>3. CASE LoseC \/ TakeFromC
      BY <3>3 DEF LoseC, Disconnected, TakeFromC, Take
    <3>4. CASE \/ TakeFromB \/ BeatB \/ ResolveB \/ LoseB \/ Console
               \/ \E r \in Readings : Measure(r)
      BY <3>4 DEF TakeFromB, BeatB, ResolveB, LoseB, Console, Measure, nodeC, network
    <3> QED
      BY <1>2, <3>1, <3>2, <3>3, <3>4 DEF HouseNext, Work
  <2> QED
    BY <2>1, <2>2
<1> QED
  BY <1>1, <1>2

LEMMA StatusLossStays ==
    ASSUME HouseInv, HouseNext, bLost
    PROVE  bLost' \/ ((DeliverToB \/ ConnectB) /\ Told)
<1> USE DEF HouseInv
<1>1. CASE DeliverToB /\ Head(inboxB) # Ack
  <2>1. Head(inboxB) \in Message /\ B!Receive(Head(inboxB))
    BY <1>1, TakeHead DEF DeliverToB, BrokerOK, Packet
  <2> QED
    BY <1>1, <2>1, NodeBReceive
<1>2. CASE DeliverToB /\ Head(inboxB) = Ack
  BY <1>2 DEF DeliverToB, B!Acked
<1>3. CASE ConnectB
  BY <1>3, NodeBTells DEF ConnectB
<1>4. CASE BeatB
  <2>1. B!Heartbeat /\ ~B!Connected
    BY <1>4 DEF BeatB, B!Heartbeat, B!Connected
  <2> QED
    BY <2>1, NodeBTells
<1>5. CASE TakeFromB \/ ResolveB \/ LoseB
  BY <1>5 DEF TakeFromB, ResolveB, LoseB, B!Take, B!DnsFound, B!Disconnected
<1>6. CASE \/ LoopC \/ HouseTick \/ TakeFromC \/ DeliverToC \/ ResolveC \/ ConnectC
           \/ LoseC \/ Uart \/ Console \/ \E r \in Readings : Measure(r)
  BY <1>6 DEF LoopC, HouseTick, TakeFromC, DeliverToC, ResolveC, ConnectC, LoseC, Uart,
       Console, Measure, nodeB
<1> QED
  BY <1>1, <1>2, <1>3, <1>4, <1>5, <1>6 DEF HouseNext, Work

\* A status that node B hands over tells the truth, and makes good what it can.
LEMMA TellingConsistent ==
    ASSUME HouseInv, DeliverToB \/ ConnectB, Told
    PROVE  Consistent'
<1> USE DEF HouseInv
<1>1. NodeBTruthful' /\ Has(bOut', "nodeB")
  <2>1. CASE DeliverToB /\ Head(inboxB) # Ack
    <3>1. Head(inboxB) \in Message /\ B!Receive(Head(inboxB))
      BY <2>1, TakeHead DEF DeliverToB, BrokerOK, Packet
    <3> QED
      BY <3>1, NodeBReceive
  <2>2. CASE DeliverToB /\ Head(inboxB) = Ack
    <3>1. bOut' = bOut /\ bOut \in Seq(Message)
      BY <2>2, SameVocabulary DEF DeliverToB, B!Acked, NodeBOK, B!TypeOK
    <3> QED
      BY <3>1, LenProperties DEF Told
  <2>3. CASE ConnectB
    BY <2>3, NodeBTells DEF ConnectB
  <2> QED
    BY <2>1, <2>2, <2>3
<1> QED
  BY <1>1, ToldConsistent

\* A step that ends sound began so, or ends with a status just handed over.
LEMMA SoundBefore ==
    ASSUME HouseInv, HouseNext, Sound', ~((DeliverToB \/ ConnectB) /\ Told)
    PROVE  Sound
<1>1. ~bLost
  BY StatusLossStays DEF Sound
<1>2. lost \subseteq lost' /\ missed \subseteq missed'
  BY LostStays DEF MadeGood
<1> QED
  BY <1>1, <1>2 DEF Sound

LEMMA ModesSoundBefore ==
    ASSUME HouseInv, HouseNext, ModesSound'
    PROVE  ModesSound
<1>1. "mode" \in lost => "mode" \in lost'
  BY LostStays DEF MadeGood, Devices
<1>2. "mode" \in missed => "mode" \in missed'
  BY LostStays DEF MadeGood, Devices
<1> QED
  BY <1>1, <1>2 DEF ModesSound

LEMMA ConsistentStep ==
    ASSUME HouseInv, HouseNext, Sound'
    PROVE  Consistent'
<1> USE DEF HouseInv
<1>0. NoCommandLost' /\ ~bLost'
  BY DEF Sound, NoCommandLost
<1>8. CASE (DeliverToB \/ ConnectB) /\ Told
  BY <1>8, TellingConsistent
<1>9. CASE ~((DeliverToB \/ ConnectB) /\ Told)
  <2>0. Consistent
    BY <1>9, SoundBefore
  <2>1. CASE LoopC \/ HouseTick \/ ResolveC \/ ConnectC \/ Uart
    <3>1. Main \/ Tick \/ DnsFound \/ Connected \/ Acked
      BY <2>1 DEF LoopC, HouseTick, ResolveC, ConnectC, Uart, Main
    <3>2. UNCHANGED <<inboxC, inboxB, actuator, bOut>>
      BY <2>1 DEF LoopC, HouseTick, ResolveC, ConnectC, Uart, broker, nodeB
    <3> QED
      BY <1>0, <2>0, <3>1, <3>2, LoopConsistent
  <2>2. CASE DeliverToC
    BY <1>0, <2>0, <2>2, DeliverCConsistent
  <2>3. CASE DeliverToB
    BY <1>0, <2>0, <2>3, DeliverBConsistent
  <2>4. CASE TakeFromC \/ TakeFromB
    BY <2>0, <2>4, TakeCConsistent, TakeBConsistent
  <2>5. CASE LoseC \/ LoseB
    BY <2>0, <2>5, LoseCConsistent, LoseBConsistent
  <2>6. CASE Console \/ \E r \in Readings : Measure(r)
    BY <2>0, <2>6, InputConsistent
  <2>7. CASE ResolveB \/ ConnectB \/ BeatB
    <3>1. UNCHANGED <<inboxC, inboxB, device, pc, todo, want, out>>
      BY <2>7 DEF ResolveB, ConnectB, BeatB, MadeGood, broker, nodeC, controller, thread,
           locals, network
    <3>2. /\ actuator' = actuator /\ NodeBTruthful'
          /\ Has(bOut, "nodeB") => Has(bOut', "nodeB")
      <4>1. CASE ResolveB
        BY <2>0, <4>1 DEF ResolveB, B!DnsFound, Consistent, NodeBTruthful
      <4>2. CASE ConnectB \/ BeatB
        BY <1>0, <2>0, <4>2, NodeBTells DEF ConnectB, BeatB, Consistent
      <4> QED
        BY <2>7, <4>1, <4>2
    <3> QED
      BY <2>0, <3>1, <3>2, NodeBConsistent
  <2> QED
    BY <2>1, <2>2, <2>3, <2>4, <2>5, <2>6, <2>7 DEF HouseNext, Work
<1> QED
  BY <1>8, <1>9

LEMMA ModesStep ==
    ASSUME HouseInv, HouseNext, ModesSound'
    PROVE  ModesOrdered'
<1> USE DEF HouseInv
<1>0. ModesOrdered /\ "mode" \notin lost'
  BY ModesSoundBefore DEF ModesSound
<1>1. CASE LoopC \/ HouseTick \/ ResolveC \/ ConnectC \/ Uart
  <2>1. Main \/ Tick \/ DnsFound \/ Connected \/ Acked
    BY <1>1 DEF LoopC, HouseTick, ResolveC, ConnectC, Uart, Main
  <2>2. UNCHANGED <<inboxC, lastMode>>
    BY <1>1 DEF LoopC, HouseTick, ResolveC, ConnectC, Uart, broker
  <2> QED
    BY <1>0, <2>1, <2>2, LoopModes
<1>2. CASE DeliverToC
  BY <1>0, <1>2, DeliverCModes
<1>3. CASE DeliverToB \/ ConnectB
  <2>1. UNCHANGED <<inboxC, lastMode, mode, pc, out>>
    BY <1>3 DEF DeliverToB, ConnectB, MadeGood, controller, thread
  <2> QED
    BY <1>0, <2>1, ModesUntouched
<1>4. CASE TakeFromC \/ TakeFromB
  BY <1>0, <1>4, TakeCConsistent, TakeBConsistent
<1>5. CASE LoseC
  BY <1>0, <1>5, LoseCModes
<1>6. CASE Console \/ \E r \in Readings : Measure(r)
  BY <1>0, <1>6, InputConsistent
<1>7. CASE ResolveB \/ BeatB \/ LoseB
  <2>1. UNCHANGED <<inboxC, lastMode, mode, pc, out>>
    BY <1>7 DEF ResolveB, BeatB, LoseB, broker, nodeC, controller, thread, network
  <2> QED
    BY <1>0, <2>1, ModesUntouched
<1> QED
  BY <1>1, <1>2, <1>3, <1>4, <1>5, <1>6, <1>7 DEF HouseNext, Work

LEMMA HouseStep == HouseInv /\ [HouseNext]_houseVars => HouseInv'
<1> SUFFICES ASSUME HouseInv, [HouseNext]_houseVars PROVE HouseInv'
  OBVIOUS
<1> USE DEF HouseInv
<1>1. CASE HouseNext
  <2>1. BoardStep \/ UNCHANGED vars
    BY <1>1, NodeCSteps
  <2>2. IInv'
    BY <2>1, StepIInv
  <2>3. NodeBOK'
    BY <1>1, <2>2, NodeBStep DEF IInv, TimersOK
  <2>4. BrokerOK'
    BY <1>1, BrokerStep
  <2>5. enabled' /\ OnlyBReports'
    BY <2>1, EnabledKept, OnlyBReportsKept
  <2>6. /\ Sound' => Consistent'
        /\ ModesSound' => ModesOrdered'
    BY <1>1, ConsistentStep, ModesStep
  <2> QED
    BY <2>2, <2>3, <2>4, <2>5, <2>6
<1>2. CASE UNCHANGED houseVars
  <2>1. UNCHANGED <<nodeC, nodeB, broker, now, used>>
    BY <1>2 DEF houseVars
  <2>2. UNCHANGED vars
    BY <2>1 DEF nodeC, vars
  <2>3. IInv'
    BY <2>2, StepIInv
  <2>4. NodeBOK'
    BY <2>1, SameVocabulary DEF nodeB, NodeBOK, B!TypeOK, BSlots
  <2>5. BrokerOK'
    BY <2>1 DEF broker, BrokerOK
  <2>6. enabled' /\ OnlyBReports'
    BY <2>2 DEF vars, network, OnlyBReports
  <2>7. Sound' => Consistent'
    BY <2>1 DEF nodeC, controller, thread, locals, network, nodeB, broker, Sound,
         Consistent, NodeBTruthful, StatusesTrue, EchoesHarmless, BeliefsJustified, Justified
  <2>8. ModesSound' => ModesOrdered'
    BY <2>1 DEF nodeC, controller, thread, network, broker, ModesSound,
         ModesOrdered, ModeJustified, Announcing
  <2> QED
    BY <2>3, <2>4, <2>5, <2>6, <2>7, <2>8
<1> QED
  BY <1>1, <1>2

-----------------------------------------------------------------------------
(* How the house starts.                                                    *)

\* Nothing is under way, and both boards hold the same.
LEMMA StillConsistent ==
    ASSUME inboxC = <<>>, bOut = <<>>, device = actuator,
           lastMode = NoMode \/ lastMode = mode
    PROVE  Consistent /\ ModesOrdered
  BY DEF Consistent, NodeBTruthful, StatusesTrue, EchoesHarmless,
         BeliefsJustified, Justified, ModesOrdered, ModeJustified

LEMMA HouseInitInv == HouseInit => HouseInv
<1> SUFFICES ASSUME HouseInit PROVE HouseInv
  OBVIOUS
<1> USE DEF HouseInit
<1>1. IInv
  BY InitIInv
<1>2. /\ inboxC \in Seq(Packet) /\ inboxB \in Seq(Packet)
      /\ bOut \in Seq(Message) /\ Len(bOut) = 0
  BY EmptySeq DEF B!Init
<1>3. NodeBOK
  <2>1. actuator \in [Devices -> Switch]
    BY SameVocabulary DEF B!Init, Switch
  <2>2. BSlots
    BY <1>2, SlotAssumption DEF B!Init, BSlots
  <2>3. B!TypeOK
    BY <1>2, <2>1, SameVocabulary DEF B!Init, B!TypeOK
  <2> QED
    BY <2>2, <2>3 DEF NodeBOK
<1>4. BrokerOK
  <2>1. view \in [topic : {"nodeC"}, mode : Modes, device : [Devices -> Switch]]
    BY DEF StatusC, AllOff, Modes, Switch
  <2>2. used \in [uart : 0..MaxUart, console : 0..MaxConsole, readings : 0..MaxReadings]
    BY HouseAssumption
  <2> QED
    BY <1>2, <2>1, <2>2 DEF BrokerOK
<1>5. device = actuator
  BY SameVocabulary DEF Init, B!Init, AllOff
<1>6. Consistent /\ ModesOrdered
  BY <1>5, StillConsistent DEF B!Init
<1>7. OnlyBReports
  BY DEF Init, OnlyBReports, Has
<1> QED
  BY <1>1, <1>3, <1>4, <1>6, <1>7 DEF HouseInv

LEMMA SettledInitInv == SettledInit => HouseInv
<1> SUFFICES ASSUME SettledInit PROVE HouseInv
  OBVIOUS
<1> USE DEF SettledInit
<1>1. /\ inboxC \in Seq(Packet) /\ inboxB \in Seq(Packet)
      /\ out \in Seq(Message) /\ Len(out) = 0 /\ bOut \in Seq(Message) /\ Len(bOut) = 0
      /\ todo \in Seq(Devices)
  BY EmptySeq
<1>2. /\ device \in [Devices -> Switch] /\ mode \in Modes
      /\ ZeroReading \in Reading /\ AllOff \in [Devices -> Switch]
  BY HouseAssumption DEF AllOff, Switch, ZeroReading, Reading
<1>3. IInv
  <2>1. ControllerOK
    BY <1>2 DEF ControllerOK, BootTime
  <2>2. NetworkOK
    <3>1. SlotAccounting
      BY <1>1, SlotAssumption DEF SlotAccounting
    <3> QED
      BY <1>1, <3>1 DEF NetworkOK
  <2>3. demoIndex \in DOMAIN DemoReadings
    BY DemoAssumption, LenProperties, EmptySeq
  <2>4. TimersOK
    BY <2>3 DEF TimersOK, TimersBehindPass, BootTime
  <2>5. ThreadOK
    BY <1>1, <1>2 DEF ThreadOK, LoopHasWork, NoSnapshot, StatusC, Modes, Switch, Fields
  <2> QED
    BY <2>1, <2>2, <2>4, <2>5 DEF IInv
<1>4. NodeBOK
  <2>1. BSlots
    BY <1>1, SlotAssumption DEF BSlots
  <2>2. B!TypeOK
    BY <1>1, <1>2, SameVocabulary DEF B!TypeOK, BootTime
  <2> QED
    BY <2>1, <2>2 DEF NodeBOK
<1>5. BrokerOK
  <2>1. view \in [topic : {"nodeC"}, mode : Modes, device : [Devices -> Switch]]
    BY <1>2 DEF StatusC
  <2>2. subsC \subseteq Topic
    <3>1. \A i \in 1 .. 7 : Required[i] \in Topic
      BY DEF Required, Topic, Devices, Heartbeats
    <3>2. \A i \in 1 .. IF MaxInFlight < 7 THEN MaxInFlight ELSE 7 : i \in 1 .. 7
      BY SlotAssumption
    <3> QED
      BY <3>1, <3>2
  <2>3. subsB \subseteq Topic
    BY DEF Devices, Topic
  <2>4. used \in [uart : 0..MaxUart, console : 0..MaxConsole, readings : 0..MaxReadings]
    BY HouseAssumption
  <2> QED
    BY <1>1, <1>2, <2>1, <2>2, <2>3, <2>4 DEF BrokerOK
<1>6. Consistent /\ ModesOrdered
  BY StillConsistent
<1>7. enabled /\ OnlyBReports
  BY DEF OnlyBReports, Has
<1> QED
  BY <1>3, <1>4, <1>5, <1>6, <1>7 DEF HouseInv

LEMMA HouseInvariance == HouseSpec \/ SettledSpec => []HouseInv
  BY HouseInitInv, SettledInitInv, HouseStep, PTL DEF HouseSpec, SettledSpec

-----------------------------------------------------------------------------
(* The theorems, from boot as from a settled house.                         *)

\* Every variable of the house keeps its type: the queues of the boards and of
\* the broker hold nothing but messages of the house and acknowledgements, and
\* the boards, the console and the broker no mode and no state but those there
\* are, with connections that end and whatever the inputs.
THEOREM HouseTypeCorrect == HouseSpec \/ SettledSpec => []HouseTypeOK
<1>1. HouseInv => HouseTypeOK
  BY DEF HouseInv, NodeBOK, BrokerOK, Packet, HouseTypeOK, TypeOK,
         IInv, ControllerOK, NetworkOK, TimersOK, ThreadOK
<1> QED
  BY <1>1, HouseInvariance, PTL

\* What HouseInv says of the queues, put together as InSync reads them.
LEMMA InvInSync == HouseInv => InSync
<1> SUFFICES ASSUME HouseInv, Sound, NEW d \in Devices
             PROVE  IF Has(ToNodeC, "nodeB")
                    THEN \A i \in DOMAIN ToNodeC :
                            ToNodeC[i].topic = "nodeB" =>
                                \/ ToNodeC[i].device[d] = actuator[d]
                                \/ Followed(ToNodeC, i, "nodeB")
                    ELSE device[d] = actuator[d] \/ Opposed(ToNodeB, d, actuator[d])
  BY DEF InSync
<1> USE DEF HouseInv, Consistent
<1>1. /\ bOut \in Seq(Packet) /\ out \in Seq(Packet)
      /\ inboxC \in Seq(Packet) /\ inboxB \in Seq(Packet)
  <2>1. Seq(Message) \subseteq Seq(Packet)
    BY SeqMonotonic DEF Packet
  <2> QED
    BY <2>1, SameVocabulary DEF NodeBOK, B!TypeOK, IInv, NetworkOK, BrokerOK
<1>2. /\ \A i \in DOMAIN inboxC : ToNodeC[i] = inboxC[i]
      /\ \A i \in DOMAIN ToNodeC : i \notin DOMAIN inboxC =>
            i - Len(inboxC) \in DOMAIN bOut /\ ToNodeC[i] = bOut[i - Len(inboxC)]
      /\ Has(ToNodeC, "nodeB") <=> Has(inboxC, "nodeB") \/ Has(bOut, "nodeB")
      /\ \A i \in DOMAIN inboxC : Followed(ToNodeC, i, "nodeB") <=>
            Followed(inboxC, i, "nodeB") \/ Has(bOut, "nodeB")
      /\ \A i \in DOMAIN ToNodeC : i \notin DOMAIN inboxC =>
            (Followed(ToNodeC, i, "nodeB") <=> Followed(bOut, i - Len(inboxC), "nodeB"))
  BY <1>1, PutBehind DEF ToNodeC
<1>3. ASSUME NEW i \in DOMAIN ToNodeC, ToNodeC[i].topic = "nodeB"
      PROVE  ToNodeC[i].device = actuator \/ Followed(ToNodeC, i, "nodeB")
  <2>1. CASE i \in DOMAIN inboxC
    BY <1>2, <1>3, <2>1 DEF StatusesTrue
  <2>2. CASE i \notin DOMAIN inboxC
    BY <1>2, <1>3, <2>2 DEF NodeBTruthful
  <2> QED
    BY <2>1, <2>2
<1>4. ASSUME ~Has(ToNodeC, "nodeB")
      PROVE  device[d] = actuator[d] \/ Opposed(ToNodeB, d, actuator[d])
  <2> DEFINE pending == IF pc = "command" THEN <<CmdMsg(Head(todo), want)>> ELSE <<>>
             sent == inboxB \o out
  <2>1. pending \in Seq(Packet)
    <3>1. pc = "command" => Head(todo) \in Devices /\ want \in Switch
      BY HeadTailProperties DEF IInv, ThreadOK, LoopHasWork
    <3>2. pc = "command" => CmdMsg(Head(todo), want) \in Packet
      BY <3>1, MessageTypes DEF Packet
    <3> QED
      BY <3>2, EmptySeq
  <2>2. sent \in Seq(Packet)
        /\ \A a : Opposed(sent, d, a) <=> Opposed(inboxB, d, a) \/ Opposed(out, d, a)
    BY <1>1, PutBehind
  <2>3. pc = "command" /\ Head(todo) = d /\ want # actuator[d]
            => Opposed(pending, d, actuator[d])
    BY SingleMessage DEF CmdMsg
  <2>4. ToNodeB = sent \o pending
    BY DEF ToNodeB
  <2> HIDE DEF pending, sent
  <2>5. Opposed(ToNodeB, d, actuator[d]) <=>
            Opposed(sent, d, actuator[d]) \/ Opposed(pending, d, actuator[d])
    BY <2>1, <2>2, <2>4, PutBehind
  <2>6. Justified(d)
    BY <1>2, <1>4 DEF BeliefsJustified
  <2> QED
    BY <2>2, <2>3, <2>5, <2>6 DEF Justified
<1> QED
  BY <1>3, <1>4

\* Unless a command or a status was refused, dropped or not listened to and no
\* status of node B came since, what node C believes of a device is what node B
\* will have told it, or a command that contradicts the actuator is on its way
\* to it: for every number of slots, every input and every interleaving of loop,
\* callbacks and echoes.
THEOREM NeverApartForGood == HouseSpec \/ SettledSpec => []InSync
  BY InvInSync, HouseInvariance, PTL

\* When nothing is under way, node C is in the mode announced last, although it
\* hears its own announcements and those of the console in between.
THEOREM ModeSettled == HouseSpec \/ SettledSpec => []ModeSettles
<1>1. HouseInv => ModeSettles
  BY DEF HouseInv, ModesOrdered, ModeJustified, Announcing, ModeSettles, Quiet, Idle, Has
<1> QED
  BY <1>1, HouseInvariance, PTL
=============================================================================
