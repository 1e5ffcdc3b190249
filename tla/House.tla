-------------------------------- MODULE House --------------------------------
(***************************************************************************)
(* The house: node C and node B around the MQTT broker, with node A and    *)
(* the web console as sources of messages.                                 *)
(*                                                                         *)
(* The broker (external) hands each message to every client subscribed to  *)
(* its topic, keeps the order per client, retains nothing, and sends a     *)
(* client its own messages back when it is subscribed to their topic:      *)
(* node C receives the commands and the modes it publishes.  Node A and    *)
(* the console publish straight to the broker: how long a message of       *)
(* theirs is under way before cannot be told from when it was sent.        *)
(***************************************************************************)
EXTENDS NodeC

CONSTANTS
    BInputs,            \* of NodeB; here the broker decides what arrives
    Readings,           \* what node A may measure
    Settled,            \* mode and devices of a settled house, see SettledInit
    ConsoleMessages,    \* what the buttons of the console send
    MaxUart, MaxConsole, MaxReadings,   \* bounds on the inputs
    Steady,             \* node A measures for ever, not MaxReadings times
    LinksFail           \* whether a connection may end

ASSUME HouseAssumption ==
    /\ Readings \subseteq Reading /\ ConsoleMessages \subseteq Message
    /\ Settled \subseteq [mode : Modes, device : [Devices -> Switch]]
    /\ \A m \in ConsoleMessages : Steers(m)   \* COMMAND_TOPICS of the console
    /\ MaxUart \in Nat /\ MaxConsole \in Nat /\ MaxReadings \in Nat
    /\ LinksFail \in BOOLEAN /\ Steady \in BOOLEAN

VARIABLES
    actuator, bLink, bOut, bUnacked, bHeartbeatLast, bLost,     \* of NodeB
    inboxC, inboxB,     \* messages the broker sent to the boards, in order
    subsC, subsB,       \* the subscriptions the broker has seen
    lastMode,           \* the last message on house/mode, if any
    view,               \* what the console shows of node C: its last status
    missed,             \* history: topics of the commands, modes and statuses
                        \* that had a deaf addressee
    used                \* inputs used so far

B == INSTANCE NodeB

broker == <<inboxC, inboxB, subsC, subsB, lastMode, view, missed>>
nodeB  == <<actuator, bLink, bOut, bUnacked, bHeartbeatLast, bLost>>
nodeC  == <<controller, timers, thread, network>>
houseVars == <<nodeC, nodeB, broker, now, used>>

NoMode == "none"

HouseInit ==
    /\ Init /\ B!Init /\ enabled
    /\ inboxC = <<>> /\ inboxB = <<>> /\ subsC = {} /\ subsB = {}
    /\ lastMode = NoMode /\ view = StatusC("AUTO", AllOff) /\ missed = {}
    /\ used = [uart |-> 0, console |-> 0, readings |-> 0]

-----------------------------------------------------------------------------
ForNodeC == {"nodeB", "mode"}
TopicsOf(s) == {s[k].topic : k \in DOMAIN s}

\* The broker distributes m.  A status of node B or a mode that node C is not
\* there to hear, or a command node B is not there to hear, is gone.
\* toC and toB: what else the broker sends, behind m, in the same step.
Route(m, toC, toB) ==
    LET forC == IF link = "up" /\ m.topic \in subsC THEN <<m>> ELSE <<>>
        forB == IF bLink = "up" /\ m.topic \in subsB THEN <<m>> ELSE <<>>
    IN  /\ inboxC' = inboxC \o forC \o toC
        /\ inboxB' = inboxB \o forB \o toB
        /\ lastMode' = IF m.topic = "mode" THEN m.mode ELSE lastMode
        /\ view' = IF m.topic = "nodeC" THEN m ELSE view
        /\ missed' = missed
                     \cup (IF forC = <<>> THEN {m.topic} \cap ForNodeC ELSE {})
                     \cup (IF forB = <<>> THEN {m.topic} \cap Devices ELSE {})

\* The broker takes the oldest request of a board and acknowledges it.
Ack == [topic |-> "ack"]

TakeFromC ==
    /\ Take
    /\ LET m == Head(out)
       IN  /\ Route(m, <<Ack>>, <<>>)
           /\ subsC' = IF m.topic = "subscribe" THEN subsC \cup {m.filter} ELSE subsC
    /\ UNCHANGED <<subsB, nodeB, used>>

TakeFromB ==
    /\ B!Take
    /\ LET m == Head(bOut)
       IN  /\ Route(m, <<>>, <<Ack>>)
           /\ subsB' = IF m.topic = "subscribe" THEN subsB \cup {m.filter} ELSE subsB
    /\ UNCHANGED <<subsC, nodeC, used>>

\* A status that node B hands over tells the whole state of the actuators: it
\* makes good every earlier command and status that did not arrive.
Told == \E i \in DOMAIN bOut' : i > Len(bOut) /\ bOut'[i].topic = "nodeB"
MadeGood ==
    /\ lost' = IF Told THEN lost \ Devices ELSE lost
    /\ missed' = IF Told THEN missed \ (Devices \cup {"nodeB"}) ELSE missed
    /\ UNCHANGED <<controller, timers, thread, enabled, link, out, unacked>>

\* The client of a board works through what the broker sent it, in order.
DeliverToC ==
    /\ inboxC # <<>> /\ inboxC' = Tail(inboxC)
    /\ LET m == Head(inboxC) IN IF m = Ack THEN Acked ELSE Receive(m)
    /\ UNCHANGED <<inboxB, subsC, subsB, lastMode, view, missed, nodeB, used>>

DeliverToB ==
    /\ inboxB # <<>> /\ inboxB' = Tail(inboxB)
    /\ LET m == Head(inboxB) IN IF m = Ack THEN B!Acked ELSE B!Receive(m)
    /\ MadeGood
    /\ UNCHANGED <<inboxC, subsC, subsB, lastMode, view, used>>

\* A connection ends: what was under way to the board is gone.
LoseC ==
    /\ LinksFail /\ Disconnected
    /\ inboxC' = <<>> /\ subsC' = {}
    /\ missed' = missed \cup (TopicsOf(inboxC) \cap ForNodeC)
    /\ UNCHANGED <<inboxB, subsB, lastMode, view, nodeB, used>>

LoseB ==
    /\ LinksFail /\ B!Disconnected
    /\ inboxB' = <<>> /\ subsB' = {}
    /\ missed' = missed \cup (TopicsOf(inboxB) \cap Devices)
    /\ UNCHANGED <<inboxC, subsC, lastMode, view, nodeC, used>>

-----------------------------------------------------------------------------
(* Inputs, each within its bound.                                          *)

Uart ==
    /\ used.uart < MaxUart /\ used' = [used EXCEPT !.uart = @ + 1]
    /\ \E l \in UartLines : UartLine(l)
    /\ UNCHANGED <<nodeB, broker>>

Console ==
    /\ used.console < MaxConsole /\ used' = [used EXCEPT !.console = @ + 1]
    /\ \E m \in ConsoleMessages : Route(m, <<>>, <<>>)
    /\ UNCHANGED <<subsC, subsB, nodeC, nodeB, now>>

\* When Steady, the two seconds between two readings are long enough for both
\* boards to deal with the first: it is delivered, and so are the commands and
\* statuses that came of it, and all requests are acknowledged.
Measure(r) ==
    /\ IF Steady THEN /\ \A i \in DOMAIN inboxC : inboxC[i].topic # "env"
                     /\ inboxB = <<>> /\ unacked = 0 /\ bUnacked = 0
                     /\ UNCHANGED used
       ELSE /\ used.readings < MaxReadings
            /\ used' = [used EXCEPT !.readings = @ + 1]
    /\ Route(EnvMsg(r), <<>>, <<>>)
    /\ UNCHANGED <<subsC, subsB, nodeC, nodeB, now>>

-----------------------------------------------------------------------------
LoopC    == Loop /\ UNCHANGED <<nodeB, broker, used>>
ResolveC == DnsFound /\ UNCHANGED <<nodeB, broker, used>>
ResolveB == B!DnsFound /\ UNCHANGED <<nodeC, broker, used>>
ConnectC == Connected /\ UNCHANGED <<nodeB, broker, used>>
ConnectB ==
    /\ B!Connected /\ MadeGood
    /\ UNCHANGED <<inboxC, inboxB, subsC, subsB, lastMode, view, used>>
BeatB    == B!Heartbeat /\ UNCHANGED <<nodeC, broker, used>>
HouseTick == Tick /\ UNCHANGED <<nodeB, broker, used>>

\* What happens without any input and with the connections up.
Work ==
    \/ LoopC \/ BeatB \/ HouseTick
    \/ TakeFromC \/ TakeFromB \/ DeliverToC \/ DeliverToB

HouseNext ==
    \/ Work \/ ResolveC \/ ResolveB \/ ConnectC \/ ConnectB \/ LoseC \/ LoseB
    \/ Uart \/ Console \/ \E r \in Readings : Measure(r)

\* The loop of node C runs, the broker takes and delivers, node A measures.
HouseFairness ==
    /\ WF_houseVars(LoopC)
    /\ WF_houseVars(TakeFromC) /\ WF_houseVars(TakeFromB)
    /\ WF_houseVars(DeliverToC) /\ WF_houseVars(DeliverToB)
    /\ \A r \in Readings : WF_houseVars(Measure(r))

HouseSpec == HouseInit /\ [][HouseNext]_houseVars /\ HouseFairness

\* The same from a settled house: both boards connected, node C first, their
\* requests acknowledged, no reading yet; an earlier command may have chosen
\* the mode and switched a device.  HouseSpec reaches each of these states.
SettledInit ==
    /\ \E s \in Settled : mode = s.mode /\ device = s.device
    /\ lastMode = mode /\ actuator = device
    /\ env = [valid |-> FALSE, reading |-> ZeroReading, last |-> 0]
    /\ nodeBLast = BootTime /\ aReported = FALSE /\ bReported = FALSE
    /\ statusLast = 0 /\ heartbeatLast = 0 /\ demoLast = 0 /\ demoIndex = 1
    /\ enabled = TRUE /\ link = "up" /\ bLink = "up" /\ bHeartbeatLast = 0
    /\ pc = "clock" /\ cur = BootTime /\ line = NoLine /\ want = "OFF"
    /\ todo = <<>> /\ temp = 0 /\ snap = NoSnapshot /\ unread = Fields
    /\ out = <<>> /\ unacked = 0 /\ lost = {}
    /\ bOut = <<>> /\ bUnacked = 0 /\ bLost = FALSE /\ now = BootTime
    /\ inboxC = <<>> /\ inboxB = <<>> /\ subsB = Devices
    /\ subsC = {Required[i] : i \in 1 .. IF MaxInFlight < 7 THEN MaxInFlight ELSE 7}
    /\ view = StatusC(mode, device) /\ missed = {}
    /\ used = [uart |-> 0, console |-> 0, readings |-> 0]

SettledSpec == SettledInit /\ [][HouseNext]_houseVars /\ HouseFairness

-----------------------------------------------------------------------------
HouseTypeOK ==
    /\ TypeOK /\ B!TypeOK
    /\ inboxC \in Seq(Message \cup {Ack}) /\ inboxB \in Seq(Message \cup {Ack})
    /\ subsC \subseteq Topic /\ subsB \subseteq Topic
    /\ lastMode \in Modes \cup {NoMode} /\ missed \subseteq Steering \cup {"nodeB"}
    /\ view \in [topic : {"nodeC"}, mode : Modes, device : [Devices -> Switch]]
    /\ used \in [uart : 0..MaxUart, console : 0..MaxConsole,
                 readings : 0..MaxReadings]

\* A message of topic t in sequence s; one behind place i; one in s that asks
\* device d for another state than a.
Has(s, t) == \E k \in DOMAIN s : s[k].topic = t
Followed(s, i, t) == \E k \in DOMAIN s : k > i /\ s[k].topic = t
Opposed(s, d, a) == \E k \in DOMAIN s : s[k].topic = d /\ s[k].state # a

\* What is on its way to node C, and what to node B, oldest first: the command
\* that the loop has decided and not yet published comes last.
ToNodeC == inboxC \o bOut
ToNodeB == inboxB \o out \o (IF pc = "command" THEN <<CmdMsg(Head(todo), want)>>
                                              ELSE <<>>)

\* No command and no status that was refused, dropped or not listened to is still
\* to be made good by a later status of node B; no mode was ever lost.
Sound == ~bLost /\ (lost \cup missed) \cap (Devices \cup {"nodeB"}) = {}
ModesSound == "mode" \notin lost \cup missed

\* What node C believes of a device is what node B will have told it, or what
\* a command on its way is going to make true: no interleaving of the loop of
\* node C with its callbacks, of the commands of the operator and the console,
\* and of their echoes can leave the two apart for good.
InSync ==
    Sound =>
        \A d \in Devices :
            IF Has(ToNodeC, "nodeB")
            THEN \A i \in DOMAIN ToNodeC :
                    ToNodeC[i].topic = "nodeB" =>
                        \/ ToNodeC[i].device[d] = actuator[d]
                        \/ Followed(ToNodeC, i, "nodeB")
            ELSE device[d] = actuator[d] \/ Opposed(ToNodeB, d, actuator[d])

Idle == pc \in {"clock", "uart", "demo", "poll", "checkA", "reportA",
                "checkB", "reportB", "status"}
Quiet == Idle /\ out = <<>> /\ bOut = <<>> /\ inboxC = <<>> /\ inboxB = <<>>

\* When nothing is under way, node C is in the mode announced last.
ModeSettles == Quiet /\ ModesSound /\ lastMode # NoMode => mode = lastMode

\* Inputs stop, so traffic stops: neither the echo of its own commands to
\* node C, nor the statuses, nor the modes can feed on themselves.
EventuallyQuiet == <>[]Quiet

\* Readings keep coming, so the console ends up with the mode and the states that
\* node C has: a snapshot of fields of different moments, or one overtaken by the
\* status of a callback, does not stand for good.
ViewCatchesUp == <>[](view = StatusC(mode, device))

\* With the readings steady and the mode in the end AUTO, the actuators end up
\* where the rules want them, whatever operator and console did before, and
\* whatever was lost before the last status of node B.
PolicyRestored ==
    <>[]Sound /\ <>[](mode = "AUTO")
        => \A d \in Devices : \A r \in Readings :
              /\ AsksOn(d, r) => <>[](actuator[d] = "ON")
              /\ AsksOff(d, r) => <>[](actuator[d] = "OFF")

\* "Even if the user presses a button by mistake the automatic control policy
\* is not broken" (the presentation script, line 55): in AUTO, with nothing
\* under way, the actuators obey the last reading.
PolicyHolds ==
    Quiet /\ Sound /\ mode = "AUTO" /\ env.valid =>
        \A d \in Devices : actuator[d] = Ruled(d, env.reading, actuator[d])

\* "Node B reports what it really did and node C keeps the whole state in
\* line with it" (the presentation script, line 63), refused requests included.
AlwaysInLine == Quiet /\ link = "up" /\ bLink = "up" => device = actuator
=============================================================================
