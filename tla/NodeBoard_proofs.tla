--------------------------- MODULE NodeBoard_proofs ---------------------------
(* Proofs about the servos of node B, and that node B with its moving       *)
(* window implements NodeB, for every constant.                             *)
EXTENDS NodeBoard, NodeB_proofs

-----------------------------------------------------------------------------
(* The servos alone: any number of them, any positions and step.           *)

\* Between the two positions of a servo, in either order.
Between(p, s) ==
    \/ ClosedUs[s] <= p /\ p <= OpenUs[s]
    \/ OpenUs[s] <= p /\ p <= ClosedUs[s]

\* The servos before index i of the current round: when none of them is
\* pending, they are at their target.  This is what makes the do-while end
\* with every servo in place.
RoundDone ==
    /\ phase = "round" /\ ~pending => \A s \in Servo : s < i => pulse[s] = Target(s)
    /\ phase \in {"final", "idle"} => \A s \in Servo : pulse[s] = Target(s)

MotionIInv == MotionTypeOK /\ InTravel /\ RoundDone

\* A target is one of the two positions, so it is a 16-bit pulse that is not 0.
LEMMA TargetRange ==
    ASSUME NEW s \in Servo, open \in BOOLEAN
    PROVE  /\ Target(s) \in 1 .. MaxPulse
           /\ Between(Target(s), s)
  BY ServoAssumption DEF Target, Between, Servo

\* One call of servo_move_one_step: the pulse stays in 16 bits and in travel,
\* and moves by at most a step unless it was 0.
LEMMA SteppedRange ==
    ASSUME NEW s \in Servo, open \in BOOLEAN, NEW p \in 0 .. MaxPulse,
           p # 0 => Between(p, s)
    PROVE  LET q == Stepped(p, Target(s))
           IN  /\ q \in 1 .. MaxPulse /\ Between(q, s)
               /\ p # 0 => q - p <= StepUs /\ p - q <= StepUs
<1>1. /\ ClosedUs[s] \in 1 .. MaxPulse /\ OpenUs[s] \in 1 .. MaxPulse
      /\ StepUs \in Nat \ {0}
  BY ServoAssumption
<1>2. Target(s) = OpenUs[s] \/ Target(s) = ClosedUs[s]
  BY DEF Target
<1>3. CASE p = 0
  BY <1>1, <1>3, TargetRange DEF Stepped
<1>4. CASE p # 0
  <2> DEFINE t == Target(s)
             q == Stepped(p, t)
  <2>1. t \in 1 .. MaxPulse /\ MaxPulse \in Nat
    BY TargetRange, ServoAssumption
  <2>2. \/ p < t /\ p + StepUs > t /\ q = t
        \/ p < t /\ p + StepUs <= t /\ q = p + StepUs
        \/ p >= t /\ p - StepUs < t /\ q = t
        \/ p >= t /\ p - StepUs >= t /\ q = p - StepUs
    BY <1>1, <1>4, <2>1 DEF Stepped
  <2> HIDE DEF q, t
  <2>3. q \in 1 .. MaxPulse /\ q - p <= StepUs /\ p - q <= StepUs
    BY <1>1, <1>4, <2>1, <2>2
  <2>4. Between(q, s)
    BY <1>1, <1>2, <1>4, <2>1, <2>2 DEF Between, t
  <2> QED
    BY <2>3, <2>4 DEF q, t
<1> QED
  BY <1>3, <1>4

LEMMA InitInv == MotionInit => MotionIInv
<1> SUFFICES ASSUME MotionInit PROVE MotionIInv
  OBVIOUS
<1>1. N \in Nat \ {0} /\ MaxPulse \in Nat \ {0}
  BY ServoAssumption
<1>2. MotionTypeOK
  <2>1. pulse \in [Servo -> 0 .. MaxPulse] /\ i \in 1 .. N + 1
    BY <1>1 DEF MotionInit, Servo
  <2>2. open \in BOOLEAN /\ pending \in BOOLEAN /\ phase \in {"idle", "round", "final"}
    BY DEF MotionInit
  <2> QED
    BY <2>1, <2>2 DEF MotionTypeOK
<1>3. InTravel
  BY DEF MotionInit, InTravel
<1>4. RoundDone
  BY <1>1 DEF MotionInit, RoundDone, Servo
<1> QED
  BY <1>2, <1>3, <1>4 DEF MotionIInv

LEMMA StepInv == MotionIInv /\ [MotionNext]_motionVars => MotionIInv'
<1> SUFFICES ASSUME MotionIInv, [MotionNext]_motionVars PROVE MotionIInv'
  OBVIOUS
<1> USE ServoAssumption DEF MotionIInv
<1>1. ASSUME MoveOneStep PROVE MotionIInv'
  <2> DEFINE q == Stepped(pulse[i], Target(i))
  <2>1. i \in Servo /\ pulse[i] \in 0 .. MaxPulse /\ (pulse[i] # 0 => Between(pulse[i], i))
    BY <1>1 DEF MoveOneStep, MotionTypeOK, InTravel, Between
  <2>2. q \in 1 .. MaxPulse /\ Between(q, i)
    BY <2>1, SteppedRange DEF MotionTypeOK
  <2>3. pulse' = [pulse EXCEPT ![i] = q] /\ open' = open
    BY <1>1 DEF MoveOneStep
  <2>4. \A s \in Servo : Target(s)' = Target(s)
    BY <2>3 DEF Target
  <2>5. MotionTypeOK'
    <3> HIDE DEF q
    <3>0. q \in 0 .. MaxPulse
      BY <2>2
    <3>1. pulse' \in [Servo -> 0 .. MaxPulse]
      BY <2>3, <3>0 DEF MotionTypeOK
    <3>2. i' \in 1 .. N + 1
      BY <1>1 DEF MoveOneStep, MotionTypeOK, Servo
    <3>3. pending' \in BOOLEAN
      BY <1>1 DEF MoveOneStep, MotionTypeOK
    <3> QED
      BY <1>1, <2>3, <3>1, <3>2, <3>3 DEF MoveOneStep, MotionTypeOK
  <2>6. InTravel'
    BY <2>1, <2>2, <2>3 DEF InTravel, Between, MotionTypeOK
  <2>7. ~pending' => ~pending /\ pulse'[i] = Target(i)
    <3>1. CASE pulse[i] = 0
      BY <1>1, <3>1, <2>1, <2>3 DEF MoveOneStep, Stepped, MotionTypeOK
    <3>2. CASE pulse[i] # 0
      BY <1>1, <3>2, <2>1 DEF MoveOneStep, MotionTypeOK
    <3> QED
      BY <3>1, <3>2
  <2>8. RoundDone'
    <3>1. phase' = "round" /\ i' = i + 1 /\ i \in Nat
      BY <1>1 DEF MoveOneStep, MotionTypeOK, Servo
    <3>2. ASSUME ~pending', NEW s \in Servo, s < i'
          PROVE  pulse'[s] = Target(s)'
      <4>1. s < i \/ s = i
        BY <3>1, <3>2 DEF Servo
      <4> QED
        BY <1>1, <4>1, <3>2, <2>3, <2>4, <2>7, <2>1 DEF RoundDone, MotionTypeOK, MoveOneStep
    <3> QED
      BY <3>1, <3>2 DEF RoundDone
  <2> QED
    BY <2>5, <2>6, <2>8
<1>2. ASSUME EndRound PROVE MotionIInv'
  <2>1. MotionTypeOK' /\ InTravel'
    <3>1. pending' \in BOOLEAN /\ phase' \in {"idle", "round", "final"}
      BY <1>2 DEF EndRound, MotionTypeOK
    <3> QED
      BY <1>2, <3>1 DEF EndRound, MotionTypeOK, InTravel
  <2>2. \A s \in Servo : Target(s)' = Target(s) /\ s < i
    BY <1>2 DEF EndRound, Target, Servo
  <2>3. RoundDone'
    BY <1>2, <2>2 DEF EndRound, RoundDone, MotionTypeOK, Servo
  <2> QED
    BY <2>1, <2>3
<1>3. ASSUME Finish PROVE MotionIInv'
  <2>1. \A s \in Servo : Target(s)' = Target(s)
    BY <1>3 DEF Finish, Target
  <2>2. pulse' = pulse
    BY <1>3 DEF Finish, RoundDone, MotionTypeOK
  <2>3. MotionTypeOK' /\ InTravel'
    BY <1>3, <2>2 DEF Finish, MotionTypeOK, InTravel, Servo
  <2>4. RoundDone'
    BY <1>3, <2>1, <2>2 DEF Finish, RoundDone
  <2> QED
    BY <2>3, <2>4
<1>4. ASSUME NEW o \in BOOLEAN, SetOpen(o) PROVE MotionIInv'
  <2>1. MotionTypeOK'
    <3>1. open' \in BOOLEAN /\ pending' \in BOOLEAN /\ phase' \in {"idle", "round", "final"}
      BY <1>4 DEF SetOpen
    <3>2. pulse' \in [Servo -> 0 .. MaxPulse] /\ i' \in 1 .. N + 1
      BY <1>4 DEF SetOpen, MotionTypeOK
    <3> QED
      BY <3>1, <3>2 DEF MotionTypeOK
  <2>2. InTravel' /\ RoundDone'
    BY <1>4 DEF SetOpen, InTravel, RoundDone, Servo
  <2> QED
    BY <2>1, <2>2
<1>5. ASSUME UNCHANGED motionVars PROVE MotionIInv'
  BY <1>5 DEF motionVars, MotionTypeOK, InTravel, RoundDone, Target
<1> QED
  BY <1>1, <1>2, <1>3, <1>4, <1>5 DEF MotionNext, MotionStep

\* The loops over the servos stay within them, and a pulse in its 16 bits.
THEOREM MotionTypeCorrect == MotionSpec => []MotionTypeOK
  BY InitInv, StepInv, PTL DEF MotionSpec, MotionIInv

\* No servo that was driven ever leaves its travel.
THEOREM TravelKept == MotionSpec => []InTravel
  BY InitInv, StepInv, PTL DEF MotionSpec, MotionIInv

\* The do-while of servo_set_open ends only with every servo at its target, so
\* the loop behind it never makes a servo jump.
THEOREM MotionComplete == MotionSpec => []NoFinalJump
<1>1. MotionIInv => NoFinalJump
  BY DEF MotionIInv, RoundDone, NoFinalJump
<1> QED
  BY InitInv, StepInv, <1>1, PTL DEF MotionSpec

\* A servo that was driven moves by at most one step at a time.
THEOREM MotionSmooth == MotionSpec => SmoothMotion
<1> DEFINE Smooth == \A s \in Servo : pulse[s] # 0 =>
                         /\ pulse'[s] - pulse[s] <= StepUs
                         /\ pulse[s] - pulse'[s] <= StepUs
<1>1. ASSUME MotionIInv, [MotionNext]_motionVars PROVE Smooth
  <2>1. CASE pulse' = pulse
    BY <1>1, <2>1, ServoAssumption DEF MotionIInv, MotionTypeOK
  <2>2. CASE MoveOneStep
    <3>1. i \in Servo /\ pulse' = [pulse EXCEPT ![i] = Stepped(pulse[i], Target(i))]
      BY <2>2 DEF MoveOneStep
    <3>2. pulse[i] # 0 =>
            /\ pulse'[i] - pulse[i] <= StepUs /\ pulse[i] - pulse'[i] <= StepUs
      BY <1>1, <3>1, SteppedRange DEF MotionIInv, MotionTypeOK, InTravel, Between
    <3> QED
      BY <1>1, <3>1, <3>2, ServoAssumption DEF MotionIInv, MotionTypeOK
  <2>3. CASE Finish
    <3>1. pulse' = pulse
      BY <1>1, <2>3 DEF Finish, MotionIInv, RoundDone, MotionTypeOK
    <3> QED
      BY <2>1, <3>1
  <2> QED
    BY <1>1, <2>1, <2>2, <2>3 DEF MotionNext, MotionStep, EndRound, SetOpen, motionVars
<1>2. MotionIInv /\ [MotionNext]_motionVars => [Smooth]_motionVars
  BY <1>1
<1> QED
  BY InitInv, StepInv, <1>2, PTL DEF MotionSpec, SmoothMotion
-----------------------------------------------------------------------------
(* The board: servos and the rest together.                                *)

\* NodeB's facts, for the board as its callbacks and loop see it.
AtomicFacts == INSTANCE NodeB_proofs WITH actuator <- standing

\* How the pieces fit: the servos are told what window_open says, and are idle
\* when nobody waits for them; the callback that waits has a command in hand that
\* came over the connection, which cannot end meanwhile.
Told ==
    /\ actuator \in [Devices -> Switch] /\ caller \in {"main", "callback", "none"}
    /\ open = (actuator["window"] = "ON")
    /\ caller = "none" => phase = "idle"
    /\ caller = "callback" =>
          bLink = "up" /\ CmdMsg("window", actuator["window"]) \in BInputs

BoardInv == MotionIInv /\ Told

-----------------------------------------------------------------------------
\* A window command is the one message that says what it says.
LEMMA WindowMessage ==
    ASSUME NEW m \in Message, m.topic = "window"
    PROVE  m = CmdMsg("window", m.state) /\ m.state \in Switch
  BY DEF Message, CmdMsg, Heartbeats

\* What a step of the board does to the servos is a step of ServoMotion.
LEMMA MotionStepOfBoard == [BoardNext]_boardVars => [MotionNext]_motionVars
<1> SUFFICES ASSUME [BoardNext]_boardVars PROVE [MotionNext]_motionVars
  OBVIOUS
<1>1. CASE \E m \in BInputs : WindowCommand(m)
  BY <1>1 DEF WindowCommand, MotionNext
<1>2. CASE Move
  BY <1>2 DEF Move, MotionNext
<1>3. CASE UNCHANGED motionVars
  BY <1>3
<1> QED
  BY <1>1, <1>2, <1>3 DEF BoardNext, boardVars, AtRest, Moved, WindowMoved

LEMMA BoardInitInv == BoardInit => BoardInv
<1> SUFFICES ASSUME BoardInit PROVE BoardInv
  OBVIOUS
<1>1. MotionIInv
  BY InitInv DEF BoardInit
<1>2. Told
  BY DEF BoardInit, Init, MotionInit, Told, Devices, Switch
<1> QED
  BY <1>1, <1>2 DEF BoardInv

\* The handlers at rest leave the window where it is.
LEMMA AtRestStands ==
    ASSUME Told, caller = "none", NEW m \in BInputs,
           m.topic = "window" => (m.state = "ON") = open, Receive(m)
    PROVE  actuator' \in [Devices -> Switch] /\ actuator'["window"] = actuator["window"]
<1>1. actuator \in [Devices -> Switch] /\ m \in Message /\ "window" \in Devices
  BY NodeBAssumption DEF Told, Devices
<1>2. \/ actuator' = actuator
      \/ m.topic \in Devices /\ actuator' = [actuator EXCEPT ![m.topic] = m.state]
  BY DEF Receive
<1>3. CASE m.topic = "window"
  <2>1. m.state \in Switch /\ actuator["window"] \in Switch
    BY <1>1, <1>3, WindowMessage
  <2>2. m.state = actuator["window"]
    BY <1>3, <2>1 DEF Told, Switch
  <2> QED
    BY <1>1, <1>2, <1>3, <2>1, <2>2
<1>4. CASE m.topic # "window"
  BY <1>1, <1>2, <1>4, MessageFields
<1> QED
  BY <1>3, <1>4

LEMMA BoardStepInv == BoardInv /\ [BoardNext]_boardVars => BoardInv'
<1> SUFFICES ASSUME BoardInv, [BoardNext]_boardVars PROVE BoardInv'
  OBVIOUS
<1> USE DEF BoardInv
<1>1. MotionIInv'
  BY StepInv, MotionStepOfBoard
<1>2. ASSUME NEW m \in BInputs, WindowCommand(m) PROVE Told'
  <2>1. m = CmdMsg("window", m.state) /\ m.state \in Switch
    BY <1>2, WindowMessage, NodeBAssumption DEF WindowCommand
  <2>2. /\ actuator' \in [Devices -> Switch] /\ actuator'["window"] = m.state
        /\ open' = (m.state = "ON") /\ caller' = "callback" /\ bLink' = "up"
    BY <1>2, <2>1 DEF WindowCommand, SetOpen, Told, Devices
  <2> QED
    BY <2>1, <2>2 DEF Told
<1>3. ASSUME Move PROVE Told'
  BY <1>3 DEF Move, MotionStep, MoveOneStep, EndRound, Finish, Told, bVars
<1>4. ASSUME Moved \/ WindowMoved PROVE Told'
  BY <1>4 DEF Moved, WindowMoved, Told, bVars, motionVars
<1>5. ASSUME NEW m \in BInputs, AtRest(Receive(m)),
             m.topic = "window" => (m.state = "ON") = open
      PROVE  Told'
  BY <1>5, AtRestStands DEF AtRest, Told, motionVars
<1>6. ASSUME UNCHANGED <<actuator, motionVars, caller>>, caller # "none" => bLink' = bLink
      PROVE  Told'
  BY <1>6 DEF Told, motionVars
<1> QED
  BY <1>1, <1>2, <1>3, <1>4, <1>5, <1>6
     DEF BoardNext, boardVars, bVars, AtRest, DnsFound, Connected, Disconnected,
         Heartbeat, Acked, Take, Tick

LEMMA BoardInvariance == BoardSpec => []BoardInv
  BY BoardInitInv, BoardStepInv, PTL DEF BoardSpec

-----------------------------------------------------------------------------
\* Between the callbacks there is no difference.
LEMMA StandingAtRest ==
    /\ caller # "callback" => standing = actuator
    /\ (caller # "callback")' => standing' = actuator'
  BY DEF standing

\* In the callback the window still stands where it did.
LEMMA StandingBehind ==
    ASSUME Told
    PROVE  /\ standing \in [Devices -> Switch] /\ standing["light"] = actuator["light"]
           /\ caller = "callback" => standing["window"] # actuator["window"]
           /\ standing = [standing EXCEPT !["light"] = actuator["light"]]
           /\ actuator = [standing EXCEPT !["window"] = actuator["window"]]
  BY DEF standing, Told, Devices, Switch

\* A window command is a step that the rest of the board does not see.
LEMMA CommandHidden ==
    ASSUME Told, NEW m \in BInputs, WindowCommand(m)
    PROVE  standing' = standing
<1>1. m = CmdMsg("window", m.state) /\ m.state \in Switch
  BY WindowMessage, NodeBAssumption DEF WindowCommand
<1>2. /\ actuator' = [actuator EXCEPT !["window"] = m.state] /\ caller' = "callback"
      /\ (m.state = "ON") # (actuator["window"] = "ON") /\ standing = actuator
      /\ actuator \in [Devices -> Switch] /\ "window" \in Devices
  BY StandingAtRest DEF WindowCommand, SetOpen, Told, Devices
<1>3. IF m.state = "ON" THEN actuator["window"] = "OFF" ELSE actuator["window"] = "ON"
  BY <1>1, <1>2 DEF Switch
<1>4. standing' = [actuator' EXCEPT !["window"] = actuator["window"]]
  BY <1>1, <1>2, <1>3 DEF standing, Switch
<1> QED
  BY <1>2, <1>4

\* The vocabulary and the client do not speak of the window.
LEMMA SameWords ==
    /\ AtomicFacts!Devices = Devices
    /\ \A dv : AtomicFacts!StatusB(dv) = StatusB(dv)
    /\ \A t : AtomicFacts!SubscribeMsg(t) = SubscribeMsg(t)
    /\ \A n : AtomicFacts!HeartbeatMsg(n) = HeartbeatMsg(n)
  BY DEF AtomicFacts!Devices, Devices, AtomicFacts!StatusB, StatusB,
         AtomicFacts!SubscribeMsg, SubscribeMsg, AtomicFacts!HeartbeatMsg, HeartbeatMsg

LEMMA SameClient ==
    ASSUME NEW up, NEW msgs
    PROVE  AtomicFacts!Publish(up, msgs) <=> Publish(up, msgs)
  BY DEF AtomicFacts!Publish, Publish, AtomicFacts!Taken, Taken,
         AtomicFacts!Refused, Refused

\* Every step of the board is one of NodeB or is not seen by it.
LEMMA StepOfNode ==
    ASSUME Told, [BoardNext]_boardVars
    PROVE  [AtomicFacts!Next]_(AtomicFacts!bVars)
<1> DEFINE Goal == [AtomicFacts!Next]_(AtomicFacts!bVars)
<1>1. ASSUME NEW m \in BInputs, WindowCommand(m) PROVE Goal
  BY <1>1, CommandHidden DEF WindowCommand, AtomicFacts!bVars
<1>2. ASSUME UNCHANGED <<bVars, caller>> PROVE Goal
  BY <1>2 DEF bVars, AtomicFacts!bVars, standing
<1>3. ASSUME Moved PROVE Goal
  BY <1>3, StandingAtRest DEF Moved, bVars, AtomicFacts!bVars
<1>4. ASSUME WindowMoved PROVE Goal
  <2> DEFINE m == CmdMsg("window", actuator["window"])
  <2>1. /\ m \in BInputs /\ m.topic = "window" /\ m.state = actuator["window"]
        /\ bLink = "up" /\ "window" \in Devices
    BY <1>4 DEF WindowMoved, Told, CmdMsg, Devices
  <2>2. standing' = actuator /\ actuator' = actuator
    BY <1>4, StandingAtRest DEF WindowMoved
  <2>3. standing[m.topic] # m.state /\ standing' = [standing EXCEPT ![m.topic] = m.state]
    BY <1>4, <2>1, <2>2, StandingBehind DEF WindowMoved
  <2> HIDE DEF m
  <2>4. AtomicFacts!Publish(TRUE, <<StatusB(standing')>>)
    <3>1. Publish(TRUE, <<StatusB(standing')>>)
      BY <1>4, <2>1, <2>2 DEF WindowMoved
    <3> QED
      BY <3>1, SameClient
  <2>5. AtomicFacts!Receive(m)
    BY <1>4, <2>1, <2>3, <2>4, SameWords DEF WindowMoved, AtomicFacts!Receive
  <2> QED
    BY <2>1, <2>5 DEF AtomicFacts!Next
<1>5. ASSUME NEW m \in BInputs, AtRest(Receive(m)) PROVE Goal
  <2>1. standing = actuator /\ standing' = actuator'
    BY <1>5, StandingAtRest DEF AtRest
  <2>2. AtomicFacts!Receive(m)
    BY <1>5, <2>1, SameWords, SameClient DEF AtRest, Receive, AtomicFacts!Receive
  <2> QED
    BY <2>2 DEF AtomicFacts!Next
<1>6. ASSUME AtRest(DnsFound) \/ AtRest(Connected) \/ AtRest(Disconnected)
             \/ AtRest(Heartbeat) \/ AtRest(Acked)
      PROVE  Goal
  <2>1. standing = actuator /\ standing' = actuator'
    BY <1>6, StandingAtRest DEF AtRest
  <2>2. \/ AtomicFacts!DnsFound \/ AtomicFacts!Connected \/ AtomicFacts!Disconnected
        \/ AtomicFacts!Heartbeat \/ AtomicFacts!Acked
    BY <1>6, <2>1, SameWords, SameClient
       DEF AtRest, DnsFound, Connected, Disconnected, Heartbeat, Acked,
           AtomicFacts!DnsFound, AtomicFacts!Connected, AtomicFacts!Disconnected,
           AtomicFacts!Heartbeat, AtomicFacts!Acked
  <2> QED
    BY <2>2 DEF AtomicFacts!Next
<1>7. ASSUME (Take \/ Tick) /\ UNCHANGED <<motionVars, caller>> PROVE Goal
  <2>1. standing' = standing
    BY <1>7 DEF Take, Tick, standing
  <2>2. AtomicFacts!Take \/ AtomicFacts!Tick
    BY <1>7, <2>1 DEF Take, Tick, AtomicFacts!Take, AtomicFacts!Tick
  <2> QED
    BY <2>2 DEF AtomicFacts!Next
<1> HIDE DEF Goal
<1>8. Goal
  BY <1>1, <1>2, <1>3, <1>4, <1>5, <1>6, <1>7 DEF BoardNext, boardVars, Move
<1> QED
  BY <1>8 DEF Goal

LEMMA StartOfNode == BoardInit => AtomicFacts!Init
<1> SUFFICES ASSUME BoardInit PROVE AtomicFacts!Init
  OBVIOUS
<1>1. standing = actuator
  BY StandingAtRest DEF BoardInit
<1> QED
  BY <1>1, SameWords DEF BoardInit, Init, AtomicFacts!Init

LEMMA NodeOfBoard == BoardSpec => AtomicFacts!Spec
<1>1. BoardInv /\ [BoardNext]_boardVars => [AtomicFacts!Next]_(AtomicFacts!bVars)
  BY StepOfNode DEF BoardInv
<1> QED
  BY <1>1, StartOfNode, BoardInvariance, PTL DEF BoardSpec, AtomicFacts!Spec

\* So what is proved of NodeB holds of the board.
LEMMA NodeInvariance == BoardSpec => [](AtomicFacts!TypeOK /\ AtomicFacts!LastStatusTrue)
<1>0. /\ MaxInFlight \in Nat \ {0} /\ Word \in Nat \ {0}
      /\ HeartbeatInterval \in Nat /\ BInputs \subseteq AtomicFacts!Message
  BY NodeBAssumption
     DEF Message, AtomicFacts!Message, Reading, AtomicFacts!Reading, Modes, AtomicFacts!Modes,
         Devices, AtomicFacts!Devices, Switch, AtomicFacts!Switch,
         Heartbeats, AtomicFacts!Heartbeats, Topic, AtomicFacts!Topic
<1>1. AtomicFacts!Spec => []AtomicFacts!IInv
  BY <1>0, AtomicFacts!Invariance, ThresholdAssumption
<1>2. AtomicFacts!IInv => AtomicFacts!TypeOK /\ AtomicFacts!LastStatusTrue
  BY DEF AtomicFacts!IInv
<1> QED
  BY <1>1, <1>2, NodeOfBoard, PTL

\* The two instances of NodeB say the same.
LEMMA SameNode ==
    /\ AtomicFacts!Init => Atomic!Init
    /\ [AtomicFacts!Next]_(AtomicFacts!bVars) => [Atomic!Next]_(Atomic!bVars)
<1>1. AtomicFacts!Init => Atomic!Init
  BY DEF AtomicFacts!Init, Atomic!Init, AtomicFacts!Devices, Atomic!Devices
<1>2. [AtomicFacts!Next]_(AtomicFacts!bVars) => [Atomic!Next]_(Atomic!bVars)
  BY Zenon
     DEF AtomicFacts!Devices, AtomicFacts!StatusB, AtomicFacts!SubscribeMsg,
         AtomicFacts!HeartbeatMsg, AtomicFacts!Taken, AtomicFacts!Refused,
         AtomicFacts!Publish, AtomicFacts!Receive, AtomicFacts!DnsFound,
         AtomicFacts!Connected, AtomicFacts!Disconnected,
         AtomicFacts!Heartbeat, AtomicFacts!Acked, AtomicFacts!Take,
         AtomicFacts!Tick, AtomicFacts!Next, AtomicFacts!bVars,
         Atomic!Devices, Atomic!StatusB, Atomic!SubscribeMsg,
         Atomic!HeartbeatMsg, Atomic!Taken, Atomic!Refused, Atomic!Publish,
         Atomic!Receive, Atomic!DnsFound, Atomic!Connected,
         Atomic!Disconnected, Atomic!Heartbeat, Atomic!Acked, Atomic!Take,
         Atomic!Tick, Atomic!Next, Atomic!bVars
<1> QED
  BY <1>1, <1>2

\* The board implements NodeB: a window command that takes hundreds of rounds of
\* the servos has, for the broker and for the rest of the board, the effect of one
\* action, although window_open changes before the motion and is told after it.
THEOREM WindowActsAtOnce == BoardSpec => ActsAtOnce
  BY NodeOfBoard, SameNode, PTL DEF AtomicFacts!Spec, ActsAtOnce, Atomic!Spec

\* The last status the board handed over tells the lamp, and, while no callback is
\* at work, the window and the place of every servo, whatever was asked meanwhile.
THEOREM BoardTellsTruth == BoardSpec => []StatusOfPlace
<1>1. AtomicFacts!LastStatusTrue /\ BoardInv => StatusOfPlace
  <2> SUFFICES ASSUME AtomicFacts!LastStatusTrue, BoardInv, ~bLost,
                      NEW k \in DOMAIN bOut, LastStatus(k)
               PROVE  /\ bOut[k].device["light"] = actuator["light"]
                      /\ caller = "none" => /\ bOut[k].device["window"] = actuator["window"]
                                            /\ Arrived(bOut[k].device["window"])
    BY DEF StatusOfPlace
  <2>1. bOut[k] = StatusB(standing)
    BY SameWords DEF AtomicFacts!LastStatusTrue, AtomicFacts!LastStatus, LastStatus
  <2>2. bOut[k].device = standing
    BY <2>1 DEF StatusB
  <2>3. standing["light"] = actuator["light"]
    BY StandingBehind DEF BoardInv
  <2>4. caller = "none" => standing = actuator /\ Arrived(actuator["window"])
    BY StandingAtRest DEF BoardInv, MotionIInv, RoundDone, Target, Told, Arrived
  <2> QED
    BY <2>2, <2>3, <2>4
<1> QED
  BY <1>1, NodeInvariance, BoardInvariance, PTL

\* Nothing is handed to the client before every servo is where the window is told to be.
THEOREM ArrivalFirst == BoardSpec => StatusAfterArrival
<1>1. ASSUME BoardInv, AtomicFacts!TypeOK, [BoardNext]_boardVars, Len(bOut') > Len(bOut)
      PROVE  Arrived(actuator'["window"])
  <2> USE <1>1 DEF BoardInv
  <2>1. phase = "idle" => Arrived(actuator["window"])
    BY DEF MotionIInv, RoundDone, Target, Told, Arrived
  <2>2. bOut' # bOut /\ ~Take
    <3>1. bOut \in Seq(AtomicFacts!Message) /\ Len(bOut) \in Nat
      BY LenProperties DEF AtomicFacts!TypeOK
    <3>2. ASSUME Take PROVE FALSE
      BY <3>1, <3>2, HeadTailProperties DEF Take
    <3> QED
      BY <3>1, <3>2
  <2>3. CASE phase = "idle" /\ actuator' = actuator
    BY <2>1, <2>3
  <2>4. ASSUME NEW m \in BInputs, AtRest(Receive(m)),
               m.topic = "window" => (m.state = "ON") = open
        PROVE  Arrived(actuator'["window"])
    BY <2>1, <2>4, AtRestStands DEF AtRest, Told
  <2> QED
    BY <2>2, <2>3, <2>4
       DEF BoardNext, boardVars, bVars, AtRest, WindowCommand, Move, Moved, WindowMoved,
           DnsFound, Connected, Disconnected, Heartbeat, Acked, Tick, Told
<1>2. BoardInv /\ AtomicFacts!TypeOK /\ [BoardNext]_boardVars
        => [Len(bOut') > Len(bOut) => Arrived(actuator'["window"])]_boardVars
  BY <1>1
<1> QED
  BY <1>2, NodeInvariance, BoardInvariance, PTL
     DEF BoardSpec, StatusAfterArrival
=============================================================================
