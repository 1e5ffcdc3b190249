------------------------------ MODULE NodeBoard ------------------------------
(***************************************************************************)
(* Node B as it runs: NodeB and ServoMotion together.                      *)
(*   node_b/src/tempservo_led.c                                            *)
(*                                                                         *)
(* set_window_state stores window_open, drives the servos to the end and   *)
(* then publishes, all inside the callback that brought the command.  The  *)
(* broker and the clock go on meanwhile, the rest of the board waits.      *)
(* actuator["window"] is window_open, which differs from where the window  *)
(* is and from the last status until the callback has published.           *)
(***************************************************************************)
EXTENDS NodeB, ServoMotion

VARIABLE caller     \* who waits for servo_set_open: "main", "callback", "none"

boardVars == <<bVars, motionVars, caller>>

BoardInit == Init /\ MotionInit /\ caller = "main"

\* Mutant: callbacks go on while the window moves.
AtRestNested(A) == A /\ UNCHANGED <<motionVars, caller>>

\* The handlers and the loop body that do not move the window.
AtRest(A) == caller = "none" /\ A /\ UNCHANGED <<motionVars, caller>>

\* Mutant: the status is published before the servos are driven.
WindowCommandTold(m) ==
    /\ caller = "none" /\ bLink = "up" /\ m.topic = "window"
    /\ SetOpen(m.state = "ON")
    /\ actuator' = [actuator EXCEPT !["window"] = m.state]
    /\ Publish(TRUE, <<StatusB(actuator')>>)
    /\ caller' = "callback" /\ UNCHANGED <<bLink, bHeartbeatLast, now>>

\* A window command that changes the state: up to the call of servo_set_open.
WindowCommand(m) ==
    /\ caller = "none" /\ bLink = "up" /\ m.topic = "window"
    /\ actuator' = [actuator EXCEPT !["window"] = m.state]
    /\ SetOpen(m.state = "ON")
    /\ caller' = "callback"
    /\ UNCHANGED <<bLink, bOut, bUnacked, bHeartbeatLast, bLost, now>>

Move == MotionStep /\ UNCHANGED <<bVars, caller>>

\* Mutant: the window has moved and no status says so.
WindowMovedUntold ==
    /\ caller = "callback" /\ phase = "idle" /\ caller' = "none"
    /\ UNCHANGED <<bVars, motionVars>>

\* servo_set_open has returned: to main at boot, or to set_window_state.
Moved ==
    /\ caller = "main" /\ phase = "idle" /\ caller' = "none"
    /\ UNCHANGED <<bVars, motionVars>>

WindowMoved ==
    /\ caller = "callback" /\ phase = "idle" /\ caller' = "none"
    /\ Publish(bLink = "up", <<StatusB(actuator)>>)
    /\ UNCHANGED <<actuator, bLink, bHeartbeatLast, now, motionVars>>

BoardNext ==
    \/ AtRest(DnsFound) \/ AtRest(Connected) \/ AtRest(Disconnected)
    \/ AtRest(Heartbeat) \/ AtRest(Acked)
    \/ \E m \in BInputs :
          \/ WindowCommand(m)
          \/ /\ m.topic = "window" => (m.state = "ON") = open
             /\ AtRest(Receive(m))
    \/ Move \/ Moved \/ WindowMoved
    \/ (Take \/ Tick) /\ UNCHANGED <<motionVars, caller>>

\* The processor runs, also inside the callback.
BoardSpec == BoardInit /\ [][BoardNext]_boardVars /\ WF_boardVars(Move \/ Moved \/ WindowMoved)
-----------------------------------------------------------------------------
\* The board does what NodeB says it does, in single actions, although its window
\* takes its time: window_open may as well change when the callback publishes,
\* since no callback or heartbeat of the board sees a state in between.
standing ==
    IF caller = "callback"
    THEN [actuator EXCEPT !["window"] = IF @ = "ON" THEN "OFF" ELSE "ON"]
    ELSE actuator
Atomic == INSTANCE NodeB WITH actuator <- standing
ActsAtOnce == Atomic!Spec

\* Where the servos are when the window is in state w.
Arrived(w) == \A s \in Servo : pulse[s] = IF w = "ON" THEN OpenUs[s] ELSE ClosedUs[s]

\* The last status the board handed over, unless one was refused, tells the lamp
\* as it is, and when no callback is at work the window as the board has it and
\* as its servos stand: whatever was asked while the window moved.
StatusOfPlace ==
    ~bLost => \A k \in DOMAIN bOut : LastStatus(k) =>
        /\ bOut[k].device["light"] = actuator["light"]
        /\ caller = "none" => /\ bOut[k].device["window"] = actuator["window"]
                              /\ Arrived(bOut[k].device["window"])

\* A status, a subscription or a heartbeat leaves the board only when every servo
\* stands where window_open says: the change of window_open before the motion and
\* the status after it are never seen apart.
StatusAfterArrival == [][Len(bOut') > Len(bOut) => Arrived(actuator'["window"])]_boardVars
=============================================================================
