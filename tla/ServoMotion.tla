----------------------------- MODULE ServoMotion -----------------------------
(***************************************************************************)
(* The stepwise motion of the window servos of node B.                     *)
(*   node_b/src/tempservo_led.c   servo_move_one_step, servo_set_open      *)
(*                                                                         *)
(* servo_set_open runs to its end before another command is looked at.     *)
(* In each round of its do-while every servo of the array makes one step,  *)
(* in index order; a final loop drives those that are not at their target. *)
(* Pulses are in microseconds; 0 means that the servo was never driven.    *)
(***************************************************************************)
EXTENDS Integers

CONSTANTS
    N,                  \* servo_count (1 in the code, the array is general)
    ClosedUs, OpenUs,   \* closed_us and open_us of each servo
    StepUs,             \* WINDOW_SERVO_STEP_US
    MaxPulse            \* the largest uint16_t

Servo == 1 .. N

ASSUME ServoAssumption ==
    /\ N \in Nat \ {0} /\ StepUs \in Nat \ {0} /\ MaxPulse \in Nat \ {0}
    /\ ClosedUs \in [Servo -> 1 .. MaxPulse] /\ OpenUs \in [Servo -> 1 .. MaxPulse]

VARIABLES
    pulse,      \* current_us of each servo
    open,       \* the argument of the call under way, or of the last one
    i,          \* the loop index, N + 1 between two rounds
    pending,    \* movement_pending
    phase          \* "idle", "round" (the do-while), "final" (the last loop)

motionVars == <<pulse, open, i, pending, phase>>

\* servo_target_pulse_us.
Target(s) == IF open THEN OpenUs[s] ELSE ClosedUs[s]

\* Mutant: the last step is not cut at the target.
SteppedUncut(p, t) == IF p = 0 THEN t ELSE IF p < t THEN p + StepUs ELSE p - StepUs

\* What servo_move_one_step makes of the pulse p on the way to t: a servo never
\* driven jumps, another moves by a step and stops at the target.
Stepped(p, t) ==
    IF p = 0 THEN t
    ELSE IF p < t THEN (IF p + StepUs > t THEN t ELSE p + StepUs)
    ELSE (IF p - StepUs < t THEN t ELSE p - StepUs)

\* main calls servo_set_open(false) before any command can arrive.
MotionInit ==
    /\ pulse = [s \in Servo |-> 0] /\ open = FALSE
    /\ i = 1 /\ pending = FALSE /\ phase = "round"

SetOpen(o) ==
    /\ phase = "idle" /\ o # open
    /\ open' = o /\ i' = 1 /\ pending' = FALSE /\ phase' = "round"
    /\ UNCHANGED pulse

\* Mutant: only the last servo of a round decides whether another follows.
MoveOneStepLast ==
    /\ phase = "round" /\ i \in Servo
    /\ pulse' = [pulse EXCEPT ![i] = Stepped(@, Target(i))]
    /\ pending' = (pulse[i] # 0 /\ pulse'[i] # Target(i))
    /\ i' = i + 1
    /\ UNCHANGED <<open, phase>>

\* servo_move_one_step on servo i; its result is FALSE for the jump.
MoveOneStep ==
    /\ phase = "round" /\ i \in Servo
    /\ pulse' = [pulse EXCEPT ![i] = Stepped(@, Target(i))]
    /\ pending' = (pending \/ (pulse[i] # 0 /\ pulse'[i] # Target(i)))
    /\ i' = i + 1
    /\ UNCHANGED <<open, phase>>

\* Mutant: the index is not reset.
EndRoundNoReset ==
    /\ phase = "round" /\ i = N + 1
    /\ IF pending THEN pending' = FALSE /\ UNCHANGED phase
                  ELSE phase' = "final" /\ UNCHANGED pending
    /\ i' = i + 1
    /\ UNCHANGED <<pulse, open>>

\* The end of a round: sleep and go on, or leave the do-while.
EndRound ==
    /\ phase = "round" /\ i = N + 1
    /\ IF pending THEN pending' = FALSE /\ UNCHANGED phase
                  ELSE phase' = "final" /\ UNCHANGED pending
    /\ i' = 1
    /\ UNCHANGED <<pulse, open>>

\* The last loop.
Finish ==
    /\ phase = "final"
    /\ IF i \in Servo
       THEN pulse' = [pulse EXCEPT ![i] = Target(i)] /\ i' = i + 1 /\ UNCHANGED phase
       ELSE phase' = "idle" /\ UNCHANGED <<pulse, i>>
    /\ UNCHANGED <<open, pending>>

\* A step of the call under way.
MotionStep == MoveOneStep \/ EndRound \/ Finish

MotionNext == MotionStep \/ \E o \in BOOLEAN : SetOpen(o)

MotionSpec == MotionInit /\ [][MotionNext]_motionVars /\ WF_motionVars(MotionStep)
-----------------------------------------------------------------------------
MotionTypeOK ==
    /\ pulse \in [Servo -> 0 .. MaxPulse]
    /\ open \in BOOLEAN /\ pending \in BOOLEAN
    /\ i \in 1 .. N + 1 /\ phase \in {"idle", "round", "final"}

\* A servo that was driven once stays between its two positions: no step goes
\* past a target, whichever way the window moves.
InTravel ==
    \A s \in Servo : pulse[s] # 0 =>
        \/ ClosedUs[s] <= pulse[s] /\ pulse[s] <= OpenUs[s]
        \/ OpenUs[s] <= pulse[s] /\ pulse[s] <= ClosedUs[s]

\* When servo_set_open leaves its do-while every servo is at its target: the
\* last loop, which would jump, finds nothing to do.
NoFinalJump == phase \in {"final", "idle"} => \A s \in Servo : pulse[s] = Target(s)

\* A servo already driven never moves by more than a step.
SmoothMotion ==
    [][\A s \in Servo : pulse[s] # 0 =>
            /\ pulse'[s] - pulse[s] <= StepUs
            /\ pulse[s] - pulse'[s] <= StepUs]_motionVars

\* Every call of servo_set_open returns.
CallReturns == phase # "idle" ~> phase = "idle"
=============================================================================
