------------------------------ MODULE MCNodeC ------------------------------
(* Instances of NodeC for TLC: readings, inputs and operator commands.     *)
EXTENDS NodeC

R(l, t, h) == [light |-> l, temp |-> t, humidity |-> h]
Dark   == R(260, 265, 600)      \* the first two demo payloads of main.c
Bright == R(350, 260, 550)
DemoSequence == <<Dark, Bright>>

ModeLine(m) == [kind |-> "mode", mode |-> m]
LampLine(s) == [kind |-> "device", device |-> "light", state |-> s]

NoLines   == {}
FewLines  == {ModeLine("AUTO"), LampLine("ON")}
LampLines == {ModeLine(m) : m \in Modes} \cup {LampLine(s) : s \in Switch}

\* What matters to the time-outs: data of node A, a status of node B.
WatchdogInputs == {EnvMsg(Dark), StatusB(AllOff)}
BusyInputs == WatchdogInputs \cup {ModeMsg("MANUAL")}
LampInputs == {ModeMsg(m) : m \in Modes} \cup {CmdMsg("light", s) : s \in Switch}
                \cup {EnvMsg(Dark)}
=============================================================================
