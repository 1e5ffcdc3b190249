------------------------------ MODULE MCHouse ------------------------------
(* Instances of House for TLC.                                              *)
EXTENDS House

R(l, t, h) == [light |-> l, temp |-> t, humidity |-> h]
Dark   == R(260, 265, 600)      \* lamp ON, window CLOSE
Bright == R(350, 260, 550)      \* lamp OFF, window CLOSE

DemoSequence == <<Dark, Bright>>
NoInputs == {}
LampReadings == {Dark, Bright}
DeviceLine(d, s) == [kind |-> "device", device |-> d, state |-> s]
LampLines ==
    {[kind |-> "mode", mode |-> m] : m \in Modes}
    \cup {DeviceLine("light", s) : s \in Switch}
ManualLines == {[kind |-> "mode", mode |-> "AUTO"], DeviceLine("light", "ON")}
OffButton == {ModeMsg("AUTO"), CmdMsg("light", "OFF")}
OnlyDark == {Dark}
Gloomy == R(260, 293, 720)      \* lamp ON, window OPEN
Humid == R(300, 260, 720)       \* lamp as it is, window OPEN for its humidity
Warm  == R(300, 290, 600)       \* lamp as it is, window OPEN for its temperature
HumidOrWarm == {Humid, Warm}
WindowLines == {DeviceLine("window", "OFF"), [kind |-> "mode", mode |-> "AUTO"]}
AutoButton == {ModeMsg("AUTO")}
Manual == {[mode |-> "MANUAL", device |-> AllOff]}
LampOnOrOff ==
    [mode : Modes, device : {AllOff, [AllOff EXCEPT !["light"] = "ON"]}]
OnlyGloomy == {Gloomy}
Contrast == {Gloomy, Bright}
LampButtons == {ModeMsg(m) : m \in Modes} \cup {CmdMsg("light", s) : s \in Switch}
=============================================================================
