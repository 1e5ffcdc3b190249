----------------------------- MODULE HouseRules -----------------------------
(***************************************************************************)
(* The automatic control rules of node C: which state a reading of the     *)
(* environment asks of the lamp and of the window.                         *)
(*   node_c/src/node_c_controller.c   evaluate_auto_rules                  *)
(*                                                                         *)
(* Both devices are two-valued.  The lamp is "ON" or "OFF" as in the code; *)
(* for the window "ON" stands for OPEN and "OFF" for CLOSE.  Temperature   *)
(* and humidity are in tenths: the payloads carry one decimal, "%.1f".     *)
(***************************************************************************)
EXTENDS Integers

CONSTANTS
    LightOn, LightOff,          \* light_on_threshold, light_off_threshold
    OpenTemp, CloseTemp,        \* window_{open,close}_temp_threshold
    OpenHumidity, CloseHumidity \* window_{open,close}_humidity_threshold

\* Each pair leaves a hysteresis band (280/320, 27/28, 65/70 in the code).
ASSUME ThresholdAssumption ==
    /\ LightOn \in Int /\ LightOff \in Int /\ LightOn <= LightOff
    /\ OpenTemp \in Int /\ CloseTemp \in Int /\ CloseTemp <= OpenTemp
    /\ OpenHumidity \in Int /\ CloseHumidity \in Int
    /\ CloseHumidity <= OpenHumidity

Devices == {"light", "window"}
Switch  == {"ON", "OFF"}
Reading == [light : Int, temp : Int, humidity : Int]

\* The device asked to be ON by reading r, and the one asked to be OFF.  When
\* neither holds the reading is in the band and the device is left alone.
AsksOn(d, r) ==
    \/ d = "light"  /\ r.light < LightOn
    \/ d = "window" /\ (r.temp > OpenTemp \/ r.humidity > OpenHumidity)
AsksOff(d, r) ==
    \/ d = "light"  /\ r.light > LightOff
    \/ d = "window" /\ r.temp <= CloseTemp /\ r.humidity <= CloseHumidity

\* evaluate_auto_rules on a device believed to be in state s (its if / else if).
Ruled(d, r, s) ==
    CASE AsksOn(d, r) -> "ON"
      [] ~AsksOn(d, r) /\ AsksOff(d, r) -> "OFF"
      [] OTHER -> s
=============================================================================
