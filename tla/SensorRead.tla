----------------------------- MODULE SensorRead -----------------------------
(***************************************************************************)
(* What reading the climate sensor of node A promises, seen from outside:  *)
(*   node_a/pico/src/project0.c   read_dht                                 *)
(*                                                                         *)
(* A reading is begun, and later it returns either the climate that the    *)
(* sensor sent in this reading or a failure, never anything else.  Dht has *)
(* the pulses on the wire, and implements this.                            *)
(***************************************************************************)
CONSTANTS Climates, Failed
ASSUME FailedAssumption == Failed \notin Climates

VARIABLES
    reading,    \* inside read_dht, with interrupts off
    climate,    \* what the sensor sends in this reading
    measured    \* what the last reading returned, if it has

sensorVars == <<reading, climate, measured>>

SensorInit == reading = FALSE /\ climate \in Climates /\ measured = Failed

Begin ==
    /\ ~reading /\ reading' = TRUE
    /\ climate' \in Climates /\ measured' = Failed

Return ==
    /\ reading /\ reading' = FALSE
    /\ measured' \in {climate, Failed} /\ UNCHANGED climate

\* What a reading returns, and that every one that was begun returns, even with a
\* sensor that is dead.
SensorSafe    == SensorInit /\ [][Begin \/ Return]_sensorVars
SensorReturns == WF_sensorVars(Return)
SensorSpec    == SensorSafe /\ SensorReturns
=============================================================================
