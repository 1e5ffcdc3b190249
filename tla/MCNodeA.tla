------------------------------ MODULE MCNodeA ------------------------------
(* Node A with one climate, the top of the light scale, and ticks of        *)
(* 500 ms: a measure and a heartbeat every two seconds.                     *)
EXTENDS NodeA, TLC
OneClimate == {[temp |-> 265, humidity |-> 600]}
NoClimate  == [temp |-> -1, humidity |-> -1]
Bright     == {AdcMax}
Waits      == "env" :> 10 @@ "heartbeatA" :> 12
=============================================================================
