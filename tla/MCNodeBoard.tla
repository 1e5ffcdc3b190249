---------------------------- MODULE MCNodeBoard ----------------------------
(* Node B under every command at any time; two servos, the one of the code *)
(* and one mounted the other way round.                                     *)
EXTENDS NodeBoard, TLC
Commands     == {CmdMsg(d, s) : d \in Devices, s \in Switch}
ClosedPulses == 1 :> 500 @@ 2 :> 1000
OpenPulses   == 1 :> 1560 @@ 2 :> 650
=============================================================================
