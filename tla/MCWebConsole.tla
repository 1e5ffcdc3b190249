---------------------------- MODULE MCWebConsole ----------------------------
(* One card, one node, one button, one thread for commands.  No definition   *)
(* looks at a payload, so that they may be exchanged.                        *)
EXTENDS WebConsole, TLC
CONSTANTS p, q
OneThread  == {"thread"}
TwoValues  == {p, q}
Exchange   == Permutations(TwoValues)
OneButton  == {"light"}
OneCard    == {"nodeC"}
OneNode    == {"nodeA"}
=============================================================================
