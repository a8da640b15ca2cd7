-------------------------- MODULE MCSafetyGovernor --------------------------
(* Small instances of SafetyGovernor for TLC.                              *)
EXTENDS SafetyGovernor, TLC

Clear == [headingAge |-> 0, depth |-> 0, depthAge |-> 0, nogo |-> FALSE, land |-> "none"]
Blind == [Clear EXCEPT !.headingAge = HeadingStale + 1]

(* Full ahead and astern, a thrust that still counts as stopped, zero, and *)
(* the head hard over at speed.                                            *)
ThrustCommands == [thrust : {-Full, 0, Eps, Full}, steering : {0}]
HardOver == [thrust : {Full}, steering : {Full}]
HelmCommands == ThrustCommands \cup HardOver

(* One reading for each way a reading can stop the thrust, or not.         *)
ManyReadings == {Clear, Blind, [Clear EXCEPT !.depth = 1], [Clear EXCEPT !.land = "stern"]}
=============================================================================
