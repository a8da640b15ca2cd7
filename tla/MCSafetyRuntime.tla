--------------------------- MODULE MCSafetyRuntime ---------------------------
(* Small instances of SafetyRuntime for TLC.  Charges are tens of percent: *)
(* 1 is the last stage, 2 and 3 are rungs, 4 is above them all.            *)
EXTENDS SafetyRuntime, TLC

NoBattery == {NoGauge}
FlatOrFull == {1, 4}
AllCharges == {NoGauge, 1, 2, 3, 4}
OddRungs == <<[soc |-> 3, cap |-> 1], [soc |-> 2, cap |-> 2]>>   \* not in order

GuidedOrders == {"anchor_hold", "waypoint", "path_track"}
LegOrders == {"anchor_hold", "waypoint"}
PathOrders == {"path_track"}
=============================================================================
