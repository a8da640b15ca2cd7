--------------------------- MODULE MCRouteControl ---------------------------
(* Small instances of RouteControl for TLC.                                *)
EXTENDS RouteControl, TLC

CONSTANTS a, b, sea     \* two marks, and a place that is neither

BothPlaces == {a, b}
ThreePlaces == {a, b, sea}

Plain(w, act, f) == [wps |-> w, onArrival |-> act, loop |-> FALSE, patrol |-> FALSE,
                     follow |-> f]
Round(w, f) == [Plain(w, "none", f) EXCEPT !.loop = TRUE]
Patrol(w, f) == [Plain(w, "none", f) EXCEPT !.patrol = TRUE]

There == <<a, b>>
Back == <<a, b, a>>
Long == <<a, b, a, b>>     \* its third mark is reached going out and coming back
Twice == <<a, a, b>>     \* two marks within one arrival radius

Same == <<b, b>>     \* a line that may have no length

LegOrders == {Plain(Back, "anchor", "leg"), Round(There, "leg"), Patrol(Twice, "leg")}
PathOrders == {Plain(There, "anchor", "path"), Plain(<<b>>, "stop", "path"),
               Round(There, "path"), Patrol(There, "path"), Plain(There, "stop", "leg"),
               Plain(Same, "stop", "path")}
PathOrder == {Plain(Back, "anchor", "path")}
LiveOrders == {Plain(Twice, "stop", "leg"), Patrol(Back, "leg"),
               Plain(There, "anchor", "path"), Patrol(There, "path")}
RtlOrders == {Patrol(Long, "leg"), Plain(There, "stop", "path")}
LoopOrder == {Round(There, "leg")}

ShortEdits == {[wps |-> There, active |-> 3], [wps |-> <<b>>, active |-> 2]}
Nothing == {}
AllCommands == {"stop", "manual", "mob", "mob_clear", "pause_nav", "resume_nav"}
MobAndStop == {"mob", "stop"}
MobOnly == {"mob", "mob_clear"}
StopOnly == {"stop"}
PauseAndResume == {"pause_nav", "resume_nav", "stop"}
OneTrack == {There}
Here == {None}

AllConnected == {Devices}
FixOrNot == {Devices, {"motor"}}
=============================================================================
