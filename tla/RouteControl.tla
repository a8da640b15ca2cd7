---------------------------- MODULE RouteControl ----------------------------
(***************************************************************************)
(* Routes: the commands of controller/controller.py that start, edit,      *)
(* pause, resume and end one, the two route followers of                   *)
(* controller/modes.py (WaypointMode, leg by leg; PathTrackMode, pure      *)
(* pursuit), the on-arrival action of the control tick, and the            *)
(* Return-to-Launch of runtime/runtime.py, whose planner runs in a thread  *)
(* beside the event loop and writes the same shared state.                 *)
(*                                                                         *)
(* A position is a place: two positions within an arrival radius of each   *)
(* other are the same place, and trace-tight routes differ from others in  *)
(* nothing else.  PathTrackMode's arc length is counted in whole legs.     *)
(***************************************************************************)
EXTENDS Integers, Sequences, FiniteSetsExt

CONSTANTS
    Places,       \* where the boat and the marks can be
    None,         \* no position, no anchor, nothing suspended
    Commands,     \* the commands the operators use
    Orders,       \* fresh goto commands: [wps, onArrival, loop, patrol, follow]
    Edits,        \* live edits of the running route: [wps, active]
    Files,        \* routes a GPX file may hold
    Tracks,       \* tracks that may have been recorded (the empty one: none)
    Drops,        \* marks an anchor_hold may carry (None: hold here)
    Plans,        \* water routes home the planner may find
    Connections   \* sets of the devices that may be connected

Shapes == {"manual", "anchor_hold", "waypoint", "path_track"}
Follow == {"waypoint", "path_track"}     \* the route followers
Arrivals == {"none", "anchor", "stop"}
Devices == {"motor", "gps"}
Threads == {"idle", "planning", "assigned", "reset", "engaged"}

ASSUME RouteAssumption ==
    /\ None \notin Places
    /\ Commands \subseteq {"stop", "manual", "mob", "mob_clear", "pause_nav", "resume_nav"}
    /\ Orders \subseteq [wps : Seq(Places), onArrival : Arrivals, loop : BOOLEAN,
                         patrol : BOOLEAN, follow : {"leg", "path"}]
    /\ Edits \subseteq [wps : Seq(Places), active : Int]
    /\ Files \subseteq Seq(Places) /\ Tracks \subseteq Seq(Places)
    /\ Drops \subseteq Places \cup {None}
    /\ Plans \subseteq Seq(Places) \ {<<>>}
    /\ Connections \subseteq SUBSET Devices /\ Connections # {}

VARIABLES
    mode,        \* state.mode
    nav,         \* the route fields of NavigationState
    anchor,      \* state.anchor
    leg,         \* WaypointMode's own memory: [start, step]
    path,        \* PathTrackMode's own memory: [cursor, step]
    suspended,   \* controller.suspended: what pause_nav remembered
    mobActive,   \* state.mob_active
    fault,       \* state.controller_fault: the last tick raised
    connected,   \* controller.device_connected
    pos,         \* state.position
    rtl,         \* where the Return-to-Launch thread is
    stopped,     \* history: STOP was the last order about where to go
    task,        \* history: what the running route still owes
    left         \* history: where the route stood when it was paused

boatVars == <<anchor, pos, connected>>
routeVars == <<mode, nav, leg, path>>
vars == <<mode, nav, anchor, leg, path, suspended, mobActive, fault,
          connected, pos, rtl, stopped, task, left>>

NewRoute(w, n) == [n EXCEPT !.wps = w, !.active = 0]
NoRoute == [wps |-> <<>>, active |-> 0, onArrival |-> "none", loop |-> FALSE,
            patrol |-> FALSE, follow |-> "leg", complete |-> FALSE]

Init ==
    /\ mode = "manual" /\ nav = NoRoute /\ anchor = None
    /\ leg = [start |-> None, step |-> 1] /\ path = [cursor |-> 0, step |-> 1]
    /\ suspended = None /\ mobActive = FALSE /\ fault = FALSE
    /\ connected \in Connections /\ pos = None /\ rtl = "idle"
    /\ stopped = TRUE /\ task = "none" /\ left = None

(* MODE_REQUIRES: the gate handle_command puts before the commands that    *)
(* name a mode; the others pass.                                           *)
Allowed(m) == (IF m = "manual" THEN {"motor"} ELSE Devices) \subseteq connected

FollowMode(n) == IF n.follow = "path" THEN "path_track" ELSE "waypoint"

(* set_mode(m) over the route fields n: activation restarts the follower.  *)
Engage(m, n) ==
    /\ mode' = m
    /\ nav' = IF m \in Follow THEN [n EXCEPT !.complete = FALSE] ELSE n
    /\ leg' = IF m = "waypoint" THEN [start |-> pos, step |-> 1] ELSE leg
    /\ path' = IF m = "path_track" THEN [cursor |-> 0, step |-> 1] ELSE path

(* What a route n started in full owes: its arrival action, or to go on    *)
(* from end to end.                                                        *)
TaskOf(n) ==
    CASE n.loop \/ n.wps = <<>> -> "none"
      [] ~n.loop /\ n.patrol /\ Len(n.wps) > 1 -> "patrol"
      [] ~n.loop /\ n.wps # <<>> /\ ~(n.patrol /\ Len(n.wps) > 1) ->
            IF n.onArrival # "none" THEN "arrive" ELSE "none"
-----------------------------------------------------------------------------
(* WaypointMode.update.  r is [active, step, start, complete], the leg     *)
(* follower's state within a tick.                                         *)

InRange(k) == 0 <= k /\ k < Len(nav.wps)
Mark(k) == nav.wps[k + 1]
Ends == ~nav.loop /\ ~(nav.patrol /\ Len(nav.wps) >= 2)

WrapOrBounceOnce(r) == \* mutant: a patrol turns without flipping its direction
    IF nav.loop THEN [r EXCEPT !.active = 0, !.step = 1, !.start = pos]
    ELSE IF ~Ends THEN [r EXCEPT !.active = @ - 2 * r.step, !.start = pos]
    ELSE [r EXCEPT !.complete = TRUE]
(* _wrap_or_bounce: active has run off an end of the route.                *)
WrapOrBounce(r) ==
    IF nav.loop THEN [r EXCEPT !.active = 0, !.step = 1, !.start = pos]
    ELSE IF ~Ends THEN [r EXCEPT !.active = @ - 2 * r.step, !.step = -@, !.start = pos]
    ELSE [r EXCEPT !.complete = TRUE]
Turned(r) == IF InRange(r.active) THEN r ELSE WrapOrBounce(r)

LegStarted(r) == IF r.start = None THEN [r EXCEPT !.start = pos] ELSE r

(* The boat is at the mark, or past the leg's perpendicular.               *)
Arrived(r, abeam) == pos = Mark(r.active) \/ (abeam /\ r.start \notin {pos, Mark(r.active)})

(* The first index from k on, in direction d, that the boat is not at.     *)
Ahead(k, d) ==
    k + d * Min({j \in 0 .. Len(nav.wps) :
                   ~InRange(k + d * j) \/ Mark(k + d * j) # pos})

Advanced(r) ==
    LET next == r.active + r.step
        stop == Ahead(next, r.step)
    IN [r EXCEPT !.active = stop,
                 !.start = IF stop = next THEN Mark(r.active) ELSE pos]

LegBefore == [active |-> nav.active, step |-> leg.step, start |-> leg.start,
              complete |-> nav.complete]
LegEntered == LegStarted(Turned(LegBefore))

(* The update, and whether it raised on reading an index outside the route *)
(* (r is then what had been assigned by then).                             *)
LegUpdate(abeam) ==
    LET off == ~InRange(nav.active)
        r == IF InRange(LegEntered.active) /\ Arrived(LegEntered, abeam)
             THEN Advanced(LegEntered) ELSE LegEntered
        t == Turned(r)
    IN IF off /\ (Ends \/ ~InRange(LegEntered.active))
       THEN [r |-> Turned(LegBefore), raised |-> ~Ends]
       ELSE [r |-> t, raised |-> ~InRange(t.active) /\ ~Ends]

-----------------------------------------------------------------------------
(* PathTrackMode.update.                                                   *)

LegsOf(w) == IF nav.loop THEN Len(w) ELSE Len(w) - 1
PathMark(k) == Mark(k % Len(nav.wps))

(* _project: the cursor may move within a window ahead of it, in the       *)
(* direction of travel, to the point of the line nearest to the boat.      *)
Window ==
    LET n == LegsOf(nav.wps)
        ahead == {path.cursor, path.cursor + (IF path.step >= 0 THEN 1 ELSE -1)}
    IN IF nav.loop THEN {IF k > n THEN k - n ELSE IF k < 0 THEN k + n ELSE k : k \in ahead}
       ELSE IF ahead \cap (0 .. n) = {} THEN {n} ELSE ahead \cap (0 .. n)
Projections ==
    LET here == {k \in Window : PathMark(k) = pos}
    IN IF here = {} THEN Window ELSE here

PathTurns(s) == ~nav.loop /\ nav.patrol
                /\ s = IF path.step > 0 THEN LegsOf(nav.wps) ELSE 0
PathEndsShort(s) == \* mutant: the last leg is not counted
    ~nav.loop /\ ~nav.patrol /\ s = LegsOf(nav.wps) - 1 /\ pos = Mark(Len(nav.wps) - 1)
PathEnds(s) == ~nav.loop /\ ~nav.patrol
               /\ s = LegsOf(nav.wps) /\ pos = Mark(Len(nav.wps) - 1)
PathStep(s) == IF PathTurns(s) THEN -path.step ELSE path.step
PathActive(s) ==     \* a progress hint: the far end of the segment s lies on
    Min({Len(nav.wps) - 1, Max({0, s - 1}) + (IF PathStep(s) > 0 THEN 1 ELSE 0)})

-----------------------------------------------------------------------------
(* The control tick: the mode's update, then the on-arrival action.        *)

FiresOnLegs(n) ==     \* mutant: the pure-pursuit follower is forgotten
    mode = "waypoint" /\ n.complete /\ n.onArrival # "none"
Fires(n) == n.complete /\ n.onArrival # "none"

(* What follows the update that left n, l and p behind: once a route has   *)
(* completed, its arrival action runs, and only once.                      *)
Finish(n, l, p) ==
    LET spent == [n EXCEPT !.onArrival = IF Fires(n) THEN "none" ELSE @]
        holds == Fires(n) /\ n.onArrival = "anchor" /\ Allowed("anchor_hold")
        halts == Fires(n) /\ n.onArrival = "stop"
    IN /\ nav' = spent /\ leg' = l /\ path' = p
       /\ mode' = IF holds THEN "anchor_hold" ELSE IF halts THEN "manual" ELSE mode
       /\ anchor' = IF holds THEN pos ELSE anchor
       /\ suspended' = IF halts THEN None ELSE suspended
       /\ stopped' = (stopped \/ halts)
       /\ task' = IF holds \/ halts THEN "none" ELSE task

Ready == pos # None /\ nav.wps # <<>>

TickLeg(abeam) ==
    /\ mode = "waypoint" /\ Ready
    /\ \E u \in {LegUpdate(abeam)} :
         LET n == [nav EXCEPT !.active = u.r.active, !.complete = u.r.complete]
             l == [start |-> u.r.start, step |-> u.r.step]
         IN /\ fault' = u.raised
            /\ IF u.raised
               THEN nav' = n /\ leg' = l
                    /\ UNCHANGED <<mode, path, anchor, suspended, stopped, task>>
               ELSE Finish(n, l, path)
    /\ UNCHANGED <<mobActive, connected, pos, rtl, left>>

(* Marks of one place are within an arrival radius, or the very same: then *)
(* the line has no length and there is nothing to follow.                  *)
OnePlace == \A k \in 0 .. Len(nav.wps) - 1 : Mark(k) = Mark(0)

TickPath(s) ==
    /\ mode = "path_track" /\ Ready
    /\ IF Len(nav.wps) = 1
       THEN s = 0 /\ Finish([nav EXCEPT !.complete = @ \/ pos = Mark(0)], leg, path)
       ELSE \/ OnePlace /\ s = 0 /\ Finish(nav, leg, path)
            \/ /\ s \in Projections
               /\ Finish([nav EXCEPT !.complete = @ \/ PathEnds(s),
                                     !.active = IF PathEnds(s) THEN @ ELSE PathActive(s)],
                         leg, [cursor |-> s, step |-> PathStep(s)])
    /\ fault' = FALSE
    /\ UNCHANGED <<mobActive, connected, pos, rtl, left>>

(* A tick that follows no route, or has no fix or no mark to steer by.     *)
TickIdle ==
    /\ mode \notin Follow \/ ~Ready
    /\ fault
    /\ fault' = FALSE
    /\ UNCHANGED <<mode, nav, anchor, leg, path, suspended, mobActive,
                   connected, pos, rtl, stopped, task, left>>

TickOnCourse == \/ \E abeam \in BOOLEAN : TickLeg(abeam)
                \/ \E s \in 0 .. Len(nav.wps) : TickPath(s)
Tick == TickOnCourse \/ TickIdle
-----------------------------------------------------------------------------
(* Commands.  Each is one call of handle_command, run in the event loop    *)
(* between two ticks.                                                      *)

Ordered(t) == stopped' = FALSE /\ task' = t
KeepHistory == UNCHANGED <<stopped, task, left>>

StopKeepsPaused ==     \* mutant: a paused route survives the STOP
    /\ Engage("manual", nav)
    /\ stopped' = TRUE /\ task' = "none" /\ left' = None
    /\ UNCHANGED <<boatVars, suspended, mobActive, fault, rtl>>
Stop ==
    /\ suspended' = None
    /\ Engage("manual", nav)
    /\ stopped' = TRUE /\ task' = "none" /\ left' = None
    /\ UNCHANGED <<boatVars, mobActive, fault, rtl>>

Manual ==
    /\ Allowed("manual")
    /\ Engage("manual", nav)
    /\ Ordered("none")
    /\ UNCHANGED <<boatVars, suspended, mobActive, fault, rtl, left>>

AnchorHold(d) ==     \* d: a mark given with the command, or None
    /\ Allowed("anchor_hold")
    /\ anchor' = IF d # None THEN d ELSE IF pos # None THEN pos ELSE anchor
    /\ Engage("anchor_hold", nav)
    /\ Ordered("none")
    /\ UNCHANGED <<suspended, mobActive, fault, connected, pos, rtl, left>>

Goto(o) ==
    LET n == [wps |-> o.wps, active |-> 0, onArrival |-> o.onArrival, loop |-> o.loop,
              patrol |-> o.patrol, follow |-> o.follow, complete |-> nav.complete]
    IN /\ Allowed("waypoint")
       /\ Engage(FollowMode(n), n)
       /\ Ordered(TaskOf(n))
       /\ UNCHANGED <<boatVars, suspended, mobActive, fault, rtl, left>>

(* goto with "active": the running route's marks are replaced and the      *)
(* route goes on; nothing of its progress is reset.                        *)
ResumedPastEnd(k, w) ==     \* mutant: clamped to the length, not the last index
    IF w = <<>> THEN 0 ELSE Max({0, Min({k, Len(w)})})
Resumed(k, w) == IF w = <<>> THEN 0 ELSE Max({0, Min({k, Len(w) - 1})})
EditRoute(e) ==
    LET n == [nav EXCEPT !.wps = e.wps, !.active = Resumed(e.active, e.wps)]
    IN /\ Allowed("waypoint")
       /\ IF mode = FollowMode(nav) THEN nav' = n /\ UNCHANGED <<mode, leg, path>>
          ELSE Engage(FollowMode(nav), n)
       /\ Ordered("none")
       /\ UNCHANGED <<boatVars, suspended, mobActive, fault, rtl, left>>

Loaded(n) == [n EXCEPT !.active = 0, !.loop = FALSE, !.patrol = FALSE, !.follow = "leg"]

(* _load_route: the runtime has replaced the marks before the controller   *)
(* is asked, and the controller may refuse.                                *)
LoadRoute(w) ==
    /\ IF Allowed("waypoint")
       THEN Engage("waypoint", Loaded([nav EXCEPT !.wps = w])) /\ stopped' = FALSE
       ELSE nav' = [nav EXCEPT !.wps = w] /\ UNCHANGED <<mode, leg, path, stopped>>
    /\ task' = "none"
    /\ UNCHANGED <<boatVars, suspended, mobActive, fault, rtl, left>>

(* replay and backtrack: navigate the recorded track as a route.           *)
Replay(w) ==
    /\ w # <<>>
    /\ Engage("waypoint", NewRoute(w, nav))
    /\ Ordered("none")
    /\ UNCHANGED <<boatVars, suspended, mobActive, fault, rtl, left>>

Mob ==     \* the return is owed whatever flags an earlier route left
    /\ pos # None
    /\ mobActive' = TRUE
    /\ Engage("waypoint", [NewRoute(<<pos>>, nav) EXCEPT !.onArrival = "stop"])
    /\ Ordered("arrive")
    /\ UNCHANGED <<boatVars, suspended, fault, rtl, left>>

MobClear ==
    /\ mobActive
    /\ mobActive' = FALSE
    /\ UNCHANGED <<boatVars, routeVars, suspended, fault, rtl, stopped, task, left>>

SnapshotNoProgress == \* mutant: the pause does not keep the active mark
    [mode |-> mode, anchor |-> anchor, route |-> [nav EXCEPT !.active = 0]]
(* What a pause keeps, and where the route then stands.                    *)
Snapshot == [mode |-> mode, anchor |-> anchor, route |-> nav]
Standing == <<nav.wps, nav.active>>

PauseAnywhere ==     \* mutant: a pause in manual remembers manual
    /\ suspended' = Snapshot
    /\ anchor' = IF pos # None THEN pos ELSE anchor
    /\ Engage("anchor_hold", nav)
    /\ left' = Standing
    /\ Ordered("none")
    /\ UNCHANGED <<mobActive, fault, connected, pos, rtl>>
Pause ==
    /\ mode # "manual"
    /\ suspended' = Snapshot
    /\ anchor' = IF pos # None THEN pos ELSE anchor
    /\ Engage("anchor_hold", nav)
    /\ left' = Standing
    /\ Ordered("none")
    /\ UNCHANGED <<mobActive, fault, connected, pos, rtl>>

Resume ==
    /\ suspended # None
    /\ suspended' = None
    /\ anchor' = suspended.anchor
    /\ Engage(suspended.mode, [suspended.route EXCEPT !.complete = nav.complete])
    /\ task' = "none"
    /\ UNCHANGED <<mobActive, fault, connected, pos, rtl, stopped, left>>

Command ==
    \/ "stop" \in Commands /\ Stop
    \/ "manual" \in Commands /\ Manual
    \/ "mob" \in Commands /\ Mob
    \/ "mob_clear" \in Commands /\ MobClear
    \/ "pause_nav" \in Commands /\ Pause
    \/ "resume_nav" \in Commands /\ Resume
    \/ \E d \in Drops : AnchorHold(d)
    \/ \E o \in Orders : Goto(o)
    \/ \E e \in Edits : EditRoute(e)
    \/ \E w \in Files : LoadRoute(w)
    \/ \E w \in Tracks : Replay(w)
-----------------------------------------------------------------------------
(* return_to_launch in the executor's thread: the event loop runs between  *)
(* any two of its writes.  Bound: one such thread at a time.               *)

RtlRequest ==
    /\ rtl = "idle" /\ pos # None
    /\ rtl' = "planning"
    /\ Ordered("none")
    /\ UNCHANGED <<routeVars, boatVars, suspended, mobActive, fault, left>>

RtlFails ==     \* no launch point, or no water route
    /\ rtl = "planning"
    /\ rtl' = "idle"
    /\ UNCHANGED <<routeVars, boatVars, suspended, mobActive, fault, stopped, task, left>>

RtlAssign(w) ==
    /\ rtl = "planning"
    /\ nav' = [nav EXCEPT !.wps = w]
    /\ task' = "none"
    /\ rtl' = "assigned"
    /\ UNCHANGED <<mode, leg, path, boatVars, suspended, mobActive, fault, stopped, left>>

RtlResetKeepsPlace == \* mutant: load_route does not restart the route
    /\ rtl = "assigned"
    /\ nav' = nav /\ rtl' = "engaged"
    /\ UNCHANGED <<mode, leg, path, boatVars, suspended, mobActive, fault, stopped, task, left>>
RtlReset ==     \* load_route: the route's flags, unless it is refused
    /\ rtl = "assigned"
    /\ IF Allowed("waypoint") THEN nav' = Loaded(nav) /\ rtl' = "reset"
       ELSE nav' = nav /\ rtl' = "engaged"
    /\ UNCHANGED <<mode, leg, path, boatVars, suspended, mobActive, fault, stopped, task, left>>

RtlEngage ==     \* load_route: set_mode
    /\ rtl = "reset"
    /\ Engage(FollowMode(nav), nav)
    /\ rtl' = "engaged"
    /\ UNCHANGED <<boatVars, suspended, mobActive, fault, stopped, task, left>>

RtlArrival ==
    /\ rtl = "engaged"
    /\ nav' = [nav EXCEPT !.onArrival = "anchor"]
    /\ rtl' = "idle"
    /\ UNCHANGED <<mode, leg, path, boatVars, suspended, mobActive, fault, stopped, task, left>>

RtlStep == RtlFails \/ (\E w \in Plans : RtlAssign(w)) \/ RtlReset \/ RtlEngage \/ RtlArrival
-----------------------------------------------------------------------------
(* The boat's surroundings: it moves, by its motor or not, and a reload of *)
(* the devices may leave the modes without one they need.                  *)

Moved(p) ==
    /\ pos' = p
    /\ UNCHANGED <<routeVars, anchor, suspended, mobActive, fault, connected, rtl>>
    /\ KeepHistory
Move(p) == p # pos /\ Moved(p)

Reconnect(c) ==
    /\ c # connected
    /\ connected' = c
    /\ UNCHANGED <<routeVars, anchor, suspended, mobActive, fault, pos, rtl>>
    /\ KeepHistory

Next ==
    \/ \E abeam \in BOOLEAN : TickLeg(abeam)
    \/ \E s \in 0 .. Len(nav.wps) : TickPath(s)
    \/ TickIdle
    \/ Command
    \/ RtlRequest \/ RtlStep
    \/ \E p \in Places : Move(p)
    \/ \E c \in Connections : Reconnect(c)

Spec == Init /\ [][Next]_vars

(* The mark the follower is steering for.                                  *)
Bound ==
    IF mode = "waypoint" THEN IF InRange(nav.active) THEN Mark(nav.active) ELSE pos
    ELSE LET k == path.cursor + path.step
         IN PathMark(IF nav.loop THEN k ELSE Max({0, Min({k, LegsOf(nav.wps)})}))
Steers == mode \in Follow /\ Ready /\ pos # Bound /\ Moved(Bound)
OnMark == TickOnCourse /\ pos = Bound

(* The control loop ticks for ever, a fix arrives, a boat steered for a    *)
(* mark gets there and, the loop being much faster than the boat, is there *)
(* for a tick; the planner's thread ends.                                  *)
Fix == pos = None /\ \E p \in Places : Moved(p)
LiveRoute == /\ Spec
             /\ WF_vars(Tick) /\ WF_vars(Fix)
             /\ WF_vars(Steers) /\ SF_vars(OnMark)
             /\ WF_vars(RtlStep)
-----------------------------------------------------------------------------
Points == Places \cup {None}
Route == [wps : Seq(Places), active : Int, onArrival : Arrivals, loop : BOOLEAN,
          patrol : BOOLEAN, follow : {"leg", "path"}, complete : BOOLEAN]
Suspension == [mode : Shapes \ {"manual"}, anchor : Points, route : Route]

(* Every variable has its type.                                            *)
RouteTypeOK ==
    /\ mode \in Shapes /\ nav \in Route
    /\ anchor \in Points /\ pos \in Points
    /\ leg \in [start : Points, step : {-1, 1}]
    /\ path \in [cursor : Nat, step : {-1, 1}]
    /\ suspended = None \/ suspended \in Suspension
    /\ mobActive \in BOOLEAN /\ fault \in BOOLEAN /\ connected \subseteq Devices
    /\ rtl \in Threads /\ stopped \in BOOLEAN
    /\ task \in {"none", "arrive", "patrol"}

(* Loop, patrol, live edits that shorten the route under the boat, pauses  *)
(* and resumes: no tick reads a mark outside the route, and the active     *)
(* index is a mark of the route or just off one of its ends.               *)
NoRouteFault == ~fault /\ nav.active \in -1 .. Len(nav.wps)

(* After a STOP the boat stays in manual until an operator orders          *)
(* otherwise: neither a route's arrival action nor a resume of what was    *)
(* paused before the STOP takes it out.                                    *)
StopHolds == stopped => mode = "manual"

(* A completed route never sits on an arrival action it has yet to run.    *)
ArrivalRuns == ~(mode \in Follow /\ nav.complete /\ nav.onArrival # "none")

(* Whatever was ordered, edited or followed since the pause, a resumed     *)
(* leg-by-leg route makes for the mark it was making for.                  *)
ResumeRestores ==
    [][(suspended # None /\ suspended' = None /\ mode' = "waypoint")
          => Standing' = left]_vars

(* Once the operators leave the boat alone, a route with an arrival action *)
(* and a return to the man-overboard mark come to their end.               *)
LeftAlone == <>[][~Command]_vars
RouteArrives == LeftAlone => (task = "arrive" ~> task # "arrive")

(* Once the operators leave the boat alone, a patrol goes from end to end  *)
(* for ever.                                                               *)
Direction == IF mode = "path_track" THEN path.step ELSE leg.step
PatrolSweeps ==
    (LeftAlone /\ <>[](task = "patrol"))
        => ([]<>(Direction = 1) /\ []<>(Direction = -1))

(* A tick that reads outside the route because the Return-to-Launch thread *)
(* is replacing it is over once the thread is.                             *)
FaultPasses == fault ~> ~fault

(* Promised by the documentation and not kept by the code: clearing a      *)
(* man-overboard ends the return to the mark (README, section 7).          *)
MobClearCancels == [][mobActive /\ ~mobActive' => mode' \notin Follow]_vars
=============================================================================
