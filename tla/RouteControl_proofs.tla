------------------------- MODULE RouteControl_proofs -------------------------
(***************************************************************************)
(* What the routes of RouteControl keep for every set of places, orders,   *)
(* edits and files.  The types and ResumeRestores hold whatever the        *)
(* Return-to-Launch does, the rest as long as no plan of its lands: a      *)
(* landing plan is what the run route_stop shows to break StopHolds.       *)
(***************************************************************************)
EXTENDS RouteControl, LeastNumber, SequenceTheorems, TLAPS

(* Without a plan the Return-to-Launch thread never gets to write.         *)
Idle == rtl \in {"idle", "planning"}

LEMMA IdleStep ==
    ASSUME Plans = {}, Idle, [Next]_vars
    PROVE  Idle'
<1> USE DEF Idle
<1>1. CASE RtlStep
  BY <1>1 DEF RtlStep, RtlFails, RtlReset, RtlEngage, RtlArrival
<1>2. CASE RtlRequest
  BY <1>2 DEF RtlRequest
<1>3. CASE Command
  <2>1. rtl' = rtl
    BY <1>3 DEF Command, Stop, Manual, Mob, MobClear, Pause, Resume, AnchorHold, Goto,
                EditRoute, LoadRoute, Replay
  <2>2. QED
    BY <2>1
<1>4. ASSUME \/ \E abeam \in BOOLEAN : TickLeg(abeam)
             \/ \E s \in 0 .. Len(nav.wps) : TickPath(s)
             \/ TickIdle
             \/ \E p \in Places : Move(p)
             \/ \E c \in Connections : Reconnect(c)
             \/ UNCHANGED vars
      PROVE Idle'
  <2>1. rtl' = rtl
    BY <1>4 DEF TickLeg, TickPath, TickIdle, Move, Moved, Reconnect, vars
  <2>2. QED
    BY <2>1
<1>5. QED
  BY <1>1, <1>2, <1>3, <1>4 DEF Next

(* What a STOP leaves behind, beyond the manual mode: nothing to resume.   *)
StopInv == stopped => mode = "manual" /\ suspended = None

(* The on-arrival action stops the boat as STOP does, and otherwise does   *)
(* not claim to.                                                           *)
LEMMA FinishKeepsStop ==
    ASSUME NEW n, NEW l, NEW p, mode # "manual", StopInv, Finish(n, l, p)
    PROVE  StopInv'
<1>1. ~stopped
  BY DEF StopInv
<1>2. CASE Fires(n) /\ n.onArrival = "stop"
  <2>1. mode' = "manual" /\ suspended' = None
    BY <1>2 DEF Finish
  <2>2. QED
    BY <2>1 DEF StopInv
<1>3. CASE ~(Fires(n) /\ n.onArrival = "stop")
  <2>1. ~stopped'
    BY <1>1, <1>3 DEF Finish
  <2>2. QED
    BY <2>1 DEF StopInv
<1>4. QED
  BY <1>2, <1>3

LEMMA TickKeepsStop ==
    ASSUME StopInv, Tick
    PROVE  StopInv'
<1>1. CASE \E abeam \in BOOLEAN : TickLeg(abeam)
  <2>1. PICK abeam \in BOOLEAN : TickLeg(abeam)
    BY <1>1
  <2>2. mode = "waypoint" /\ ~stopped
    BY <2>1 DEF TickLeg, StopInv
  <2>3. CASE LegUpdate(abeam).raised
    <3>1. stopped' = stopped
      BY <2>1, <2>3 DEF TickLeg
    <3>2. QED
      BY <2>2, <3>1 DEF StopInv
  <2>4. CASE ~LegUpdate(abeam).raised
    <3>1. \E n, l : Finish(n, l, path)
      BY <2>1, <2>4 DEF TickLeg
    <3>2. QED
      BY <2>2, <3>1, FinishKeepsStop
  <2>5. QED
    BY <2>3, <2>4
<1>2. CASE \E s \in 0 .. Len(nav.wps) : TickPath(s)
  <2>1. mode = "path_track"
    BY <1>2 DEF TickPath
  <2>2. \E n, p : Finish(n, leg, p)
    BY <1>2 DEF TickPath
  <2>3. QED
    BY <2>1, <2>2, FinishKeepsStop
<1>3. CASE TickIdle
  BY <1>3 DEF TickIdle, StopInv
<1>4. QED
  BY <1>1, <1>2, <1>3 DEF Tick, TickOnCourse

(* Each command takes the boat somewhere by an order of an operator, or    *)
(* leaves a stopped boat alone.                                            *)
LEMMA CommandKeepsStop ==
    ASSUME StopInv, Command
    PROVE  StopInv'
<1> USE DEF StopInv
<1>1. CASE Stop
  BY <1>1 DEF Stop, Engage
<1>2. CASE Manual \/ Mob \/ Pause \/ (\E d \in Drops : AnchorHold(d))
            \/ (\E o \in Orders : Goto(o)) \/ (\E e \in Edits : EditRoute(e))
            \/ (\E w \in Tracks : Replay(w))
  <2>1. stopped' = FALSE
    BY <1>2 DEF Manual, Mob, Pause, AnchorHold, Goto, EditRoute, Replay, Ordered
  <2>2. QED
    BY <2>1
<1>3. CASE \E w \in Files : LoadRoute(w)
  <2>1. CASE Allowed("waypoint")
    <3>1. stopped' = FALSE
      BY <1>3, <2>1 DEF LoadRoute
    <3>2. QED
      BY <3>1
  <2>2. CASE ~Allowed("waypoint")
    BY <1>3, <2>2 DEF LoadRoute
  <2>3. QED
    BY <2>1, <2>2
<1>4. CASE MobClear
  BY <1>4 DEF MobClear, routeVars
<1>5. CASE Resume
  <2>1. ~stopped /\ stopped' = stopped
    BY <1>5 DEF Resume
  <2>2. QED
    BY <2>1
<1>6. QED
  BY <1>1, <1>2, <1>3, <1>4, <1>5 DEF Command

LEMMA StopStep ==
    ASSUME Idle, StopInv, [Next]_vars
    PROVE  StopInv'
<1>1. CASE Tick
  BY <1>1, TickKeepsStop
<1>2. CASE Command
  BY <1>2, CommandKeepsStop
<1>3. CASE RtlRequest
  <2>1. stopped' = FALSE
    BY <1>3 DEF RtlRequest, Ordered
  <2>2. QED
    BY <2>1 DEF StopInv
<1>4. CASE RtlStep
  BY <1>4 DEF RtlStep, RtlFails, RtlAssign, RtlReset, RtlEngage, RtlArrival, Idle,
              StopInv, routeVars
<1>5. CASE \/ \E p \in Places : Move(p)
           \/ \E c \in Connections : Reconnect(c)
           \/ UNCHANGED vars
  BY <1>5 DEF Move, Moved, Reconnect, KeepHistory, StopInv, vars, routeVars
<1>6. QED
  BY <1>1, <1>2, <1>3, <1>4, <1>5 DEF Next, Tick, TickOnCourse

(* STOP is final (handle_command "stop", _resume_nav): with no Return-to-  *)
(* Launch plan landing, no route, arrival action or resume moves a stopped *)
(* boat before an operator orders it, for every set of commands and routes.*)
THEOREM StopAlwaysHolds ==
    ASSUME Plans = {}
    PROVE  Spec => []StopHolds
<1>1. Init => Idle /\ StopInv
  BY DEF Init, Idle, StopInv
<1>2. Idle /\ StopInv /\ [Next]_vars => (Idle /\ StopInv)'
  BY IdleStep, StopStep
<1>3. Idle /\ StopInv => StopHolds
  BY DEF StopInv, StopHolds
<1>4. QED
  BY <1>1, <1>2, <1>3, PTL DEF Spec
-----------------------------------------------------------------------------
(* A completed route never waits for its arrival action.  The conjunct     *)
(* about the fields lets the provers read one field of a route after       *)
(* another was written.                                                    *)
Fields == {"wps", "active", "onArrival", "loop", "patrol", "follow", "complete"}
Shaped(n) == DOMAIN n = Fields /\ n = [f \in Fields |-> n[f]]
Owes(m, n) == m \in Follow /\ n.complete /\ n.onArrival # "none"
ArrivalInv ==
    /\ Shaped(nav)
    /\ suspended # None => Shaped(suspended.route)
    /\ ~Owes(mode, nav)

(* Engaging a mode leaves nothing owed: a follower starts incomplete.      *)
LEMMA EngageOwesNothing ==
    ASSUME NEW m, NEW n, Shaped(n), Engage(m, n)
    PROVE  Shaped(nav') /\ ~Owes(mode', nav')
<1>1. CASE m \in Follow
  <2>1. nav' = [n EXCEPT !.complete = FALSE]
    BY <1>1 DEF Engage
  <2>2. Shaped(nav') /\ ~nav'.complete
    BY <2>1 DEF Shaped, Fields
  <2>3. QED
    BY <2>2 DEF Owes
<1>2. CASE m \notin Follow
  BY <1>2 DEF Engage, Owes
<1>3. QED
  BY <1>1, <1>2

(* The on-arrival action is spent as soon as the route completes.          *)
LEMMA FinishOwesNothing ==
    ASSUME NEW n, NEW l, NEW p, Shaped(n), Finish(n, l, p)
    PROVE  Shaped(nav') /\ ~Owes(mode', nav')
<1>1. nav' = [n EXCEPT !.onArrival = IF Fires(n) THEN "none" ELSE @]
  BY DEF Finish
<1>2. Shaped(nav') /\ nav'.complete = n.complete
  BY <1>1 DEF Shaped, Fields
<1>3. nav'.onArrival = IF Fires(n) THEN "none" ELSE n.onArrival
  BY <1>1 DEF Shaped, Fields
<1>4. QED
  BY <1>2, <1>3 DEF Owes, Fires

(* A tick that raises has completed nothing: the followers that end are    *)
(* never the ones that read outside the route.                             *)
LegFields == {"active", "step", "start", "complete"}
SameEnd(r) == /\ DOMAIN r = LegFields /\ r = [f \in LegFields |-> r[f]]
              /\ r.complete = nav.complete

LEMMA TurnedSameEnd ==
    ASSUME NEW r, SameEnd(r), ~Ends
    PROVE  SameEnd(Turned(r))
<1>1. CASE nav.loop
  <2>1. WrapOrBounce(r) = [r EXCEPT !.active = 0, !.step = 1, !.start = pos]
    BY <1>1 DEF WrapOrBounce
  <2>2. SameEnd(WrapOrBounce(r))
    BY <2>1 DEF SameEnd, LegFields
  <2>3. QED
    BY <2>2 DEF Turned
<1>2. CASE ~nav.loop
  <2>1. WrapOrBounce(r) = [r EXCEPT !.active = @ - 2 * r.step, !.step = -@, !.start = pos]
    BY <1>2 DEF WrapOrBounce
  <2>2. SameEnd(WrapOrBounce(r))
    BY <2>1 DEF SameEnd, LegFields
  <2>3. QED
    BY <2>2 DEF Turned
<1>3. QED
  BY <1>1, <1>2

LEMMA RaisedCompletesNothing ==
    ASSUME NEW abeam, LegUpdate(abeam).raised
    PROVE  LegUpdate(abeam).r.complete = nav.complete
<1> DEFINE r == IF InRange(LegEntered.active) /\ Arrived(LegEntered, abeam)
                THEN Advanced(LegEntered) ELSE LegEntered
<1>1. ~Ends
  BY DEF LegUpdate
<1>2. SameEnd(LegBefore)
  BY DEF SameEnd, LegFields, LegBefore
<1>3. SameEnd(Turned(LegBefore))
  BY <1>1, <1>2, TurnedSameEnd
<1>4. SameEnd(LegEntered)
  BY <1>3 DEF LegEntered, LegStarted, SameEnd, LegFields
<1>5. SameEnd(Advanced(LegEntered))
  BY <1>4 DEF Advanced, SameEnd, LegFields
<1>6. SameEnd(r)
  BY <1>4, <1>5
<1> HIDE DEF r
<1>7. SameEnd(Turned(r))
  BY <1>1, <1>6, TurnedSameEnd
<1>8. LegUpdate(abeam).r = Turned(LegBefore) \/ LegUpdate(abeam).r = Turned(r)
  BY DEF LegUpdate, r
<1>9. QED
  BY <1>3, <1>7, <1>8 DEF SameEnd

LEMMA TickOwesNothing ==
    ASSUME ArrivalInv, Tick
    PROVE  ArrivalInv'
<1>1. suspended' # None => Shaped(suspended.route) /\ suspended' = suspended
  <2>1. suspended' = suspended \/ suspended' = None
    BY DEF Tick, TickOnCourse, TickLeg, TickPath, TickIdle, Finish
  <2>2. QED
    BY <2>1 DEF ArrivalInv
<1>2. CASE \E abeam \in BOOLEAN : TickLeg(abeam)
  <2>1. PICK abeam \in BOOLEAN : TickLeg(abeam)
    BY <1>2
  <2> DEFINE u == LegUpdate(abeam)
             n == [nav EXCEPT !.active = u.r.active, !.complete = u.r.complete]
  <2>2. Shaped(n) /\ n.onArrival = nav.onArrival /\ n.complete = u.r.complete
    BY DEF ArrivalInv, Shaped, Fields
  <2>3. CASE u.raised
    <3>1. nav' = n /\ mode' = mode
      BY <2>1, <2>3 DEF TickLeg
    <3>2. u.r.complete = nav.complete
      BY <2>3, RaisedCompletesNothing
    <3>3. QED
      BY <1>1, <2>2, <3>1, <3>2 DEF ArrivalInv, Owes
  <2>4. CASE ~u.raised
    <3>1. Finish(n, [start |-> u.r.start, step |-> u.r.step], path)
      BY <2>1, <2>4 DEF TickLeg
    <3>2. QED
      BY <1>1, <2>2, <3>1, FinishOwesNothing DEF ArrivalInv
  <2>5. QED
    BY <2>3, <2>4
<1>3. CASE \E s \in 0 .. Len(nav.wps) : TickPath(s)
  <2>1. \E n, p : Shaped(n) /\ Finish(n, leg, p)
    <3>1. PICK s : TickPath(s)
      BY <1>3
    <3>2. CASE Len(nav.wps) = 1
      <4>1. Finish([nav EXCEPT !.complete = @ \/ pos = Mark(0)], leg, path)
        BY <3>1, <3>2 DEF TickPath
      <4>2. Shaped([nav EXCEPT !.complete = @ \/ pos = Mark(0)])
        BY DEF ArrivalInv, Shaped, Fields
      <4>3. QED
        BY <4>1, <4>2
    <3>3. CASE Len(nav.wps) # 1
      <4> DEFINE n == [nav EXCEPT !.complete = @ \/ PathEnds(s),
                                  !.active = IF PathEnds(s) THEN @ ELSE PathActive(s)]
      <4>1. Finish(nav, leg, path) \/ Finish(n, leg, [cursor |-> s, step |-> PathStep(s)])
        BY <3>1, <3>3 DEF TickPath
      <4>2. Shaped(nav) /\ Shaped(n)
        BY DEF ArrivalInv, Shaped, Fields
      <4>3. QED
        BY <4>1, <4>2
    <3>4. QED
      BY <3>2, <3>3
  <2>2. QED
    BY <1>1, <2>1, FinishOwesNothing DEF ArrivalInv
<1>4. CASE TickIdle
  BY <1>4 DEF TickIdle, ArrivalInv
<1>5. QED
  BY <1>2, <1>3, <1>4 DEF Tick, TickOnCourse

(* A command that engages a mode owes nothing; one that does not, changes  *)
(* neither the completion nor the arrival action.                          *)
LEMMA CommandOwesNothing ==
    ASSUME ArrivalInv, Command
    PROVE  ArrivalInv'
<1> USE DEF ArrivalInv
<1>1. CASE \/ Stop \/ Manual \/ (\E d \in Drops : AnchorHold(d))
           \/ (\E o \in Orders : Goto(o)) \/ (\E w \in Tracks : Replay(w)) \/ Mob
  <2>1. \E m, n : Shaped(n) /\ Engage(m, n)
    <3>1. CASE Stop \/ Manual \/ \E d \in Drops : AnchorHold(d)
      BY <3>1 DEF Stop, Manual, AnchorHold
    <3>2. CASE \E o \in Orders : Goto(o)
      BY <3>2 DEF Goto, Shaped, Fields
    <3>3. CASE \E w \in Tracks : Replay(w)
      BY <3>3 DEF Replay, NewRoute, Shaped, Fields
    <3>4. CASE Mob
      BY <3>4 DEF Mob, NewRoute, Shaped, Fields
    <3>5. QED
      BY <1>1, <3>1, <3>2, <3>3, <3>4
  <2>2. suspended' = suspended \/ suspended' = None
    BY <1>1 DEF Stop, Manual, AnchorHold, Goto, Replay, Mob
  <2>3. QED
    BY <2>1, <2>2, EngageOwesNothing
<1>2. CASE \E e \in Edits : EditRoute(e)
  <2>1. PICK e \in Edits : EditRoute(e)
    BY <1>2
  <2> DEFINE n == [nav EXCEPT !.wps = e.wps, !.active = Resumed(e.active, e.wps)]
  <2>2. Shaped(n) /\ n.complete = nav.complete /\ n.onArrival = nav.onArrival
    BY DEF Shaped, Fields
  <2>3. suspended' = suspended
    BY <2>1 DEF EditRoute
  <2>4. (nav' = n /\ mode' = mode) \/ Engage(FollowMode(nav), n)
    BY <2>1 DEF EditRoute
  <2>5. QED
    BY <2>2, <2>3, <2>4, EngageOwesNothing DEF Owes
<1>3. CASE \E w \in Files : LoadRoute(w)
  <2>1. PICK w \in Files : LoadRoute(w)
    BY <1>3
  <2> DEFINE n == [nav EXCEPT !.wps = w]
  <2>2. Shaped(n) /\ n.complete = nav.complete /\ n.onArrival = nav.onArrival
    BY DEF Shaped, Fields
  <2>3. Shaped(Loaded(n))
    BY <2>2 DEF Loaded, Shaped, Fields
  <2>4. suspended' = suspended
    BY <2>1 DEF LoadRoute
  <2>5. (nav' = n /\ mode' = mode) \/ Engage("waypoint", Loaded(n))
    BY <2>1 DEF LoadRoute
  <2>6. QED
    BY <2>2, <2>3, <2>4, <2>5, EngageOwesNothing DEF Owes
<1>4. CASE MobClear
  BY <1>4 DEF MobClear, routeVars
<1>5. CASE Pause
  <2>1. suspended'.route = nav
    BY <1>5 DEF Pause, Snapshot
  <2>2. Engage("anchor_hold", nav)
    BY <1>5 DEF Pause
  <2>3. QED
    BY <2>1, <2>2, EngageOwesNothing
<1>6. CASE Resume
  <2>1. Shaped([suspended.route EXCEPT !.complete = nav.complete])
    BY <1>6 DEF Resume, Shaped, Fields
  <2>2. Engage(suspended.mode, [suspended.route EXCEPT !.complete = nav.complete])
    BY <1>6 DEF Resume
  <2>3. suspended' = None
    BY <1>6 DEF Resume
  <2>4. QED
    BY <2>1, <2>2, <2>3, EngageOwesNothing
<1>7. QED
  BY <1>1, <1>2, <1>3, <1>4, <1>5, <1>6 DEF Command

LEMMA ArrivalStep ==
    ASSUME Idle, ArrivalInv, Plans = {}, [Next]_vars
    PROVE  ArrivalInv'
<1>1. CASE Tick
  BY <1>1, TickOwesNothing
<1>2. CASE Command
  BY <1>2, CommandOwesNothing
<1>3. CASE \/ RtlRequest \/ RtlStep
           \/ \E p \in Places : Move(p)
           \/ \E c \in Connections : Reconnect(c)
           \/ UNCHANGED vars
  <2>1. UNCHANGED <<mode, nav, suspended>>
    BY <1>3 DEF RtlRequest, RtlStep, RtlFails, RtlReset, RtlEngage, RtlArrival, Idle,
                Move, Moved, Reconnect, vars, routeVars
  <2>2. QED
    BY <2>1 DEF ArrivalInv
<1>4. QED
  BY <1>1, <1>2, <1>3 DEF Next, Tick, TickOnCourse

(* The control tick runs a completed route's arrival action in the tick    *)
(* that completes it, and no command revives a completed route with its    *)
(* action pending (control_tick, set_mode): for every route and edit, as   *)
(* long as no Return-to-Launch plan lands.                                 *)
THEOREM ArrivalAlwaysRuns ==
    ASSUME Plans = {}
    PROVE  Spec => []ArrivalRuns
<1>1. Init => Idle /\ ArrivalInv
  BY DEF Init, Idle, ArrivalInv, NoRoute, Shaped, Fields, Owes, Follow
<1>2. Idle /\ ArrivalInv /\ [Next]_vars => (Idle /\ ArrivalInv)'
  BY IdleStep, ArrivalStep
<1>3. Idle /\ ArrivalInv => ArrivalRuns
  BY DEF ArrivalInv, Owes, ArrivalRuns
<1>4. QED
  BY <1>1, <1>2, <1>3, PTL DEF Spec
-----------------------------------------------------------------------------
(* The types, whatever the Return-to-Launch thread writes.                 *)
LegState == [active : Int, step : {-1, 1}, start : Points, complete : BOOLEAN]
LegMemory == [start : Points, step : {-1, 1}]
PathMemory == [cursor : Nat, step : {-1, 1}]

LEMMA MinOfTwo ==
    ASSUME NEW x \in Int, NEW y \in Int
    PROVE  Min({x, y}) = IF x <= y THEN x ELSE y
<1>1. \E z \in {x, y} : \A w \in {x, y} : z <= w
  OBVIOUS
<1>2. Min({x, y}) \in {x, y} /\ \A w \in {x, y} : Min({x, y}) <= w
  BY <1>1 DEF Min
<1>3. QED
  BY <1>2

LEMMA MaxOfTwo ==
    ASSUME NEW x \in Int, NEW y \in Int
    PROVE  Max({x, y}) = IF x <= y THEN y ELSE x
<1>1. \E z \in {x, y} : \A w \in {x, y} : z >= w
  OBVIOUS
<1>2. Max({x, y}) \in {x, y} /\ \A w \in {x, y} : Max({x, y}) >= w
  BY <1>1 DEF Max
<1>3. QED
  BY <1>2

LEMMA MarkType ==
    ASSUME nav \in Route
    PROVE  /\ Len(nav.wps) \in Nat /\ nav.wps \in Seq(Places)
           /\ nav.wps # <<>> => Len(nav.wps) # 0
           /\ \A k \in Int : InRange(k) => Mark(k) \in Points
<1>1. nav.wps \in Seq(Places)
  BY DEF Route
<1>2. Len(nav.wps) \in Nat /\ (nav.wps # <<>> => Len(nav.wps) # 0)
  BY <1>1, LenProperties, EmptySeq
<1>3. ASSUME NEW k \in Int, InRange(k) PROVE Mark(k) \in Points
  <2>1. k + 1 \in 1 .. Len(nav.wps)
    BY <1>2, <1>3 DEF InRange
  <2>2. nav.wps[k + 1] \in Places
    BY <1>1, <2>1, ElementOfSeq
  <2>3. QED
    BY <2>2 DEF Mark, Points
<1>4. QED
  BY <1>1, <1>2, <1>3

(* The first mark ahead, out and back, that the boat is not at: it is a    *)
(* mark or just off the end the follower travels to.                       *)
LEMMA AheadOut ==
    ASSUME nav \in Route, NEW k \in Int
    PROVE  /\ Ahead(k, 1) \in Int /\ k <= Ahead(k, 1)
           /\ k \in -1 .. Len(nav.wps) => Ahead(k, 1) \in -1 .. Len(nav.wps)
<1> DEFINE L == Len(nav.wps)
           S == {j \in 0 .. L : ~InRange(k + 1 * j) \/ Mark(k + 1 * j) # pos}
           m == Min(S)
<1>1. L \in Nat
  BY MarkType
<1>2. 0 \in S \/ L \in S
  BY <1>1 DEF InRange
<1>3. S \in SUBSET Nat /\ S # {}
  BY <1>1, <1>2
<1>4. m \in S /\ \A j \in S : m <= j
  BY <1>3, MinIsLeast
<1>5. Ahead(k, 1) = k + 1 * m
  BY DEF Ahead
<1>6. \A j \in 0 .. L : j \notin S => InRange(k + 1 * j)
  OBVIOUS
<1>7. m \in S => m \in 0 .. L
  OBVIOUS
<1> HIDE DEF S, m
<1>8. m \in Nat /\ m \in 0 .. L
  BY <1>1, <1>4, <1>7
<1>9. m # 0 => 0 <= k + (m - 1) /\ k + (m - 1) < L
  <2> SUFFICES ASSUME m # 0 PROVE 0 <= k + (m - 1) /\ k + (m - 1) < L
    OBVIOUS
  <2>1. m - 1 \in 0 .. L /\ m - 1 \notin S
    BY <1>1, <1>4, <1>8
  <2>2. InRange(k + 1 * (m - 1))
    BY <1>6, <2>1
  <2>3. QED
    BY <1>1, <1>8, <2>2 DEF InRange
<1>10. k \in -1 .. L => k + m \in -1 .. L
  <2>1. CASE m = 0
    BY <2>1
  <2>2. CASE m # 0
    BY <1>1, <1>8, <1>9, <2>2
  <2>3. QED
    BY <2>1, <2>2
<1>11. QED
  BY <1>5, <1>8, <1>10

LEMMA AheadBack ==
    ASSUME nav \in Route, NEW k \in Int
    PROVE  /\ Ahead(k, -1) \in Int /\ Ahead(k, -1) <= k
           /\ k \in -1 .. Len(nav.wps) => Ahead(k, -1) \in -1 .. Len(nav.wps)
<1> DEFINE L == Len(nav.wps)
           S == {j \in 0 .. L : ~InRange(k + (-1) * j) \/ Mark(k + (-1) * j) # pos}
           m == Min(S)
<1>1. L \in Nat
  BY MarkType
<1>2. 0 \in S \/ L \in S
  BY <1>1 DEF InRange
<1>3. S \in SUBSET Nat /\ S # {}
  BY <1>1, <1>2
<1>4. m \in S /\ \A j \in S : m <= j
  BY <1>3, MinIsLeast
<1>5. Ahead(k, -1) = k + (-1) * m
  BY DEF Ahead
<1>6. \A j \in 0 .. L : j \notin S => InRange(k + (-1) * j)
  OBVIOUS
<1>7. m \in S => m \in 0 .. L
  OBVIOUS
<1> HIDE DEF S, m
<1>8. m \in Nat /\ m \in 0 .. L
  BY <1>1, <1>4, <1>7
<1>9. m # 0 => 0 <= k - (m - 1) /\ k - (m - 1) < L
  <2> SUFFICES ASSUME m # 0 PROVE 0 <= k - (m - 1) /\ k - (m - 1) < L
    OBVIOUS
  <2>1. m - 1 \in 0 .. L /\ m - 1 \notin S
    BY <1>1, <1>4, <1>8
  <2>2. InRange(k + (-1) * (m - 1))
    BY <1>6, <2>1
  <2>3. QED
    BY <1>1, <1>8, <2>2 DEF InRange
<1>10. k \in -1 .. L => k - m \in -1 .. L
  <2>1. CASE m = 0
    BY <2>1
  <2>2. CASE m # 0
    BY <1>1, <1>8, <1>9, <2>2
  <2>3. QED
    BY <2>1, <2>2
<1>11. QED
  BY <1>5, <1>8, <1>10
(* What the leg follower holds within a tick has its type throughout.      *)
LEMMA LegTypes ==
    ASSUME nav \in Route, leg \in LegMemory, pos \in Points
    PROVE  /\ LegBefore \in LegState /\ LegEntered \in LegState
           /\ \A r \in LegState : Turned(r) \in LegState
           /\ \A r \in LegState : InRange(r.active) => Advanced(r) \in LegState
<1>1. LegBefore \in LegState
  BY DEF LegBefore, LegState, LegMemory, Route
<1>2. ASSUME NEW r \in LegState PROVE Turned(r) \in LegState
  <2>1. /\ r.active \in Int /\ r.step \in {-1, 1} /\ -r.step \in {-1, 1}
        /\ r.active - 2 * r.step \in Int
    BY DEF LegState
  <2> DEFINE afresh == 1
  <2>a. afresh \in {-1, 1} /\ 0 \in Int
    OBVIOUS
  <2> HIDE DEF afresh
  <2>b. [r EXCEPT !.active = 0, !.step = afresh, !.start = pos] \in LegState
    BY <2>1, <2>a DEF LegState
  <2>2. [r EXCEPT !.active = 0, !.step = 1, !.start = pos] \in LegState
    BY <2>b DEF afresh
  <2>3. [r EXCEPT !.active = @ - 2 * r.step, !.step = -@, !.start = pos] \in LegState
    BY <2>1 DEF LegState
  <2>4. [r EXCEPT !.complete = TRUE] \in LegState
    BY DEF LegState
  <2>5. QED
    BY <2>2, <2>3, <2>4 DEF Turned, WrapOrBounce
<1>3. ASSUME NEW r \in LegState PROVE LegStarted(r) \in LegState
  BY DEF LegStarted, LegState
<1>4. LegEntered \in LegState
  BY <1>1, <1>2, <1>3 DEF LegEntered
<1>5. ASSUME NEW r \in LegState, InRange(r.active) PROVE Advanced(r) \in LegState
  <2>1. r.active \in Int /\ r.step \in {-1, 1} /\ r.active + r.step \in Int
    BY DEF LegState
  <2>2. Mark(r.active) \in Points
    BY <1>5, <2>1, MarkType
  <2>3. Ahead(r.active + r.step, r.step) \in Int
    BY <2>1, AheadOut, AheadBack
  <2> DEFINE stop == Ahead(r.active + r.step, r.step)
             from == IF stop = r.active + r.step THEN Mark(r.active) ELSE pos
  <2>4. Advanced(r) = [r EXCEPT !.active = stop, !.start = from]
    BY DEF Advanced
  <2>5. from \in Points /\ stop \in Int
    BY <2>2, <2>3
  <2> HIDE DEF stop, from
  <2>6. QED
    BY <2>4, <2>5 DEF LegState
<1>6. QED
  BY <1>1, <1>2, <1>4, <1>5

(* The update, taken apart.                                                *)
LEMMA LegUpdateCases ==
    ASSUME NEW abeam
    PROVE  \E r \in {LegEntered, Advanced(LegEntered)} :
             /\ r = Advanced(LegEntered) => InRange(LegEntered.active) \/ r = LegEntered
             /\ \/ /\ ~InRange(nav.active) /\ (Ends \/ ~InRange(LegEntered.active))
                   /\ LegUpdate(abeam) = [r |-> Turned(LegBefore), raised |-> ~Ends]
                \/ /\ InRange(nav.active) \/ (~Ends /\ InRange(LegEntered.active))
                   /\ LegUpdate(abeam) = [r |-> Turned(r),
                                          raised |-> ~InRange(Turned(r).active) /\ ~Ends]
<1> DEFINE r == IF InRange(LegEntered.active) /\ Arrived(LegEntered, abeam)
                THEN Advanced(LegEntered) ELSE LegEntered
<1>1. r \in {LegEntered, Advanced(LegEntered)}
  OBVIOUS
<1>2. r = Advanced(LegEntered) => InRange(LegEntered.active) \/ r = LegEntered
  OBVIOUS
<1>3. LegUpdate(abeam) =
        IF ~InRange(nav.active) /\ (Ends \/ ~InRange(LegEntered.active))
        THEN [r |-> Turned(LegBefore), raised |-> ~Ends]
        ELSE [r |-> Turned(r), raised |-> ~InRange(Turned(r).active) /\ ~Ends]
  BY DEF LegUpdate
<1> HIDE DEF r
<1>4. QED
  BY <1>1, <1>2, <1>3

LEMMA LegUpdateTypes ==
    ASSUME nav \in Route, leg \in LegMemory, pos \in Points, NEW abeam
    PROVE  LegUpdate(abeam).r \in LegState /\ LegUpdate(abeam).raised \in BOOLEAN
<1>1. PICK r \in {LegEntered, Advanced(LegEntered)} :
        /\ r = Advanced(LegEntered) => InRange(LegEntered.active) \/ r = LegEntered
        /\ \/ LegUpdate(abeam) = [r |-> Turned(LegBefore), raised |-> ~Ends]
           \/ LegUpdate(abeam) = [r |-> Turned(r),
                                  raised |-> ~InRange(Turned(r).active) /\ ~Ends]
  BY LegUpdateCases
<1>2. r \in LegState
  BY <1>1, LegTypes
<1>3. Turned(LegBefore) \in LegState /\ Turned(r) \in LegState
  BY <1>2, LegTypes
<1> DEFINE outside == ~Ends
           lost == ~InRange(Turned(r).active) /\ ~Ends
<1>4. outside \in BOOLEAN /\ lost \in BOOLEAN
  BY Zenon
<1>5. \/ LegUpdate(abeam) = [r |-> Turned(LegBefore), raised |-> outside]
      \/ LegUpdate(abeam) = [r |-> Turned(r), raised |-> lost]
  BY <1>1
<1> HIDE DEF outside, lost
<1>6. QED
  BY <1>3, <1>4, <1>5

(* The steps that share their parts with others.                           *)
Around ==
    /\ mobActive \in BOOLEAN /\ connected \subseteq Devices /\ rtl \in Threads
    /\ anchor \in Points /\ pos \in Points
Rest == Around /\ fault \in BOOLEAN /\ stopped \in BOOLEAN
        /\ task \in {"none", "arrive", "patrol"}
Following == mode \in Shapes /\ nav \in Route /\ leg \in LegMemory /\ path \in PathMemory
Kept == suspended = None \/ suspended \in Suspension

LEMMA TypeParts == RouteTypeOK <=> Rest /\ Following /\ Kept
BY DEF RouteTypeOK, Rest, Around, Following, Kept, LegMemory, PathMemory

LEMMA EngageTypes ==
    ASSUME NEW m \in Shapes, NEW n \in Route, pos \in Points, Following, Engage(m, n)
    PROVE  Following'
<1>1. mode' \in Shapes
  BY DEF Engage
<1>2. nav' \in Route
  <2>1. [n EXCEPT !.complete = FALSE] \in Route
    BY DEF Route
  <2>2. QED
    BY <2>1 DEF Engage
<1>3. leg' \in LegMemory
  BY DEF Engage, Following, LegMemory
<1>4. path' \in PathMemory
  BY DEF Engage, Following, PathMemory
<1>5. QED
  BY <1>1, <1>2, <1>3, <1>4 DEF Following

LEMMA FinishTypes ==
    ASSUME RouteTypeOK, NEW n \in Route, NEW l \in LegMemory, NEW p \in PathMemory,
           Finish(n, l, p), fault' \in BOOLEAN, UNCHANGED <<mobActive, connected, pos, rtl>>
    PROVE  RouteTypeOK'
<1> DEFINE act == IF Fires(n) THEN "none" ELSE n.onArrival
<1>1. act \in Arrivals
  BY DEF Route, Arrivals
<1>2. nav' = [n EXCEPT !.onArrival = act]
  BY DEF Finish
<1> HIDE DEF act
<1>3. nav' \in Route
  BY <1>1, <1>2 DEF Route
<1>4. Following'
  BY <1>3, TypeParts DEF Finish, Following, Shapes
<1>5. anchor' \in Points /\ pos' \in Points
  BY DEF RouteTypeOK, Finish
<1>6. stopped' \in BOOLEAN
  BY DEF RouteTypeOK, Finish
<1>7. task' \in {"none", "arrive", "patrol"}
  BY DEF RouteTypeOK, Finish
<1>8. Kept'
  BY DEF RouteTypeOK, Finish, Kept
<1>9. Rest'
  BY <1>5, <1>6, <1>7 DEF Rest, Around, RouteTypeOK
<1>10. QED
  BY <1>4, <1>8, <1>9 DEF RouteTypeOK, Rest, Around, Following, Kept, LegMemory, PathMemory
(* A progress hint of the path follower is a mark of the route.            *)
LEMMA PathActiveRange ==
    ASSUME nav \in Route, nav.wps # <<>>, NEW s \in Nat
    PROVE  PathActive(s) \in 0 .. Len(nav.wps) - 1
<1> DEFINE last == Len(nav.wps) - 1
           back == Max({0, s - 1})
           far == back + (IF PathStep(s) > 0 THEN 1 ELSE 0)
<1>1. last \in Nat
  BY MarkType
<1>2. back \in Nat
  BY MaxOfTwo
<1> HIDE DEF back
<1>3. far \in Nat
  BY <1>2
<1> HIDE DEF far, last
<1>4. Min({last, far}) \in 0 .. last
  BY <1>1, <1>3, MinOfTwo
<1>5. PathActive(s) = Min({last, far})
  BY DEF PathActive, last, far, back
<1>6. QED
  BY <1>4, <1>5 DEF last

(* What a tick of the path follower hands to Finish.                       *)
PathAfter(s) == [nav EXCEPT !.complete = @ \/ PathEnds(s),
                            !.active = IF PathEnds(s) THEN @ ELSE PathActive(s)]
PathAtMark == [nav EXCEPT !.complete = @ \/ pos = Mark(0)]

LEMMA PathFields ==
    ASSUME nav \in Route, nav.wps # <<>>, NEW s \in Nat
    PROVE  /\ PathAfter(s) \in Route /\ PathAtMark \in Route
           /\ PathAfter(s).active \in {nav.active, PathActive(s)}
           /\ PathAtMark.active = nav.active
           /\ \A f \in Fields \ {"complete", "active"} :
                PathAfter(s)[f] = nav[f] /\ PathAtMark[f] = nav[f]
<1>1. PathActive(s) \in Int
  BY PathActiveRange, MarkType
<1> DEFINE c == nav.complete \/ PathEnds(s)
           d == nav.complete \/ pos = Mark(0)
           k == IF PathEnds(s) THEN nav.active ELSE PathActive(s)
<1>2. c \in BOOLEAN /\ d \in BOOLEAN
  BY Zenon
<1>3. k \in Int /\ k \in {nav.active, PathActive(s)}
  BY <1>1 DEF Route
<1>4. PathAfter(s) = [nav EXCEPT !.complete = c, !.active = k]
  BY DEF PathAfter
<1>5. PathAtMark = [nav EXCEPT !.complete = d]
  BY DEF PathAtMark
<1> HIDE DEF c, d, k
<1>6. QED
  BY <1>2, <1>3, <1>4, <1>5 DEF Route, Fields

LEMMA TickTypes ==
    ASSUME RouteTypeOK, Tick
    PROVE  RouteTypeOK'
<1>a. /\ nav \in Route /\ leg \in LegMemory /\ path \in PathMemory
      /\ pos \in Points /\ mode \in Shapes
  BY DEF RouteTypeOK, LegMemory, PathMemory
<1>1. CASE \E abeam \in BOOLEAN : TickLeg(abeam)
  <2>1. PICK abeam \in BOOLEAN : TickLeg(abeam)
    BY <1>1
  <2> DEFINE u == LegUpdate(abeam)
             n == [nav EXCEPT !.active = u.r.active, !.complete = u.r.complete]
             l == [start |-> u.r.start, step |-> u.r.step]
  <2>2. u.r \in LegState /\ u.raised \in BOOLEAN
    BY <1>a, LegUpdateTypes
  <2>3. fault' = u.raised /\ UNCHANGED <<mobActive, connected, pos, rtl>>
    BY <2>1 DEF TickLeg
  <2>4. IF u.raised
        THEN nav' = n /\ leg' = l
             /\ UNCHANGED <<mode, path, anchor, suspended, stopped, task>>
        ELSE Finish(n, l, path)
    BY <2>1 DEF TickLeg
  <2> HIDE DEF u
  <2>5. n \in Route
    BY <1>a, <2>2 DEF Route, LegState
  <2>6. l \in LegMemory
    BY <2>2 DEF LegMemory, LegState
  <2> HIDE DEF n, l
  <2>7. CASE u.raised
    <3>1. nav' = n /\ leg' = l
          /\ UNCHANGED <<mode, path, anchor, suspended, stopped, task>>
      BY <2>4, <2>7
    <3>2. QED
      BY <2>2, <2>3, <2>5, <2>6, <3>1 DEF RouteTypeOK, LegMemory
  <2>8. CASE ~u.raised
    <3>1. Finish(n, l, path)
      BY <2>4, <2>8
    <3>2. QED
      BY <1>a, <2>2, <2>3, <2>5, <2>6, <3>1, FinishTypes
  <2>9. QED
    BY <2>7, <2>8
<1>2. CASE \E s \in 0 .. Len(nav.wps) : TickPath(s)
  <2>1. PICK s \in 0 .. Len(nav.wps) : TickPath(s)
    BY <1>2
  <2>2. s \in Nat /\ nav.wps # <<>>
    BY <1>a, <2>1, MarkType DEF TickPath, Ready
  <2>3. PathAfter(s) \in Route /\ PathAtMark \in Route
    BY <1>a, <2>2, PathFields
  <2>4. [cursor |-> s, step |-> PathStep(s)] \in PathMemory
    <3>1. path.step \in {-1, 1}
      BY <1>a DEF PathMemory
    <3>2. PathStep(s) \in {-1, 1}
      BY <3>1 DEF PathStep
    <3>3. QED
      BY <2>2, <3>2 DEF PathMemory
  <2>5. fault' \in BOOLEAN /\ UNCHANGED <<mobActive, connected, pos, rtl>>
    BY <2>1 DEF TickPath
  <2>6. \/ Finish(PathAtMark, leg, path) \/ Finish(nav, leg, path)
        \/ Finish(PathAfter(s), leg, [cursor |-> s, step |-> PathStep(s)])
    BY <2>1 DEF TickPath, PathAtMark, PathAfter
  <2>7. QED
    BY <1>a, <2>3, <2>4, <2>5, <2>6, FinishTypes
<1>3. CASE TickIdle
  BY <1>3 DEF TickIdle, RouteTypeOK
<1>4. QED
  BY <1>1, <1>2, <1>3 DEF Tick, TickOnCourse

(* The routes a command may engage.                                        *)
LEMMA CommandRoutes ==
    ASSUME nav \in Route
    PROVE  /\ \A w \in Seq(Places) : /\ NewRoute(w, nav) \in Route
                                     /\ [nav EXCEPT !.wps = w] \in Route
                                     /\ Loaded([nav EXCEPT !.wps = w]) \in Route
           /\ Loaded(nav) \in Route /\ FollowMode(nav) \in Shapes
           /\ \A e \in Edits : [nav EXCEPT !.wps = e.wps,
                                           !.active = Resumed(e.active, e.wps)] \in Route
<1> DEFINE first == 0
           off == FALSE
<1>a. first \in Int /\ off \in BOOLEAN
  OBVIOUS
<1>b. \A n : Loaded(n) = [n EXCEPT !.active = first, !.loop = off, !.patrol = off,
                                   !.follow = "leg"]
  BY DEF Loaded
<1>c. \A w, n : NewRoute(w, n) = [n EXCEPT !.wps = w, !.active = first]
  BY DEF NewRoute
<1> HIDE DEF first, off
<1>1. ASSUME NEW n \in Route PROVE Loaded(n) \in Route
  BY <1>a, <1>b DEF Route
<1>2. ASSUME NEW w \in Seq(Places)
      PROVE  NewRoute(w, nav) \in Route /\ [nav EXCEPT !.wps = w] \in Route
  BY <1>a, <1>c DEF Route
<1>3. ASSUME NEW e \in Edits
      PROVE  [nav EXCEPT !.wps = e.wps, !.active = Resumed(e.active, e.wps)] \in Route
  <2>1. e.wps \in Seq(Places) /\ e.active \in Int
    BY RouteAssumption
  <2>2. Len(e.wps) - 1 \in Int
    BY <2>1, LenProperties
  <2> DEFINE low == Min({e.active, Len(e.wps) - 1})
  <2>3. low \in Int
    BY <2>1, <2>2, MinOfTwo
  <2> HIDE DEF low
  <2>4. Max({0, low}) \in Int
    BY <2>3, MaxOfTwo
  <2>5. Resumed(e.active, e.wps) \in {0, Max({0, low})}
    BY DEF Resumed, low
  <2>6. Resumed(e.active, e.wps) \in Int
    BY <2>4, <2>5
  <2>7. QED
    BY <2>1, <2>6 DEF Route
<1>4. FollowMode(nav) \in Shapes
  BY DEF FollowMode, Shapes
<1>5. QED
  BY <1>1, <1>2, <1>3, <1>4
LEMMA TaskType ==
    ASSUME NEW n \in Route
    PROVE  TaskOf(n) \in {"none", "arrive", "patrol"}
<1>1. CASE n.loop \/ n.wps = <<>>
  BY <1>1 DEF TaskOf
<1>2. CASE ~n.loop /\ n.wps # <<>> /\ n.patrol /\ Len(n.wps) > 1
  BY <1>2 DEF TaskOf
<1>3. CASE ~n.loop /\ n.wps # <<>> /\ ~(n.patrol /\ Len(n.wps) > 1)
  BY <1>3 DEF TaskOf
<1>4. QED
  BY <1>1, <1>2, <1>3

LEMMA CommandTypes ==
    ASSUME RouteTypeOK, Command
    PROVE  RouteTypeOK'
<1>a. Following /\ Kept /\ Rest /\ nav \in Route /\ pos \in Points
  BY DEF RouteTypeOK, Following, Kept, Rest, Around, LegMemory, PathMemory
<1>b. Following' /\ Kept' /\ Rest' => RouteTypeOK'
  BY DEF RouteTypeOK, Following, Kept, Rest, Around, LegMemory, PathMemory
<1>c. "manual" \in Shapes /\ "anchor_hold" \in Shapes /\ "waypoint" \in Shapes
  BY DEF Shapes
<1>d. ASSUME UNCHANGED <<mobActive, fault, connected, pos, rtl>>, anchor' \in Points,
             stopped' \in {TRUE, FALSE, stopped}, task' \in {"none", "arrive", "patrol"}
      PROVE  Rest'
  BY <1>a, <1>d DEF Rest, Around
<1>e. ASSUME suspended' \in {None, suspended} PROVE Kept'
  BY <1>a, <1>e DEF Kept
<1>f. \A m \in Shapes, n \in Route : Engage(m, n) => Following'
  BY <1>a, EngageTypes
<1>1. CASE Stop
  <2>1. Following'
    BY <1>a, <1>c, <1>f, <1>1 DEF Stop
  <2>2. Rest'
    BY <1>a, <1>d, <1>1 DEF Stop, boatVars, Rest, Around
  <2>3. QED
    BY <1>b, <1>e, <1>1, <2>1, <2>2 DEF Stop
<1>2. CASE Manual
  <2>1. Following'
    BY <1>a, <1>c, <1>f, <1>2 DEF Manual
  <2>2. Rest'
    BY <1>a, <1>d, <1>2 DEF Manual, Ordered, boatVars, Rest, Around
  <2>3. QED
    BY <1>b, <1>e, <1>2, <2>1, <2>2 DEF Manual
<1>3. ASSUME NEW d \in Drops, AnchorHold(d) PROVE RouteTypeOK'
  <2>1. Following'
    BY <1>a, <1>c, <1>f, <1>3 DEF AnchorHold
  <2>2. anchor' \in Points
    BY <1>a, <1>3, RouteAssumption DEF AnchorHold, Rest, Around, Points
  <2>3. Rest'
    BY <1>d, <1>3, <2>2 DEF AnchorHold, Ordered
  <2>4. QED
    BY <1>b, <1>e, <1>3, <2>1, <2>3 DEF AnchorHold
<1>4. ASSUME NEW o \in Orders, Goto(o) PROVE RouteTypeOK'
  <2> DEFINE start == 0
             n == [wps |-> o.wps, active |-> start, onArrival |-> o.onArrival,
                   loop |-> o.loop, patrol |-> o.patrol, follow |-> o.follow,
                   complete |-> nav.complete]
  <2>1. o \in [wps : Seq(Places), onArrival : Arrivals, loop : BOOLEAN,
               patrol : BOOLEAN, follow : {"leg", "path"}]
    BY RouteAssumption
  <2>2. start \in Int /\ nav.complete \in BOOLEAN
    BY <1>a DEF Route
  <2>a. Engage(FollowMode(n), n) /\ Ordered(TaskOf(n))
        /\ UNCHANGED <<boatVars, suspended, mobActive, fault, rtl>>
    BY <1>4 DEF Goto
  <2> HIDE DEF start
  <2>3. n \in Route
    BY <2>1, <2>2 DEF Route
  <2> HIDE DEF n
  <2>4. FollowMode(n) \in Shapes
    BY DEF FollowMode, Shapes
  <2>5. Following'
    BY <1>f, <2>a, <2>3, <2>4
  <2>6. TaskOf(n) \in {"none", "arrive", "patrol"}
    BY <2>3, TaskType
  <2>7. Rest'
    BY <1>a, <1>d, <2>a, <2>6 DEF Ordered, boatVars, Rest, Around
  <2>8. QED
    BY <1>b, <1>e, <2>a, <2>5, <2>7
<1>5. ASSUME NEW e \in Edits, EditRoute(e) PROVE RouteTypeOK'
  <2> DEFINE n == [nav EXCEPT !.wps = e.wps, !.active = Resumed(e.active, e.wps)]
  <2>1. n \in Route /\ FollowMode(nav) \in Shapes
    BY <1>a, CommandRoutes
  <2>2. (nav' = n /\ UNCHANGED <<mode, leg, path>>) \/ Engage(FollowMode(nav), n)
    BY <1>5 DEF EditRoute
  <2> HIDE DEF n
  <2>3. Following'
    BY <1>a, <1>f, <2>1, <2>2 DEF Following
  <2>4. Rest'
    BY <1>a, <1>d, <1>5 DEF EditRoute, Ordered, boatVars, Rest, Around
  <2>5. QED
    BY <1>b, <1>e, <1>5, <2>3, <2>4 DEF EditRoute
<1>6. ASSUME NEW w \in Files, LoadRoute(w) PROVE RouteTypeOK'
  <2> DEFINE n == [nav EXCEPT !.wps = w]
  <2>1. n \in Route /\ Loaded(n) \in Route
    BY <1>a, CommandRoutes, RouteAssumption
  <2>2. (nav' = n /\ UNCHANGED <<mode, leg, path>>) \/ Engage("waypoint", Loaded(n))
    BY <1>6 DEF LoadRoute
  <2> HIDE DEF n
  <2>3. Following'
    BY <1>a, <1>c, <1>f, <2>1, <2>2 DEF Following
  <2>4. Rest'
    BY <1>a, <1>d, <1>6 DEF LoadRoute, boatVars, Rest, Around
  <2>5. QED
    BY <1>b, <1>e, <1>6, <2>3, <2>4 DEF LoadRoute
<1>7. ASSUME NEW w \in Tracks, Replay(w) PROVE RouteTypeOK'
  <2>1. NewRoute(w, nav) \in Route
    BY <1>a, CommandRoutes, RouteAssumption
  <2>2. Following'
    BY <1>c, <1>f, <1>7, <2>1 DEF Replay
  <2>3. Rest'
    BY <1>a, <1>d, <1>7 DEF Replay, Ordered, boatVars, Rest, Around
  <2>4. QED
    BY <1>b, <1>e, <1>7, <2>2, <2>3 DEF Replay
<1>8. CASE Mob
  <2>1. <<pos>> \in Seq(Places)
    BY <1>a, <1>8 DEF Mob, Points
  <2>2. NewRoute(<<pos>>, nav) \in Route
    BY <1>a, <2>1, CommandRoutes
  <2>3. [NewRoute(<<pos>>, nav) EXCEPT !.onArrival = "stop"] \in Route
    BY <2>2 DEF Route, Arrivals
  <2>4. Following'
    BY <1>c, <1>f, <1>8, <2>3 DEF Mob
  <2>5. Rest'
    BY <1>a, <1>8 DEF Mob, Ordered, boatVars, Rest, Around
  <2>6. QED
    BY <1>b, <1>e, <1>8, <2>4, <2>5 DEF Mob
<1>9. CASE MobClear
  BY <1>9 DEF MobClear, RouteTypeOK, boatVars, routeVars
<1>10. CASE Pause
  <2>1. Following'
    BY <1>a, <1>c, <1>f, <1>10 DEF Pause
  <2>2. anchor' \in Points
    BY <1>a, <1>10 DEF Pause, Rest, Around
  <2>3. Rest'
    BY <1>d, <1>10, <2>2 DEF Pause, Ordered
  <2>4. suspended' \in Suspension
    BY <1>a, <1>10 DEF Pause, Snapshot, Suspension, Following, Rest, Around
  <2>5. QED
    BY <1>b, <2>1, <2>3, <2>4 DEF Kept
<1>11. CASE Resume
  <2>1. suspended \in Suspension
    BY <1>a, <1>11 DEF Resume, Kept
  <2>2. suspended.mode \in Shapes /\ suspended.anchor \in Points /\ suspended.route \in Route
    BY <2>1 DEF Suspension
  <2>3. [suspended.route EXCEPT !.complete = nav.complete] \in Route
    BY <1>a, <2>2 DEF Route
  <2>4. Following'
    BY <1>f, <1>11, <2>2, <2>3 DEF Resume
  <2>5. Rest'
    BY <1>d, <1>11, <2>2 DEF Resume
  <2>6. QED
    BY <1>b, <1>e, <1>11, <2>4, <2>5 DEF Resume
<1>12. QED
  BY <1>1, <1>2, <1>3, <1>4, <1>5, <1>6, <1>7, <1>8, <1>9, <1>10, <1>11 DEF Command

LEMMA ReturnTypes ==
    ASSUME RouteTypeOK, RtlRequest \/ RtlStep
    PROVE  RouteTypeOK'
<1>a. Following /\ nav \in Route /\ pos \in Points /\ "waypoint" \in Shapes
  BY DEF RouteTypeOK, Following, LegMemory, PathMemory, Shapes
<1>1. UNCHANGED <<anchor, pos, connected, suspended, mobActive, fault>>
  BY DEF RtlRequest, RtlStep, RtlFails, RtlAssign, RtlReset, RtlEngage, RtlArrival, boatVars
<1>2. rtl' \in Threads
  BY DEF RtlRequest, RtlStep, RtlFails, RtlAssign, RtlReset, RtlEngage, RtlArrival, Threads
<1>3. stopped' \in {FALSE, stopped} /\ task' \in {"none", task}
  BY DEF RtlRequest, RtlStep, RtlFails, RtlAssign, RtlReset, RtlEngage, RtlArrival, Ordered
<1>4. Following'
  <2>1. CASE RtlRequest \/ RtlFails
    BY <1>a, <2>1 DEF RtlRequest, RtlFails, Following, routeVars
  <2>2. ASSUME NEW w \in Plans, RtlAssign(w) PROVE Following'
    <3>1. [nav EXCEPT !.wps = w] \in Route
      BY <1>a, CommandRoutes, RouteAssumption
    <3>2. QED
      BY <1>a, <2>2, <3>1 DEF RtlAssign, Following
  <2>3. CASE RtlReset
    BY <1>a, <2>3, CommandRoutes DEF RtlReset, Following
  <2>4. CASE RtlEngage
    BY <1>a, <2>4, CommandRoutes, EngageTypes DEF RtlEngage
  <2>5. CASE RtlArrival
    <3>1. [nav EXCEPT !.onArrival = "anchor"] \in Route
      BY <1>a DEF Route, Arrivals
    <3>2. QED
      BY <1>a, <2>5, <3>1 DEF RtlArrival, Following
  <2>6. QED
    BY <2>1, <2>2, <2>3, <2>4, <2>5 DEF RtlStep
<1>5. QED
  BY <1>1, <1>2, <1>3, <1>4 DEF RouteTypeOK, Following, LegMemory, PathMemory

LEMMA RouteTypeStep == RouteTypeOK /\ [Next]_vars => RouteTypeOK'
<1> SUFFICES ASSUME RouteTypeOK, [Next]_vars PROVE RouteTypeOK'
  OBVIOUS
<1>1. CASE Tick
  BY <1>1, TickTypes
<1>2. CASE Command
  BY <1>2, CommandTypes
<1>3. CASE RtlRequest \/ RtlStep
  BY <1>3, ReturnTypes
<1>4. CASE (\E p \in Places : Move(p)) \/ (\E c \in Connections : Reconnect(c))
           \/ UNCHANGED vars
  BY <1>4, RouteAssumption DEF Move, Moved, Reconnect, KeepHistory, RouteTypeOK, vars, routeVars,
                               Points
<1>5. QED
  BY <1>1, <1>2, <1>3, <1>4 DEF Next, Tick, TickOnCourse

(* The routes keep their types, whatever is ordered, edited, paused and    *)
(* planned: a suspended route is a route, and the followers' memories are  *)
(* those of followers.                                                     *)
THEOREM RouteTypeCorrect == Spec => []RouteTypeOK
<1>1. Init => RouteTypeOK
  <2> SUFFICES ASSUME Init PROVE RouteTypeOK
    OBVIOUS
  <2> DEFINE zero == 0
             no == FALSE
             one == 1
  <2>a. zero \in Int /\ zero \in Nat /\ no \in BOOLEAN /\ one \in {-1, 1} /\ <<>> \in Seq(Places)
    OBVIOUS
  <2>b. nav = [wps |-> <<>>, active |-> zero, onArrival |-> "none", loop |-> no,
               patrol |-> no, follow |-> "leg", complete |-> no]
        /\ leg = [start |-> None, step |-> one] /\ path = [cursor |-> zero, step |-> one]
        /\ mobActive = no /\ fault = no
    BY DEF Init, NoRoute
  <2> HIDE DEF zero, no, one
  <2>1. nav \in Route
    BY <2>a, <2>b DEF Route, Arrivals
  <2>2. leg \in [start : Points, step : {-1, 1}] /\ path \in [cursor : Nat, step : {-1, 1}]
    BY <2>a, <2>b DEF Points
  <2>3. mobActive \in BOOLEAN /\ fault \in BOOLEAN /\ stopped \in BOOLEAN
    BY <2>a, <2>b DEF Init
  <2>4. /\ mode \in Shapes /\ anchor \in Points /\ pos \in Points /\ suspended = None
        /\ connected \subseteq Devices /\ rtl \in Threads /\ task \in {"none", "arrive", "patrol"}
    BY RouteAssumption DEF Init, Shapes, Points, Threads
  <2>5. QED
    BY <2>1, <2>2, <2>3, <2>4 DEF RouteTypeOK
<1>2. QED
  BY <1>1, RouteTypeStep, PTL DEF Spec
-----------------------------------------------------------------------------
(* No tick reads outside the route.  An index off an end is left only by a *)
(* route that ends there: a loop or a patrol turns in the tick that takes  *)
(* it off, and a pause keeps the flags together with the index.            *)
EndsThere(n) == ~n.loop /\ ~(n.patrol /\ Len(n.wps) >= 2)
Stands(n) ==
    /\ n.active \in -1 .. Len(n.wps)
    /\ n.wps # <<>> /\ n.active \notin 0 .. Len(n.wps) - 1 => EndsThere(n)
PlaceInv ==
    /\ ~fault /\ Stands(nav)
    /\ suspended # None => Stands(suspended.route)
    /\ Files # {} => connected = Devices

(* A leg-by-leg tick of a route with marks, in which the follower is at k. *)
OnRoute(k) == k \in -1 .. Len(nav.wps) /\ (InRange(k) \/ Ends)

LEMMA LegStays ==
    ASSUME RouteTypeOK, Stands(nav), nav.wps # <<>>, NEW abeam
    PROVE  ~LegUpdate(abeam).raised /\ OnRoute(LegUpdate(abeam).r.active)
<1> DEFINE L == Len(nav.wps)
           u == LegUpdate(abeam)
<1>1. /\ nav \in Route /\ leg \in LegMemory /\ pos \in Points
      /\ L \in Nat /\ L # 0 /\ nav.active \in -1 .. L
  BY MarkType DEF RouteTypeOK, LegMemory, Stands
<1>2. /\ LegBefore \in LegState /\ LegEntered \in LegState
      /\ LegBefore.active = nav.active /\ LegBefore.step = leg.step
  BY <1>1, LegTypes DEF LegBefore
<1>3. InRange(nav.active) \/ Ends
  BY <1>1 DEF Stands, EndsThere, Ends, InRange
<1>4. PICK r \in {LegEntered, Advanced(LegEntered)} :
        /\ r = Advanced(LegEntered) => InRange(LegEntered.active) \/ r = LegEntered
        /\ \/ /\ ~InRange(nav.active) /\ (Ends \/ ~InRange(LegEntered.active))
              /\ u = [r |-> Turned(LegBefore), raised |-> ~Ends]
           \/ /\ InRange(nav.active) \/ (~Ends /\ InRange(LegEntered.active))
              /\ u = [r |-> Turned(r), raised |-> ~InRange(Turned(r).active) /\ ~Ends]
  BY LegUpdateCases
<1> HIDE DEF u
<1>5. ASSUME NEW t \in LegState, Ends, ~InRange(t.active)
      PROVE  Turned(t).active = t.active
  <2>1. Turned(t) = [t EXCEPT !.complete = TRUE]
    BY <1>5 DEF Turned, WrapOrBounce, Ends
  <2>2. QED
    BY <2>1 DEF LegState
<1>6. CASE ~InRange(nav.active)
  <2>1. Ends
    BY <1>3, <1>6
  <2>2. u = [r |-> Turned(LegBefore), raised |-> ~Ends]
    BY <1>4, <1>6, <2>1
  <2>3. Turned(LegBefore).active = nav.active
    BY <1>2, <1>5, <1>6, <2>1
  <2>4. u.r = Turned(LegBefore) /\ ~u.raised
    BY <2>1, <2>2
  <2>5. QED
    BY <1>1, <2>1, <2>3, <2>4 DEF OnRoute, u
<1>7. CASE InRange(nav.active)
  <2>1. u = [r |-> Turned(r), raised |-> ~InRange(Turned(r).active) /\ ~Ends]
    BY <1>4, <1>7
  <2>2. LegEntered.active = nav.active /\ LegEntered.step = leg.step
    <3>1. Turned(LegBefore) = LegBefore
      BY <1>2, <1>7 DEF Turned
    <3>2. LegStarted(LegBefore).active = nav.active /\ LegStarted(LegBefore).step = leg.step
      BY <1>2 DEF LegStarted, LegState
    <3>3. QED
      BY <3>1, <3>2 DEF LegEntered
  <2>3. r \in LegState
    BY <1>1, <1>2, <1>7, <2>2, LegTypes
  <2>4. /\ r.active \in -1 .. L
        /\ ~InRange(r.active) => r.active = IF r.step = 1 THEN L ELSE -1
    <3>1. nav.active \in 0 .. L - 1 /\ leg.step \in {-1, 1}
      BY <1>1, <1>7 DEF InRange, LegMemory
    <3>2. CASE r = LegEntered
      BY <1>7, <2>2, <3>1, <3>2
    <3>3. CASE r = Advanced(LegEntered)
      <4> DEFINE stop == Ahead(nav.active + leg.step, leg.step)
      <4>1. r.active = stop /\ r.step = leg.step
        BY <1>2, <2>2, <3>3 DEF Advanced, LegState
      <4>2. CASE leg.step = 1
        <5>1. nav.active + 1 \in -1 .. L /\ nav.active + 1 \in Int
          BY <1>1, <3>1
        <5>2. stop \in -1 .. L /\ nav.active + 1 <= stop
          BY <1>1, <4>2, <5>1, AheadOut
        <5> HIDE DEF stop
        <5>3. QED
          BY <1>1, <3>1, <4>1, <4>2, <5>2 DEF InRange
      <4>3. CASE leg.step = -1
        <5>1. nav.active + (-1) \in -1 .. L /\ nav.active + (-1) \in Int
          BY <1>1, <3>1
        <5>2. stop \in -1 .. L /\ stop <= nav.active + (-1)
          BY <1>1, <4>3, <5>1, AheadBack
        <5> HIDE DEF stop
        <5>3. QED
          BY <1>1, <3>1, <4>1, <4>3, <5>2 DEF InRange
      <4>4. QED
        BY <3>1, <4>2, <4>3
    <3>4. QED
      BY <1>4, <3>2, <3>3
  <2>5. OnRoute(Turned(r).active)
    <3>1. CASE InRange(r.active)
      BY <2>4, <3>1 DEF OnRoute, Turned
    <3>2. CASE ~InRange(r.active) /\ Ends
      BY <1>5, <2>3, <2>4, <3>2 DEF OnRoute
    <3>3. CASE ~InRange(r.active) /\ nav.loop
      <4>1. Turned(r).active = 0
        BY <2>3, <3>3 DEF Turned, WrapOrBounce, LegState
      <4>2. QED
        BY <1>1, <4>1 DEF OnRoute, InRange
    <3>4. CASE ~InRange(r.active) /\ ~Ends /\ ~nav.loop
      <4>1. Turned(r) = [r EXCEPT !.active = @ - 2 * r.step, !.step = -@, !.start = pos]
        BY <3>4 DEF Turned, WrapOrBounce
      <4>2. Turned(r).active = r.active - 2 * r.step
        BY <2>3, <4>1 DEF LegState
      <4>3. L >= 2
        BY <3>4 DEF Ends
      <4>4. r.step \in {-1, 1}
        BY <2>3 DEF LegState
      <4>5. CASE r.step = 1
        <5>1. Turned(r).active = L - 2
          BY <1>1, <2>4, <3>4, <4>2, <4>5
        <5>2. QED
          BY <1>1, <4>3, <5>1 DEF OnRoute, InRange
      <4>6. CASE r.step = -1
        <5>1. Turned(r).active = 1
          BY <1>1, <2>4, <3>4, <4>2, <4>6
        <5>2. QED
          BY <1>1, <4>3, <5>1 DEF OnRoute, InRange
      <4>7. QED
        BY <4>4, <4>5, <4>6
    <3>5. QED
      BY <3>1, <3>2, <3>3, <3>4
  <2>6. u.r = Turned(r) /\ ~u.raised
    BY <2>1, <2>5 DEF OnRoute
  <2>7. QED
    BY <2>5, <2>6 DEF u
<1>8. QED
  BY <1>6, <1>7
(* A route with the same marks and flags stands where the other does.      *)
LEMMA SameStands ==
    ASSUME NEW n, NEW m, m.wps = n.wps, m.loop = n.loop, m.patrol = n.patrol,
           m.active = n.active
    PROVE  Stands(n) => Stands(m)
BY DEF Stands, EndsThere

LEMMA OnRouteStands ==
    ASSUME nav \in Route, NEW m, m.wps = nav.wps, m.loop = nav.loop, m.patrol = nav.patrol,
           OnRoute(m.active)
    PROVE  Stands(m)
<1>1. Len(nav.wps) \in Nat
  BY MarkType
<1>2. QED
  BY <1>1 DEF Stands, EndsThere, OnRoute, InRange, Ends

(* A route at its first mark stands on it.                                 *)
LEMMA FreshStands ==
    ASSUME NEW m, m.wps \in Seq(Places), m.active = 0
    PROVE  Stands(m)
<1>1. Len(m.wps) \in Nat /\ (m.wps # <<>> => Len(m.wps) # 0)
  BY LenProperties, EmptySeq
<1>2. QED
  BY <1>1 DEF Stands

LEMMA EngageStands ==
    ASSUME NEW m, NEW n \in Route, Engage(m, n), Stands(n)
    PROVE  Stands(nav')
<1>1. nav' \in {n, [n EXCEPT !.complete = FALSE]}
  BY DEF Engage
<1>2. /\ nav'.wps = n.wps /\ nav'.loop = n.loop /\ nav'.patrol = n.patrol
      /\ nav'.active = n.active
  BY <1>1 DEF Route
<1>3. QED
  BY <1>2, SameStands

LEMMA FinishStands ==
    ASSUME NEW n \in Route, NEW l, NEW p, Finish(n, l, p), Stands(n)
    PROVE  Stands(nav') /\ (suspended' # None => suspended' = suspended)
<1> DEFINE act == IF Fires(n) THEN "none" ELSE n.onArrival
<1>1. nav' = [n EXCEPT !.onArrival = act]
  BY DEF Finish
<1> HIDE DEF act
<1>2. /\ nav'.wps = n.wps /\ nav'.loop = n.loop /\ nav'.patrol = n.patrol
      /\ nav'.active = n.active
  BY <1>1 DEF Route
<1>3. QED
  BY <1>2, SameStands DEF Finish

LEMMA TickStands ==
    ASSUME RouteTypeOK, PlaceInv, Tick
    PROVE  PlaceInv'
<1>a. nav \in Route /\ leg \in LegMemory
  BY DEF RouteTypeOK, LegMemory
<1>b. connected' = connected
  BY DEF Tick, TickOnCourse, TickLeg, TickPath, TickIdle
<1>c. ASSUME ~fault', Stands(nav'), suspended' # None => suspended' = suspended
      PROVE  PlaceInv'
  BY <1>b, <1>c DEF PlaceInv
<1>1. CASE \E abeam \in BOOLEAN : TickLeg(abeam)
  <2>1. PICK abeam \in BOOLEAN : TickLeg(abeam)
    BY <1>1
  <2> DEFINE u == LegUpdate(abeam)
             n == [nav EXCEPT !.active = u.r.active, !.complete = u.r.complete]
             l == [start |-> u.r.start, step |-> u.r.step]
  <2>2. pos \in Points /\ nav.wps # <<>> /\ Stands(nav)
    BY <2>1 DEF TickLeg, Ready, RouteTypeOK, PlaceInv
  <2>3. u.r \in LegState /\ ~u.raised /\ OnRoute(u.r.active)
    BY <1>a, <2>2, LegUpdateTypes, LegStays
  <2>4. fault' = u.raised /\ (~u.raised => Finish(n, l, path))
    BY <2>1 DEF TickLeg
  <2> HIDE DEF u
  <2>5. n \in Route
    BY <1>a, <2>3 DEF Route, LegState
  <2>6. /\ n.wps = nav.wps /\ n.loop = nav.loop /\ n.patrol = nav.patrol
        /\ n.active = u.r.active
    BY <1>a DEF Route
  <2> HIDE DEF n, l
  <2>7. Stands(n)
    BY <1>a, <2>3, <2>6, OnRouteStands
  <2>8. QED
    BY <1>c, <2>3, <2>4, <2>5, <2>7, FinishStands
<1>2. CASE \E s \in 0 .. Len(nav.wps) : TickPath(s)
  <2>1. PICK s \in 0 .. Len(nav.wps) : TickPath(s)
    BY <1>2
  <2>2. s \in Nat /\ nav.wps # <<>> /\ Len(nav.wps) \in Nat /\ Len(nav.wps) # 0
    BY <1>a, <2>1, MarkType DEF TickPath, Ready
  <2>3. /\ PathAfter(s) \in Route /\ PathAtMark \in Route
        /\ PathAfter(s).active \in {nav.active, PathActive(s)}
        /\ PathAtMark.active = nav.active
        /\ \A f \in Fields \ {"complete", "active"} :
             PathAfter(s)[f] = nav[f] /\ PathAtMark[f] = nav[f]
    BY <1>a, <2>2, PathFields
  <2>4. /\ PathAfter(s).wps = nav.wps /\ PathAtMark.wps = nav.wps
        /\ PathAfter(s).loop = nav.loop /\ PathAtMark.loop = nav.loop
        /\ PathAfter(s).patrol = nav.patrol /\ PathAtMark.patrol = nav.patrol
    BY <2>3 DEF Fields
  <2>5. OnRoute(PathActive(s))
    <3>1. PathActive(s) \in 0 .. Len(nav.wps) - 1
      BY <1>a, <2>2, PathActiveRange
    <3>2. QED
      BY <2>2, <3>1 DEF OnRoute, InRange
  <2>6. Stands(nav)
    BY DEF PlaceInv
  <2>7. Stands(PathAtMark)
    BY <2>3, <2>4, <2>6, SameStands
  <2>8. Stands(PathAfter(s))
    BY <1>a, <2>3, <2>4, <2>5, <2>6, SameStands, OnRouteStands
  <2>9. \/ Finish(PathAtMark, leg, path) \/ Finish(nav, leg, path)
        \/ Finish(PathAfter(s), leg, [cursor |-> s, step |-> PathStep(s)])
    BY <2>1 DEF TickPath, PathAtMark, PathAfter
  <2>10. ~fault'
    BY <2>1 DEF TickPath
  <2>11. QED
    BY <1>a, <1>c, <2>3, <2>6, <2>7, <2>8, <2>9, <2>10, FinishStands
<1>3. CASE TickIdle
  BY <1>3 DEF TickIdle, PlaceInv
<1>4. QED
  BY <1>1, <1>2, <1>3 DEF Tick, TickOnCourse

(* An edit keeps the follower on a mark, however short the route becomes.  *)
LEMMA ResumedRange ==
    ASSUME NEW w \in Seq(Places), NEW k \in Int
    PROVE  w # <<>> => Resumed(k, w) \in 0 .. Len(w) - 1
<1> SUFFICES ASSUME w # <<>> PROVE Resumed(k, w) \in 0 .. Len(w) - 1
  OBVIOUS
<1> DEFINE last == Len(w) - 1
           low == Min({k, last})
<1>1. last \in Nat
  BY LenProperties, EmptySeq
<1>2. Resumed(k, w) = Max({0, low})
  BY DEF Resumed
<1> HIDE DEF last
<1>3. low \in Int /\ low <= last
  BY <1>1, MinOfTwo
<1> HIDE DEF low
<1>4. Max({0, low}) \in 0 .. last
  BY <1>1, <1>3, MaxOfTwo
<1>5. QED
  BY <1>2, <1>4 DEF last

LEMMA CommandStands ==
    ASSUME RouteTypeOK, PlaceInv, Command, Files = {} \/ Connections = {Devices}
    PROVE  PlaceInv'
<1>a. nav \in Route /\ ~fault /\ Stands(nav) /\ nav.wps \in Seq(Places)
  BY DEF RouteTypeOK, PlaceInv, Route
<1>b. fault' = fault /\ connected' = connected
  BY DEF Command, Stop, Manual, Mob, MobClear, Pause, Resume, AnchorHold, Goto, EditRoute,
         LoadRoute, Replay, boatVars
<1>c. ASSUME Stands(nav'), suspended' # None => suspended' = suspended
      PROVE  PlaceInv'
  BY <1>a, <1>b, <1>c DEF PlaceInv
<1>d. \A m : Engage(m, nav) => Stands(nav')
  BY <1>a, EngageStands
<1>1. CASE Stop \/ Manual \/ (\E d \in Drops : AnchorHold(d))
  <2>1. (\E m : Engage(m, nav)) /\ suspended' \in {suspended, None}
    BY <1>1 DEF Stop, Manual, AnchorHold
  <2>2. QED
    BY <1>c, <1>d, <2>1
<1>2. ASSUME NEW o \in Orders, Goto(o) PROVE PlaceInv'
  <2> DEFINE start == 0
             n == [wps |-> o.wps, active |-> start, onArrival |-> o.onArrival,
                   loop |-> o.loop, patrol |-> o.patrol, follow |-> o.follow,
                   complete |-> nav.complete]
  <2>1. o \in [wps : Seq(Places), onArrival : Arrivals, loop : BOOLEAN,
               patrol : BOOLEAN, follow : {"leg", "path"}]
    BY RouteAssumption
  <2>2. start \in Int /\ start = 0 /\ nav.complete \in BOOLEAN
    BY <1>a DEF Route
  <2>3. Engage(FollowMode(n), n) /\ suspended' = suspended
    BY <1>2 DEF Goto
  <2> HIDE DEF start
  <2>4. n \in Route
    BY <2>1, <2>2 DEF Route
  <2>5. n.wps \in Seq(Places) /\ n.active = 0
    BY <2>1, <2>2
  <2> HIDE DEF n
  <2>6. Stands(nav')
    BY <2>3, <2>4, <2>5, FreshStands, EngageStands
  <2>7. QED
    BY <1>c, <2>3, <2>6
<1>3. ASSUME NEW e \in Edits, EditRoute(e) PROVE PlaceInv'
  <2> DEFINE n == [nav EXCEPT !.wps = e.wps, !.active = Resumed(e.active, e.wps)]
  <2>1. n \in Route /\ e.wps \in Seq(Places) /\ e.active \in Int
    BY <1>a, CommandRoutes, RouteAssumption
  <2>2. (nav' = n \/ Engage(FollowMode(nav), n)) /\ suspended' = suspended
    BY <1>3 DEF EditRoute
  <2>3. n.wps = e.wps /\ n.active = Resumed(e.active, e.wps)
    BY <1>a DEF Route
  <2> HIDE DEF n
  <2>4. Stands(n)
    <3>1. CASE e.wps = <<>>
      <4>1. n.active = 0
        BY <2>3, <3>1 DEF Resumed
      <4>2. QED
        BY <2>1, <2>3, <4>1, FreshStands
    <3>2. CASE e.wps # <<>>
      <4>1. n.active \in 0 .. Len(n.wps) - 1
        BY <2>1, <2>3, <3>2, ResumedRange
      <4>2. Len(n.wps) \in Nat
        BY <2>1, <2>3, LenProperties
      <4>3. QED
        BY <4>1, <4>2 DEF Stands
    <3>3. QED
      BY <3>1, <3>2
  <2>5. Stands(nav')
    BY <2>1, <2>2, <2>4, EngageStands
  <2>6. QED
    BY <1>c, <2>2, <2>5
<1>4. ASSUME NEW w \in Files, LoadRoute(w) PROVE PlaceInv'
  <2> DEFINE n == [nav EXCEPT !.wps = w]
  <2>1. Allowed("waypoint")
    BY <1>4 DEF PlaceInv, Allowed
  <2>2. Engage("waypoint", Loaded(n)) /\ suspended' = suspended
    BY <1>4, <2>1 DEF LoadRoute
  <2>3. Loaded(n) \in Route /\ w \in Seq(Places)
    BY <1>a, CommandRoutes, RouteAssumption
  <2>4. Loaded(n).wps = w /\ Loaded(n).active = 0
    BY <1>a DEF Loaded, Route
  <2> HIDE DEF n
  <2>5. Stands(nav')
    BY <2>2, <2>3, <2>4, FreshStands, EngageStands
  <2>6. QED
    BY <1>c, <2>2, <2>5
<1>5. ASSUME NEW w \in Tracks, Replay(w) PROVE PlaceInv'
  <2>1. NewRoute(w, nav) \in Route /\ w \in Seq(Places)
    BY <1>a, CommandRoutes, RouteAssumption
  <2>2. NewRoute(w, nav).wps = w /\ NewRoute(w, nav).active = 0
    BY <1>a DEF NewRoute, Route
  <2>3. Engage("waypoint", NewRoute(w, nav)) /\ suspended' = suspended
    BY <1>5 DEF Replay
  <2>4. QED
    BY <1>c, <2>1, <2>2, <2>3, FreshStands, EngageStands
<1>6. CASE Mob
  <2> DEFINE n == [NewRoute(<<pos>>, nav) EXCEPT !.onArrival = "stop"]
  <2>1. <<pos>> \in Seq(Places)
    BY <1>6 DEF Mob, RouteTypeOK, Points
  <2>2. NewRoute(<<pos>>, nav) \in Route
    BY <1>a, <2>1, CommandRoutes
  <2>3. n \in Route
    BY <2>2 DEF Route, Arrivals
  <2>4. n.wps = <<pos>> /\ n.active = 0
    BY <1>a DEF NewRoute, Route
  <2>5. Engage("waypoint", n) /\ suspended' = suspended
    BY <1>6 DEF Mob
  <2> HIDE DEF n
  <2>6. QED
    BY <1>c, <2>1, <2>3, <2>4, <2>5, FreshStands, EngageStands
<1>7. CASE MobClear
  BY <1>7, <1>a, <1>c DEF MobClear, routeVars
<1>8. CASE Pause
  <2>1. suspended'.route = nav /\ Engage("anchor_hold", nav)
    BY <1>8 DEF Pause, Snapshot
  <2>2. QED
    BY <1>a, <1>b, <1>d, <2>1 DEF PlaceInv
<1>9. CASE Resume
  <2> DEFINE n == [suspended.route EXCEPT !.complete = nav.complete]
  <2>1. suspended.route \in Route /\ Stands(suspended.route)
    BY <1>9 DEF Resume, RouteTypeOK, Suspension, PlaceInv
  <2>2. n \in Route
    BY <1>a, <2>1 DEF Route
  <2>3. /\ n.wps = suspended.route.wps /\ n.active = suspended.route.active
        /\ n.loop = suspended.route.loop /\ n.patrol = suspended.route.patrol
    BY <2>1 DEF Route
  <2>4. Engage(suspended.mode, n) /\ suspended' = None
    BY <1>9 DEF Resume
  <2> HIDE DEF n
  <2>5. Stands(n)
    BY <2>1, <2>3, SameStands
  <2>6. QED
    BY <1>c, <2>2, <2>4, <2>5, EngageStands
<1>10. QED
  BY <1>1, <1>2, <1>3, <1>4, <1>5, <1>6, <1>7, <1>8, <1>9 DEF Command

(* Loops, patrols, edits that shorten the route under the boat, pauses and *)
(* resumes: no tick of WaypointMode or PathTrackMode reads a mark outside  *)
(* the route.  A plan that lands, or a file loaded without the devices a   *)
(* route needs, writes the marks and not the index; without them it holds  *)
(* for every route.                                                        *)
THEOREM NoRouteFaultHolds ==
    ASSUME Plans = {}, Files = {} \/ Connections = {Devices}
    PROVE  Spec => []NoRouteFault
<1>1. Init => Idle /\ PlaceInv
  <2> SUFFICES ASSUME Init PROVE Idle /\ PlaceInv
    OBVIOUS
  <2>1. nav.wps = <<>> /\ nav.active = 0 /\ ~fault /\ suspended = None /\ rtl = "idle"
    BY DEF Init, NoRoute
  <2>2. Stands(nav)
    <3>1. nav.wps \in Seq(Places)
      BY <2>1
    <3>2. QED
      BY <2>1, <3>1, FreshStands
  <2>3. Files # {} => connected = Devices
    BY DEF Init
  <2>4. QED
    BY <2>1, <2>2, <2>3 DEF Idle, PlaceInv
<1>2. RouteTypeOK /\ Idle /\ PlaceInv /\ [Next]_vars => (Idle /\ PlaceInv)'
  <2> SUFFICES ASSUME RouteTypeOK, Idle, PlaceInv, [Next]_vars PROVE (Idle /\ PlaceInv)'
    OBVIOUS
  <2>1. Idle'
    BY IdleStep
  <2>2. CASE Tick
    BY <2>1, <2>2, TickStands
  <2>3. CASE Command
    BY <2>1, <2>3, CommandStands
  <2>4. CASE \/ RtlRequest \/ RtlStep
             \/ \E p \in Places : Move(p)
             \/ \E c \in Connections : Reconnect(c)
             \/ UNCHANGED vars
    <3>1. UNCHANGED <<nav, suspended, fault>>
      BY <2>4 DEF RtlRequest, RtlStep, RtlFails, RtlReset, RtlEngage, RtlArrival, Idle,
                  Move, Moved, Reconnect, vars, routeVars
    <3>2. connected' = connected \/ (connected' \in Connections)
      BY <2>4 DEF RtlRequest, RtlStep, RtlFails, RtlReset, RtlEngage, RtlArrival, Idle,
                  Move, Moved, Reconnect, vars, boatVars
    <3>3. QED
      BY <2>1, <3>1, <3>2 DEF PlaceInv
  <2>5. QED
    BY <2>2, <2>3, <2>4 DEF Next, Tick, TickOnCourse
<1>3. PlaceInv => NoRouteFault
  BY DEF PlaceInv, Stands, NoRouteFault
<1>4. QED
  BY <1>1, <1>2, <1>3, RouteTypeCorrect, PTL DEF Spec
-----------------------------------------------------------------------------
(* A pause keeps where the route stood, whatever runs until the resume.    *)
PausedInv ==
    suspended # None => left = <<suspended.route.wps, suspended.route.active>>

(* Whatever was ordered, edited, followed or planned since the pause, a    *)
(* resumed leg-by-leg route makes for the mark it was making for           *)
(* (_pause_nav, _resume_nav), for every route and every plan.              *)
THEOREM ResumeRestoresHolds == Spec => ResumeRestores
<1> DEFINE Restores == (suspended # None /\ suspended' = None /\ mode' = "waypoint")
                          => Standing' = left
<1>1. Init => PausedInv
  BY DEF Init, PausedInv
<1>a. ASSUME [Next]_vars
      PROVE  \/ Pause \/ Resume
             \/ /\ suspended' = suspended /\ left' = left
             \/ suspended' = None /\ mode' = "manual"
  <2>1. ASSUME NEW n, NEW l, NEW p, Finish(n, l, p)
        PROVE  suspended' = suspended \/ (suspended' = None /\ mode' = "manual")
    <3>1. CASE Fires(n) /\ n.onArrival = "stop"
      <4>1. ~(n.onArrival = "anchor")
        BY <3>1
      <4>2. QED
        BY <2>1, <3>1, <4>1 DEF Finish
    <3>2. CASE ~(Fires(n) /\ n.onArrival = "stop")
      BY <2>1, <3>2 DEF Finish
    <3>3. QED
      BY <3>1, <3>2
  <2>2. ASSUME NEW abeam \in BOOLEAN, TickLeg(abeam)
        PROVE  left' = left /\ (suspended' = suspended \/ (suspended' = None /\ mode' = "manual"))
    <3> DEFINE u == LegUpdate(abeam)
               n == [nav EXCEPT !.active = u.r.active, !.complete = u.r.complete]
               l == [start |-> u.r.start, step |-> u.r.step]
    <3>1. left' = left /\ (suspended' = suspended \/ Finish(n, l, path))
      BY <2>2 DEF TickLeg
    <3>2. QED
      BY <2>1, <3>1
  <2>3. ASSUME NEW s \in 0 .. Len(nav.wps), TickPath(s)
        PROVE  left' = left /\ (suspended' = suspended \/ (suspended' = None /\ mode' = "manual"))
    <3>1. left' = left /\ \E n, l, p : Finish(n, l, p)
      BY <2>3 DEF TickPath
    <3>2. QED
      BY <2>1, <3>1
  <2>a. CASE Stop
    BY <2>a DEF Stop, Engage
  <2>4. CASE \/ Manual \/ Mob \/ MobClear \/ (\E d \in Drops : AnchorHold(d))
             \/ (\E o \in Orders : Goto(o)) \/ (\E e \in Edits : EditRoute(e))
             \/ (\E w \in Files : LoadRoute(w)) \/ (\E w \in Tracks : Replay(w))
    <3>1. UNCHANGED <<suspended, left>>
      BY <2>4 DEF Manual, Mob, MobClear, AnchorHold, Goto, EditRoute, LoadRoute, Replay
    <3>2. QED
      BY <3>1
  <2>5. CASE \/ TickIdle \/ RtlRequest \/ RtlStep
             \/ \E p \in Places : Move(p)
             \/ \E c \in Connections : Reconnect(c)
             \/ UNCHANGED vars
    BY <2>5 DEF TickIdle, RtlRequest, RtlStep, RtlFails, RtlAssign, RtlReset, RtlEngage,
                RtlArrival, Move, Moved, Reconnect, KeepHistory, vars
  <2>6. CASE Command
    BY <2>a, <2>4, <2>6 DEF Command
  <2>7. CASE (\E abeam \in BOOLEAN : TickLeg(abeam)) \/ (\E s \in 0 .. Len(nav.wps) : TickPath(s))
    BY <2>2, <2>3, <2>7
  <2>8. QED
    BY <1>a, <2>5, <2>6, <2>7 DEF Next
<1>2. PausedInv /\ [Next]_vars => PausedInv'
  <2> SUFFICES ASSUME PausedInv, [Next]_vars PROVE PausedInv'
    OBVIOUS
  <2>1. CASE Pause
    <3>1. suspended'.route = nav /\ left' = <<nav.wps, nav.active>>
      BY <2>1 DEF Pause, Snapshot, Standing
    <3>2. QED
      BY <3>1 DEF PausedInv
  <2>2. CASE Resume
    BY <2>2 DEF Resume, PausedInv
  <2>3. CASE (suspended' = suspended /\ left' = left) \/ suspended' = None
    BY <2>3 DEF PausedInv
  <2>4. QED
    BY <1>a, <2>1, <2>2, <2>3
<1>3. RouteTypeOK /\ PausedInv /\ [Next]_vars => [Restores]_vars
  <2> SUFFICES ASSUME RouteTypeOK, PausedInv, [Next]_vars, suspended # None,
                      suspended' = None, mode' = "waypoint"
               PROVE  Standing' = left
    OBVIOUS
  <2>1. ~Pause
    BY DEF Pause, Engage
  <2>2. Resume
    BY <1>a, <2>1
  <2>3. suspended.route \in Route
    BY DEF RouteTypeOK, Suspension
  <2> DEFINE n == [suspended.route EXCEPT !.complete = nav.complete]
  <2>4. n.wps = suspended.route.wps /\ n.active = suspended.route.active /\ DOMAIN n = Fields
    BY <2>3 DEF Route, Fields
  <2>5. Engage(suspended.mode, n)
    BY <2>2 DEF Resume
  <2> HIDE DEF n
  <2>6. nav' = [n EXCEPT !.complete = FALSE]
    BY <2>5 DEF Engage, Follow
  <2>7. nav'.wps = n.wps /\ nav'.active = n.active
    BY <2>4, <2>6 DEF Fields
  <2>8. QED
    BY <2>4, <2>7 DEF PausedInv, Standing
<1>4. QED
  BY <1>1, <1>2, <1>3, RouteTypeCorrect, PTL DEF Spec, ResumeRestores
=============================================================================
