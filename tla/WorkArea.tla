------------------------------ MODULE WorkArea ------------------------------
(***************************************************************************)
(* The Work Area mode of controller/modes.py: the boat travels to a spot,  *)
(* holds there until the operator asks for the next spot or a dwell is     *)
(* over, and goes on, round a loop, to and fro on a patrol, or to the last *)
(* spot.  Spots are numbered; no two are within an arrival radius.         *)
(***************************************************************************)
EXTENDS Integers, FiniteSets

CONSTANTS
    SpotCounts,    \* how many spots an order may have
    Dwell          \* dwell_s, in ticks

ASSUME WorkAssumption == SpotCounts \subseteq Nat /\ SpotCounts # {} /\ Dwell \in Nat

VARIABLES
    work,          \* the order: how many spots, which course, timed or manual
    inWork,        \* the mode is work_area
    spot,          \* state.active_waypoint
    phase,         \* "travel" or "hold"
    way,           \* _step
    dwelt,         \* _dwell_elapsed
    finished,      \* state.route_complete
    nextAsked,     \* state.work_next_requested
    place,         \* the spot the boat is at while it works them, or Between
    paused         \* suspended: the list, its course and the spot, if of this mode

workVars == <<work, inWork, spot, phase, way, dwelt, finished, nextAsked, place, paused>>

Courses == {"once", "loop", "patrol"}
Between == -1
Spots == 0 .. work.spots - 1
NotPaused == [spots |-> 0, course |-> "none", spot |-> 0]

WorkInit ==
    /\ work = [spots |-> 0, course |-> "once", timed |-> FALSE]
    /\ inWork = FALSE /\ spot = 0 /\ phase = "travel" /\ way = 1 /\ dwelt = 0
    /\ finished = FALSE /\ nextAsked = FALSE /\ place = Between /\ paused = NotPaused

(* set_mode(work_area).  If the boat is at one of the spots, BoatMoves next*)
(* says so.                                                                *)
Activate ==
    /\ inWork' = TRUE /\ phase' = "travel" /\ way' = 1 /\ dwelt' = 0 /\ place' = Between
    /\ finished' = FALSE /\ nextAsked' = FALSE

WorkOrder(n, course, timed) ==
    /\ work' = [spots |-> n, course |-> course, timed |-> timed]
    /\ spot' = 0 /\ Activate
    /\ UNCHANGED paused

NextSpot ==
    /\ nextAsked' = TRUE
    /\ UNCHANGED <<work, inWork, spot, phase, way, dwelt, finished, place, paused>>

(* pause_nav keeps the list and holds here; resume_nav brings both back and*)
(* engages the mode anew, at the spot it was bound for.  What advances it  *)
(* is a setting and stays as it is.                                        *)
PauseWork ==
    /\ inWork /\ inWork' = FALSE /\ place' = Between
    /\ paused' = [spots |-> work.spots, course |-> work.course, spot |-> spot]
    /\ UNCHANGED <<work, spot, phase, way, dwelt, finished, nextAsked>>
ResumeWork ==
    /\ paused # NotPaused /\ paused' = NotPaused
    /\ work' = [spots |-> paused.spots, course |-> paused.course, timed |-> work.timed]
    /\ spot' = paused.spot /\ Activate
(* Any order for another mode.  A stop forgets what was paused, and so does*)
(* a pause in that mode.                                                   *)
LeaveWork ==
    /\ inWork' = FALSE /\ paused' \in {paused, NotPaused} /\ place' = Between
    /\ inWork \/ paused' # paused
    /\ UNCHANGED <<work, spot, phase, way, dwelt, finished, nextAsked>>

(* _wrap_or_bounce, from a spot off an end of the list.                    *)
BouncedOnce(k) == \* mutant: to the end itself, which was just worked
    CASE work.course = "loop" -> [spot |-> 0, way |-> 1, over |-> FALSE]
      [] work.course = "patrol" /\ work.spots >= 2 ->
            [spot |-> k - way, way |-> way, over |-> FALSE]
      [] OTHER -> [spot |-> k, way |-> way, over |-> TRUE]
Bounced(k) ==
    CASE work.course = "loop" -> [spot |-> 0, way |-> 1, over |-> FALSE]
      [] work.course = "patrol" /\ work.spots >= 2 ->
            [spot |-> k - 2 * way, way |-> -way, over |-> FALSE]
      [] OTHER -> [spot |-> k, way |-> way, over |-> TRUE]

(* Where an advance leads; past the last spot of a course run once, the    *)
(* boat goes on holding there.                                             *)
Advance ==
    LET b == IF spot + way \in Spots THEN [spot |-> spot + way, way |-> way, over |-> FALSE]
             ELSE Bounced(spot + way)
    IN IF b.over THEN [b EXCEPT !.spot = IF way > 0 THEN work.spots - 1 ELSE 0] ELSE b

WantsAdvance == nextAsked \/ (work.timed /\ dwelt + 1 >= Dwell)

HoldTick ==
    /\ inWork /\ work.spots > 0 /\ phase = "hold"
    /\ nextAsked' = FALSE
    /\ IF WantsAdvance /\ ~finished
       THEN /\ spot' = Advance.spot /\ way' = Advance.way /\ finished' = Advance.over
            /\ phase' = (IF Advance.over THEN "hold" ELSE "travel")
            /\ dwelt' = (IF Advance.over THEN dwelt ELSE 0)
       ELSE dwelt' = (IF dwelt < Dwell THEN dwelt + 1 ELSE dwelt)
            /\ UNCHANGED <<spot, way, finished, phase>>
    /\ UNCHANGED <<work, inWork, place, paused>>

(* Arrival: the press of a button that came on the way is still pending.   *)
Arrive ==
    /\ inWork /\ work.spots > 0 /\ phase = "travel" /\ place = spot
    /\ phase' = "hold" /\ dwelt' = 0
    /\ UNCHANGED <<work, inWork, spot, way, finished, nextAsked, place, paused>>

BoatMoves(p) ==
    /\ inWork /\ p # place /\ place' = p
    /\ UNCHANGED <<work, inWork, spot, phase, way, dwelt, finished, nextAsked, paused>>

WorkCommand ==
    \/ \E n \in SpotCounts, c \in Courses, timed \in BOOLEAN : WorkOrder(n, c, timed)
    \/ NextSpot \/ PauseWork \/ ResumeWork \/ LeaveWork

WorkNext ==
    \/ WorkCommand \/ HoldTick \/ Arrive
    \/ \E p \in Spots \cup {Between} : BoatMoves(p)

WorkSpec == WorkInit /\ [][WorkNext]_workVars

(* The control loop ticks for ever, and a boat that travels gets to the    *)
(* spot and is there for a tick.                                           *)
WorkTravels == inWork /\ phase = "travel" /\ spot \in Spots /\ BoatMoves(spot)
LiveWork == /\ WorkSpec
            /\ WF_workVars(HoldTick) /\ WF_workVars(WorkTravels) /\ SF_workVars(Arrive)
-----------------------------------------------------------------------------
(* Every variable has its type.                                            *)
WorkTypeOK ==
    /\ work \in [spots : SpotCounts \cup {0}, course : Courses, timed : BOOLEAN]
    /\ {inWork, finished, nextAsked} \subseteq BOOLEAN
    /\ spot \in Nat /\ (work.spots > 0 => spot \in Spots)
    /\ phase \in {"travel", "hold"} /\ way \in {-1, 1} /\ dwelt \in 0 .. Dwell
    /\ place \in Spots \cup {Between}
    /\ \/ paused = NotPaused
       \/ /\ paused \in [spots : SpotCounts \cup {0}, course : Courses, spot : Nat]
          /\ paused.spots > 0 => paused.spot < paused.spots

(* A timed patrol or loop whose operators leave it alone works every spot  *)
(* of its list for ever, wherever it was paused, resumed or hurried on.    *)
Tours(k) == inWork /\ work.timed /\ work.course # "once" /\ k \in Spots
Works(k) == phase = "hold" /\ spot = k
EverySpotWorked ==
    \A k \in UNION {0 .. n - 1 : n \in SpotCounts} :
        <>[](Tours(k)) /\ <>[][~WorkCommand]_workVars => []<>Works(k)
=============================================================================
