--------------------------- MODULE SafetyRuntime ---------------------------
(***************************************************************************)
(* The safety supervisor of runtime/safety_runtime.py: once a second it    *)
(* derates on a low battery and hands off to Return-to-Launch, recommends  *)
(* a return, engages the lost-link failsafe, and engages Follow-APB when   *)
(* an autopilot is heard.  It runs in the event loop between the control   *)
(* ticks, the clients of ui/server.py that come and go, the commands they  *)
(* and the REST clients send, and the thread that plans a return.          *)
(*                                                                         *)
(* Time passes by supervisor passes.  The devices every mode needs are     *)
(* connected, so no command is refused.                                    *)
(***************************************************************************)
EXTENDS Integers, Sequences, FiniteSetsExt

CONSTANTS
    Timeout,          \* link_loss_timeout_s, in passes
    MaxClients,       \* bound: UI clients at once
    ContinueMission,  \* link_loss_continue_mission
    AutoRtl,          \* auto_rtl
    AutoApb,          \* auto_follow_apb
    Remote,           \* commands arrive over REST, from no UI client
    Orders,           \* modes the operators engage, manual apart
    Socs,             \* charges the gauge may report
    Rungs,            \* battery_ladder: [soc, cap], in any order
    RtlSoc,           \* battery_rtl_soc_pct
    CriticalSoc,      \* the charge below which no range estimate is needed
    Full              \* the thrust cap 1.0

Never == -1           \* no client yet
NoGauge == -1         \* no battery source
Routes == {"waypoint", "path_track"}
Guided == Routes \cup {"follow_apb"}
Modes == Guided \cup {"manual", "anchor_hold"}
UnderwayModesShort == {"follow_apb"}     \* mutant: a guided mode is forgotten
UnderwayModes == {"waypoint", "follow_apb"}

ASSUME SupervisorAssumption ==
    /\ Timeout \in Nat \ {0} /\ MaxClients \in Nat
    /\ {ContinueMission, AutoRtl, AutoApb, Remote} \subseteq BOOLEAN
    /\ Orders \subseteq Modes \ {"manual"}
    /\ Socs \subseteq Nat \cup {NoGauge} /\ Socs # {}
    /\ Full \in Nat /\ Rungs \in Seq([soc : Nat, cap : 0 .. Full])
    /\ RtlSoc \in Nat /\ CriticalSoc \in Nat

VARIABLES
    mode,         \* state.mode
    stick,        \* the manual mode is told to drive
    driving,      \* state.motor_command is above the "making way" threshold
    clients,      \* _ui_clients
    silent,       \* passes since _last_client_seen
    engaged,      \* _link_failsafe_engaged
    action,       \* _link_failsafe_action
    soc,          \* the charge the gauge reports
    cap,          \* controller.safety.thrust_cap
    handedOff,    \* _battery_rtl_engaged
    recommended,  \* state.rtl_recommended
    launch,       \* a launch point is known
    fix,          \* a position is known
    inFlight,     \* _rtl_in_flight
    planners,     \* threads planning a return the supervisor asked for
    landed,       \* ... that have ended, unknown to the event loop yet
    apb,          \* an APB sentence came within the last 10 s
    apbLatched,   \* _auto_apb_latched
    gauged,       \* history: the charge at the last pass
    declined      \* history: the operator took the boat out of Follow-APB

link == <<clients, silent, engaged, action>>
battery == <<soc, cap, handedOff, recommended, gauged>>
home == <<launch, fix, inFlight, planners, landed>>
pilot == <<apb, apbLatched, declined>>
helm == <<mode, stick, driving>>
vars == <<helm, link, battery, home, pilot>>

Init ==
    /\ mode = "manual" /\ stick = FALSE /\ driving = FALSE
    /\ clients = 0 /\ silent = Never /\ engaged = FALSE /\ action = "none"
    /\ soc \in Socs /\ cap = Full /\ handedOff = FALSE /\ recommended = FALSE
    /\ gauged = soc
    /\ launch = FALSE /\ fix = FALSE /\ inFlight = FALSE
    /\ planners = 0 /\ landed = 0
    /\ apb = FALSE /\ apbLatched = FALSE /\ declined = FALSE
-----------------------------------------------------------------------------
(* UI clients.                                                             *)

ConnectKeepsLatch == \* mutant: a reconnection leaves the failsafe latched
    /\ clients < MaxClients
    /\ clients' = clients + 1 /\ silent' = 0
    /\ UNCHANGED <<engaged, action, helm, battery, home, pilot>>

Connect ==
    /\ clients < MaxClients
    /\ clients' = clients + 1 /\ silent' = 0
    /\ engaged' = FALSE /\ action' = "none"
    /\ UNCHANGED <<helm, battery, home, pilot>>

Activity ==
    /\ clients > 0
    /\ silent' = 0
    /\ UNCHANGED <<clients, engaged, action, helm, battery, home, pilot>>

DisconnectRejected == \* mutant: a client never let in is counted out
    /\ clients' = clients - 1 /\ silent' = 0
    /\ UNCHANGED <<engaged, action, helm, battery, home, pilot>>
Disconnect ==
    /\ clients > 0
    /\ clients' = clients - 1 /\ silent' = 0
    /\ UNCHANGED <<engaged, action, helm, battery, home, pilot>>

(* Commands, from a client or over REST.                                   *)
Operated == clients > 0 \/ Remote
Leaves == declined' = (declined \/ (mode = "follow_apb" /\ apb))

Drive(on) ==     \* manual with or without thrust; a stop is Drive(FALSE)
    /\ Operated
    /\ mode' = "manual" /\ stick' = on
    /\ Leaves
    /\ UNCHANGED <<driving, link, battery, home, apb, apbLatched>>

Order(m) ==
    /\ Operated
    /\ mode' = m
    /\ IF m = "follow_apb" THEN declined' = FALSE ELSE Leaves
    /\ UNCHANGED <<stick, driving, link, battery, home, apb, apbLatched>>

(* Control ticks: what the mode and the governor make of the motor, and    *)
(* the end of a route.  A stick at rest drives nothing.                    *)
ControlTick(d) ==
    /\ mode = "manual" /\ ~stick /\ ~driving => ~d
    /\ driving' = d
    /\ UNCHANGED <<mode, stick, link, battery, home, pilot>>

RouteEnds(m) ==
    /\ mode \in Routes
    /\ mode' = m
    /\ stick' = (IF m = "manual" THEN FALSE ELSE stick)
    /\ UNCHANGED <<driving, link, battery, home, pilot>>

(* The world: the battery, the GPS, the autopilot's sentences.             *)
Gauge(s) ==
    /\ s # soc
    /\ soc' = s
    /\ UNCHANGED <<cap, handedOff, recommended, gauged, helm, link, home, pilot>>

Fix ==
    /\ ~fix
    /\ fix' = TRUE
    /\ UNCHANGED <<launch, inFlight, planners, landed, helm, link, battery, pilot>>

Heard(on) ==
    /\ apb # on
    /\ apb' = on
    /\ declined' = (declined /\ on)
    /\ UNCHANGED <<apbLatched, helm, link, battery, home>>
-----------------------------------------------------------------------------
(* The planner's thread, and the event loop's continuation after it.       *)

PlannerLands(ok) ==
    /\ planners > 0
    /\ planners' = planners - 1 /\ landed' = landed + 1
    /\ mode' = IF ok THEN "waypoint" ELSE mode
    /\ UNCHANGED <<stick, driving, launch, fix, inFlight, link, battery, pilot>>

PlannerClears ==
    /\ landed > 0
    /\ landed' = landed - 1 /\ inFlight' = FALSE
    /\ UNCHANGED <<launch, fix, planners, helm, link, battery, pilot>>
-----------------------------------------------------------------------------
(* One pass of the supervisor, in the order of _supervise_once.            *)

Launched == launch \/ fix     \* maybe_record_launch

(* evaluate_battery_ladder.                                                *)
CapForLast(s) ==     \* mutant: the last rung that matches, not the lowest cap
    LET hit == {i \in DOMAIN Rungs : s <= Rungs[i].soc}
    IN IF hit = {} THEN Full ELSE Rungs[Max(hit)].cap
CapFor(s) ==
    Min({Full} \cup {Rungs[i].cap : i \in {j \in DOMAIN Rungs : s <= Rungs[j].soc}})
AtRtl == soc # NoGauge /\ soc <= RtlSoc
HandsOff == AtRtl /\ ~handedOff
HandoffFliesRegardless == HandsOff /\ Launched     \* mutant: auto_rtl not consulted
HandoffFlies == HandsOff /\ AutoRtl /\ Launched

(* evaluate_rtl_recommend, whose verdict replaces what the hand-off set.   *)
(* range: the gauge's estimate against the distance home.                  *)
Ranges == IF soc = NoGauge THEN {"unknown"} ELSE {"unknown", "short", "ample"}
Recommends(range) ==
    /\ Launched /\ fix
    /\ range = "short" \/ (range = "unknown" /\ soc # NoGauge /\ soc <= CriticalSoc)
RecommendFlies(range) ==
    Recommends(range) /\ range = "short" /\ AutoRtl /\ mode # "waypoint"
SchedulesUnguarded(range) ==     \* mutant: a plan under way is not noticed
    HandoffFlies \/ RecommendFlies(range)
Schedules(range) == ~inFlight /\ (HandoffFlies \/ RecommendFlies(range))

(* evaluate_link_failsafe.                                                 *)
Silence == IF silent = Never THEN Never ELSE Min({Timeout, silent + 1})
Underway == mode \in UnderwayModes \/ (mode = "manual" /\ driving)
Trips == clients = 0 /\ silent # Never /\ ~engaged /\ Underway /\ Silence >= Timeout
TripHolds == Trips /\ mode # "manual" /\ ~ContinueMission
TripStops == Trips /\ mode = "manual"
StickKept == stick     \* mutant: the deadman changes the mode only
StickAfterTrip == stick /\ ~TripStops
ModeAfterTrip == IF TripHolds THEN "anchor_hold" ELSE mode

(* evaluate_auto_apb.                                                      *)
ApbEngages == /\ AutoApb /\ apb /\ ~apbLatched
              /\ ModeAfterTrip = "manual" /\ ~driving
Latched == AutoApb /\ apb /\ (apbLatched \/ ApbEngages \/ ModeAfterTrip = "follow_apb")

Supervise(range) ==
    /\ launch' = Launched
    /\ cap' = (IF soc = NoGauge THEN Full ELSE CapFor(soc))
    /\ handedOff' = (IF soc = NoGauge THEN handedOff ELSE AtRtl)
    /\ recommended' = Recommends(range)
    /\ inFlight' = (inFlight \/ Schedules(range))
    /\ planners' = planners + (IF Schedules(range) THEN 1 ELSE 0)
    /\ engaged' = (engaged \/ Trips)
    /\ action' = IF TripStops THEN "stop" ELSE IF TripHolds THEN "hold"
                 ELSE IF Trips THEN "continue" ELSE action
    /\ stick' = StickAfterTrip
    /\ mode' = IF ApbEngages THEN "follow_apb" ELSE ModeAfterTrip
    /\ apbLatched' = Latched
    /\ silent' = Silence
    /\ gauged' = soc
    /\ UNCHANGED <<driving, clients, soc, fix, landed, apb, declined>>
Pass == \E range \in Ranges : Supervise(range)

Next ==
    \/ Connect \/ Activity \/ Disconnect
    \/ \E on \in BOOLEAN : Drive(on)
    \/ \E m \in Orders : Order(m)
    \/ \E d \in BOOLEAN : ControlTick(d)
    \/ \E m \in {"anchor_hold", "manual"} : RouteEnds(m)
    \/ \E s \in Socs : Gauge(s)
    \/ Fix
    \/ \E on \in BOOLEAN : Heard(on)
    \/ \E ok \in BOOLEAN : PlannerLands(ok)
    \/ PlannerClears
    \/ Pass

Spec == Init /\ [][Next]_vars

(* The supervisor's loop never ends, and a motor told to rest comes to it. *)
Coast == mode = "manual" /\ ~stick /\ driving /\ ControlTick(FALSE)
LiveSupervisor == Spec /\ WF_vars(Pass) /\ WF_vars(Coast)
-----------------------------------------------------------------------------
(* Every variable has its type.                                            *)
SupervisorTypeOK ==
    /\ mode \in Modes /\ {stick, driving, engaged, handedOff, recommended, launch,
                          fix, inFlight, apb, apbLatched, declined} \subseteq BOOLEAN
    /\ clients \in 0 .. MaxClients /\ silent \in -1 .. Timeout
    /\ action \in {"none", "stop", "hold", "continue"}
    /\ {soc, gauged} \subseteq Socs /\ cap \in 0 .. Full
    /\ planners \in Nat /\ landed \in Nat

Alone == clients = 0 /\ silent # Never

(* The manual deadman: a boat driven by hand whose clients are gone is     *)
(* stopped, however the mission before it ended and however often the      *)
(* clients came back and went.                                             *)
DeadmanStops == (Alone /\ mode = "manual" /\ stick /\ driving)
                    ~> ~(Alone /\ mode = "manual" /\ stick /\ driving)

(* Once the deadman has stopped the boat it stays stopped until a client   *)
(* is back.                                                                *)
DeadmanHolds == engaged /\ action = "stop" => mode = "manual" /\ ~stick

(* With continue-mission off, a boat on a guided mode whose clients are    *)
(* gone comes to hold its position.                                        *)
HoldsPosition == (Alone /\ mode \in Guided) ~> ~(Alone /\ mode \in Guided)

(* The boat sets off on a route of its own accord only when the operator   *)
(* opted into the automatic Return-to-Launch.                              *)
SelfDrivesOnlyOptedIn ==
    [][mode' = "waypoint" /\ mode # "waypoint" => AutoRtl \/ Order("waypoint")]_vars

(* Between two passes the derate is never lifted unless the charge rose    *)
(* or the gauge went, whatever the order of the configured rungs.          *)
CapRisesWithCharge ==
    [][cap' > cap => soc > gauged \/ soc = NoGauge \/ gauged = NoGauge]_vars

(* The supervisor's planners never pile up, and a plan that fails or ends  *)
(* never wedges the next one.                                              *)
OnePlanner == planners + landed = IF inFlight THEN 1 ELSE 0

-----------------------------------------------------------------------------
(* Promised by the documentation and not kept by the code (README,         *)
(* section 7).                                                             *)

(* An operator who leaves Follow-APB is not put back into it while the     *)
(* autopilot's feed lasts.                                                 *)
ApbStaysLeft == declined => mode # "follow_apb"

(* A battery at the lowest stage leaves a recommendation to return,        *)
(* whatever the range estimate says, to a boat that must not self-drive.   *)
LowBatteryRecommends == [][Pass /\ AtRtl /\ ~AutoRtl => recommended']_vars

(* The one-shot hand-off is used up only by a hand-off.                    *)
HandoffFires == [][AutoRtl /\ handedOff' /\ ~handedOff => inFlight']_vars
=============================================================================
