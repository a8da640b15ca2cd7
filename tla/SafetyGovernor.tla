--------------------------- MODULE SafetyGovernor ---------------------------
(***************************************************************************)
(* The SafetyGovernor of controller/safety.py, driven by the supervised    *)
(* control loop of controller/controller.py (_tick_once, set_mode) and by  *)
(* the commands that retune it.  Thrust and steering are integers: Full    *)
(* stands for 1.0, and time is counted in units of the caller's choice.    *)
(*                                                                         *)
(* thrust and steering are state.motor_command, the command last handed to *)
(* the motor; gov is what the governor remembers from one tick to the next.*)
(* drivenDir, quiet, cutFor and elapsed are history: no code reads them.   *)
(***************************************************************************)
EXTENDS ThrustMath

CONSTANTS
    Full,           \* full thrust (and full steering)
    Eps,            \* _THRUST_EPSILON
    ThrustSlew,     \* max_thrust_slew_per_s (<= 0: no limit)
    SteerSlew,      \* max_steer_slew_per_s  (<= 0: no limit)
    ReverseDelay,   \* reverse_delay_s
    FixTimeout,     \* fix_timeout_s
    HeadingStale,   \* heading_stale_s
    DepthStale,     \* depth_stale_s
    Manual,         \* the MANUAL mode
    Modes,          \* the control modes, Manual among them
    Commands,       \* commands the helm may compute: [thrust, steering]
    Elapses,        \* the dt of one tick
    Readings,       \* [headingAge, depth, depthAge, nogo, land] at a tick
    Caps,           \* thrust caps the battery ladder may set
    MinDepths,      \* shallow limits an operator may ask for (0: off)
    FloorMinDepth,  \* SafetyFloor.min_depth_m
    FloorFix,       \* SafetyFloor.fix_failsafe_enabled
    Faults          \* where a tick may raise: subset of {"before", "after"}

ASSUME LevelAssumption ==
    /\ Full \in Nat \ {0} /\ Eps \in Nat /\ Eps < Full
    /\ ThrustSlew \in Int /\ SteerSlew \in Int
ASSUME TimeAssumption ==
    /\ ReverseDelay \in Nat /\ FixTimeout \in Nat
    /\ HeadingStale \in Nat /\ DepthStale \in Nat
    /\ Elapses \subseteq Nat \ {0}
ASSUME InputAssumption ==
    /\ Manual \in Modes
    /\ Commands \subseteq [thrust : Int, steering : Int]
    /\ Readings \subseteq [headingAge : Nat, depth : Nat, depthAge : Nat,
                           nogo : BOOLEAN, land : {"none", "bow", "stern"}]
    /\ Caps \subseteq Int
    /\ MinDepths \subseteq Nat /\ FloorMinDepth \in Nat
    /\ FloorFix \in BOOLEAN
    /\ Faults \subseteq {"before", "after"}

VARIABLES
    mode,        \* state.mode
    thrust,      \* state.motor_command.thrust
    steering,    \* state.motor_command.steering
    gov,         \* the governor's own memory, below
    config,      \* the governor's live limits
    fixLost,     \* safety_status.fix_lost of the last governed tick
    fault,       \* state.controller_fault: the last tick raised
    drivenDir,   \* history: direction the motor was last driven in
    quiet,       \* history: time the motor has been near zero (<= ReverseDelay)
    cutFor,      \* history: time a stop has been demanded (<= CutCap)
    elapsed      \* history: the dt of the last tick

vars == <<mode, thrust, steering, gov, config, fixLost, fault,
          drivenDir, quiet, cutFor, elapsed>>

(* Timers stop counting where no guard can tell them apart any more.       *)
FixCap == FixTimeout + 1
CutCap == Full

Directions == {-1, 0, 1}
Inputs == [command : Commands, dt : Elapses, fresh : BOOLEAN, read : Readings]

Init ==
    /\ mode = Manual
    /\ thrust = 0 /\ steering = 0
    /\ gov = [lastThrust |-> 0, lastSteering |-> 0, lastDir |-> 0,
              rest |-> 0, sinceFix |-> 0, cap |-> Full]
    /\ config = [minDepth |-> FloorMinDepth, fixFailsafe |-> FloorFix]
    /\ fixLost = FALSE /\ fault = FALSE
    /\ drivenDir = 0 /\ quiet = 0 /\ cutFor = 0 /\ elapsed = 0

-----------------------------------------------------------------------------
(* One call of govern, on input in.                                        *)

Requested(in) == Clamp(in.command.thrust, -Full, Full)
DeratedAheadOnly(in) ==     \* mutant: only thrust ahead is derated
    IF Requested(in) > gov.cap THEN gov.cap ELSE Requested(in)
Derated(in) == Clamp(Requested(in), -gov.cap, gov.cap)

HeadingIsStale(in) == in.read.headingAge > HeadingStale /\ mode # Manual

IsShallow(in) ==
    /\ config.minDepth > 0
    /\ in.read.depthAge <= DepthStale
    /\ 0 < in.read.depth /\ in.read.depth < config.minDepth

(* Land lies within the guard's margin on one side of the boat, by the     *)
(* probe in force; only thrust that pushes towards that side is cut.       *)
LandStops(in) ==
    /\ mode = Manual
    /\ \/ in.read.land = "bow" /\ in.command.thrust > Eps
       \/ in.read.land = "stern" /\ in.command.thrust < -Eps

SinceFix(in) == IF in.fresh THEN 0 ELSE Saturate(gov.sinceFix + in.dt, FixCap)
FixIsLost(in) == config.fixFailsafe /\ SinceFix(in) > FixTimeout

Stopped(in) == \/ HeadingIsStale(in) \/ IsShallow(in) \/ in.read.nogo
               \/ LandStops(in) \/ FixIsLost(in)

Desired(in) == IF Stopped(in) THEN 0 ELSE Derated(in)
DesiredSteering(in) == IF HeadingIsStale(in) THEN gov.lastSteering
                       ELSE Clamp(in.command.steering, -Full, Full)

Rest(in) == IF Abs(gov.lastThrust) <= Eps
            THEN Saturate(gov.rest + in.dt, ReverseDelay) ELSE 0

ReverseBlockedInstant(in) ==     \* mutant: compares with the last thrust, not the last direction
    /\ Abs(Desired(in)) > Eps
    /\ Abs(gov.lastThrust) > Eps /\ Sign(Desired(in)) # Sign(gov.lastThrust)
    /\ Rest(in) < ReverseDelay
ReverseBlocked(in) ==
    /\ Abs(Desired(in)) > Eps
    /\ gov.lastDir # 0 /\ Sign(Desired(in)) # gov.lastDir
    /\ Rest(in) < ReverseDelay

Target(in) == IF ReverseBlocked(in) THEN 0 ELSE Desired(in)

SlewedPerTick(from, to, rate, dt) ==     \* mutant: a step per tick, however long
    IF rate > 0 THEN Towards(from, to, rate) ELSE to
Slewed(from, to, rate, dt) == IF rate > 0 THEN Towards(from, to, rate * dt) ELSE to

AppliedThrust(in) == Slewed(gov.lastThrust, Target(in), ThrustSlew, in.dt)
AppliedSteering(in) ==
    Slewed(gov.lastSteering, DesiredSteering(in), SteerSlew, in.dt)

Remembered(in) ==
    [gov EXCEPT !.lastThrust = AppliedThrust(in),
                !.lastSteering = AppliedSteering(in),
                !.lastDir = IF Abs(AppliedThrust(in)) > Eps
                            THEN Sign(AppliedThrust(in)) ELSE @,
                !.rest = Rest(in),
                !.sinceFix = SinceFix(in)]

-----------------------------------------------------------------------------
(* History of what the motor was told, kept beside the code's own memory.  *)

QuietAfter(dt) == IF Abs(thrust) > Eps THEN 0 ELSE Saturate(quiet + dt, ReverseDelay)

(* The motor was told t, dt after the previous command.                    *)
Witness(t, dt) ==
    /\ drivenDir' = IF Abs(t) > Eps THEN Sign(t) ELSE drivenDir
    /\ quiet' = IF Abs(t) > Eps THEN 0 ELSE QuietAfter(dt)
    /\ elapsed' = dt

(* How long every governed tick has demanded a stop.                       *)
CountCut(in) == cutFor' = IF Target(in) = 0 THEN Saturate(cutFor + in.dt, CutCap)
                         ELSE 0

-----------------------------------------------------------------------------
(* _tick_once, a clean tick: the helm's command governed and handed over.  *)
Tick(in) ==
    /\ thrust' = AppliedThrust(in)
    /\ steering' = AppliedSteering(in)
    /\ gov' = Remembered(in)
    /\ fixLost' = FixIsLost(in) /\ fault' = FALSE
    /\ Witness(AppliedThrust(in), in.dt)
    /\ CountCut(in)
    /\ UNCHANGED <<mode, config>>

(* A mode or the helm raises before the governor runs: the handler zeroes  *)
(* the motor, and the governor is not told.  If zeroing the motor raises   *)
(* as well, the last command stands.                                       *)
FaultBefore(dt, zeroed) ==
    /\ "before" \in Faults
    /\ thrust' = IF zeroed THEN 0 ELSE thrust
    /\ steering' = IF zeroed THEN 0 ELSE steering
    /\ quiet' = QuietAfter(dt)
    /\ elapsed' = dt /\ fault' = TRUE
    /\ UNCHANGED <<mode, gov, config, fixLost, drivenDir, cutFor>>

(* The motor or the event bus raises after the governor ran: the governor  *)
(* remembers a command the handler then replaces by zero.                  *)
FaultAfter(in, zeroed) ==
    /\ "after" \in Faults
    /\ thrust' = IF zeroed THEN 0 ELSE AppliedThrust(in)
    /\ steering' = IF zeroed THEN 0 ELSE AppliedSteering(in)
    /\ gov' = Remembered(in)
    /\ fixLost' = FixIsLost(in) /\ fault' = TRUE
    /\ Witness(AppliedThrust(in), in.dt)
    /\ CountCut(in)
    /\ UNCHANGED <<mode, config>>

(* set_mode: a real change of mode resets the governor, seeding the slew   *)
(* anchors and the applied direction from the command in force.            *)
SetModeSnaps(m) ==     \* mutant: the slew anchors restart from zero
    /\ m # mode
    /\ mode' = m
    /\ gov' = [gov EXCEPT !.lastThrust = 0, !.lastSteering = 0,
                          !.rest = 0, !.sinceFix = 0]
    /\ UNCHANGED <<thrust, steering, config, fixLost, fault,
                   drivenDir, quiet, cutFor, elapsed>>
SetMode(m) ==
    /\ m # mode
    /\ mode' = m
    /\ gov' = [gov EXCEPT !.lastThrust = thrust, !.lastSteering = steering,
                          !.lastDir = IF Abs(thrust) > Eps THEN Sign(thrust) ELSE @,
                          !.rest = 0, !.sinceFix = 0]
    /\ UNCHANGED <<thrust, steering, config, fixLost, fault,
                   drivenDir, quiet, cutFor, elapsed>>

SetThrustCapUnclamped(c) ==     \* mutant
    /\ gov' = [gov EXCEPT !.cap = c]
    /\ UNCHANGED <<mode, thrust, steering, config, fixLost, fault,
                   drivenDir, quiet, cutFor, elapsed>>
SetThrustCap(c) ==
    /\ gov' = [gov EXCEPT !.cap = Clamp(c, 0, Full)]
    /\ UNCHANGED <<mode, thrust, steering, config, fixLost, fault,
                   drivenDir, quiet, cutFor, elapsed>>

(* The operator's limits pass the SafetyFloor, which only lets them tighten.*)
SetMinDepth(d) ==
    /\ config' = [config EXCEPT !.minDepth = IF d < FloorMinDepth
                                             THEN FloorMinDepth ELSE d]
    /\ UNCHANGED <<mode, thrust, steering, gov, fixLost, fault,
                   drivenDir, quiet, cutFor, elapsed>>

SetFixFailsafe(on) ==
    /\ config' = [config EXCEPT !.fixFailsafe = on \/ FloorFix]
    /\ UNCHANGED <<mode, thrust, steering, gov, fixLost, fault,
                   drivenDir, quiet, cutFor, elapsed>>

Next ==
    \/ \E in \in Inputs : Tick(in)
    \/ \E dt \in Elapses, zeroed \in BOOLEAN : FaultBefore(dt, zeroed)
    \/ \E in \in Inputs, zeroed \in BOOLEAN : FaultAfter(in, zeroed)
    \/ \E m \in Modes : SetMode(m)
    \/ \E c \in Caps : SetThrustCap(c)
    \/ \E d \in MinDepths : SetMinDepth(d)
    \/ \E on \in BOOLEAN : SetFixFailsafe(on)

Spec == Init /\ [][Next]_vars
-----------------------------------------------------------------------------
(* Properties.                                                             *)

(* Every variable has its type; timers stay within their caps.             *)
TypeOK ==
    /\ mode \in Modes
    /\ thrust \in -Full .. Full /\ steering \in -Full .. Full
    /\ gov \in [lastThrust : -Full .. Full, lastSteering : -Full .. Full,
                lastDir : Directions, rest : 0 .. ReverseDelay,
                sinceFix : 0 .. FixCap, cap : 0 .. Full]
    /\ config \in [minDepth : Nat, fixFailsafe : BOOLEAN]
    /\ fixLost \in BOOLEAN /\ fault \in BOOLEAN
    /\ drivenDir \in Directions
    /\ quiet \in 0 .. ReverseDelay
    /\ cutFor \in 0 .. CutCap
    /\ elapsed \in Elapses \cup {0}

(* The governor implements the reversal interlock at the motor: through    *)
(* zero crossings, mode changes, faulted ticks and every failsafe, the     *)
(* motor is driven in the opposite direction only after it has been near   *)
(* zero for the reverse delay.                                             *)
RI == INSTANCE ReverseInterlock WITH
        Outputs <- -Full .. Full, Delay <- ReverseDelay,
        out <- thrust, dir <- drivenDir
ImplementsInterlock == RI!Spec

(* Any unbroken demand for a stop -- a failsafe, a blocked reversal or a   *)
(* zero command -- bounds the motor's thrust by what the slew limit still  *)
(* has to take off, and so brings it to zero within Full / ThrustSlew.     *)
StopsInTime ==
    cutFor > 0 =>
        IF ThrustSlew > 0 THEN Abs(thrust) <= Clamp(Full - ThrustSlew * cutFor, 0, Full)
        ELSE thrust = 0

(* A battery derate never lets a step raise thrust above the cap: what is  *)
(* above it is on its way down.                                            *)
DeratedNeverRises ==
    [][Abs(thrust') > gov.cap => Abs(thrust') <= Abs(gov.lastThrust)]_vars

(* From one clean tick to the next, mode changes and retunings between     *)
(* them included, thrust and steering at the motor change by at most the   *)
(* slew limit times the time that passed.                                  *)
SlewBounded ==
    [][~fault /\ ~fault' =>
         /\ ThrustSlew > 0 => Abs(thrust' - thrust) <= ThrustSlew * elapsed'
         /\ SteerSlew > 0 => Abs(steering' - steering) <= SteerSlew * elapsed']_vars

-----------------------------------------------------------------------------
(* Promised by the documentation and not kept by the code (README,         *)
(* section 7).                                                             *)

(* Whatever faults a tick, the motor is never brought from one drive to    *)
(* another, or from rest to drive, faster than the slew limit.             *)
NoSurge ==
    [][(ThrustSlew > 0 /\ thrust' # 0)
         => Abs(thrust' - thrust) <= ThrustSlew * elapsed']_vars

(* Once the loss of the fix has stopped the boat, it does not drive again  *)
(* until a fresh fix arrives (sinceFix 0 after a tick marks a fresh fix).  *)
FixLossLatches ==
    [][(fixLost /\ thrust = 0 /\ gov'.sinceFix # 0) => thrust' = 0]_vars
=============================================================================
