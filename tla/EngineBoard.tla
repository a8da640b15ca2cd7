---------------------------- MODULE EngineBoard -----------------------------
(***************************************************************************)
(* The engine board's sketch, firmware/engine/engine.ino: it drives a speed*)
(* controller's throttle and a direction relay from the CMD lines the Pi   *)
(* sends, behind its own slew limit, reverse dead-time and watchdog.  A    *)
(* line that fails its CRC or does not parse leaves no trace, so only valid*)
(* lines appear here.  boardDriven and boardQuiet are history.             *)
(***************************************************************************)
EXTENDS ThrustMath

CONSTANTS
    Full,           \* full throttle (pwm 255)
    Eps,            \* ZERO_THRUST_EPS
    EngineSlew,     \* THROTTLE_SLEW_PER_S
    DeadTime,       \* REVERSE_DEADTIME_MS
    Watchdog,       \* VANCHOR_WATCHDOG_MS
    LoopTimes,      \* time between two runs of loop()
    Pwms            \* throttle levels a CMD line may carry

ASSUME BoardAssumption ==
    /\ Full \in Nat \ {0} /\ Eps \in Nat /\ EngineSlew \in Nat \ {0}
    /\ DeadTime \in Nat /\ Watchdog \in Nat
    /\ LoopTimes \subseteq Nat \ {0}
    /\ Pwms \subseteq 0 .. Full

VARIABLES
    target,         \* g_targetThrottle
    targetDir,      \* g_targetDir
    throttle,       \* g_appliedThrottle
    relay,          \* g_appliedDir: +1 forward, -1 reverse
    zeroFor,        \* time since g_zeroSinceMs; Unset when that is 0
    cmdAge,         \* time since g_lastCmdMs
    boardDriven,    \* history: direction the prop was last driven in, 0 never
    boardQuiet      \* history: time the throttle has been near zero

boardVars == <<target, targetDir, throttle, relay, zeroFor, cmdAge,
               boardDriven, boardQuiet>>

Unset == -1
NoLine == [pwm |-> Unset, dir |-> 0]
Lines == [pwm : Pwms, dir : {1, -1}]

(* cmdAge saturates where the watchdog has long since stopped the motor.   *)
AgeCap == Watchdog + Full

BoardInit ==
    /\ target = 0 /\ targetDir = 1
    /\ throttle = 0 /\ relay = 1
    /\ zeroFor = 0 /\ cmdAge = 0
    /\ boardDriven = 0 /\ boardQuiet = 0

-----------------------------------------------------------------------------
(* One run of loop(): pollSerial acts on the last valid line received, if  *)
(* any; updateControl then runs, dt after its previous run.                *)

AgeAfter(line, dt) == IF line # NoLine THEN 0 ELSE Saturate(cmdAge + dt, AgeCap)
TargetAfter(line) == IF line # NoLine THEN line.pwm ELSE target
TargetDirAfter(line) == IF line # NoLine THEN line.dir ELSE targetDir

Failsafe(line, dt) == AgeAfter(line, dt) > Watchdog
WantedStale(line, dt) == TargetAfter(line)     \* mutant: no watchdog
Wanted(line, dt) == IF Failsafe(line, dt) THEN 0 ELSE TargetAfter(line)
WantedDir(line, dt) == IF Failsafe(line, dt) THEN relay ELSE TargetDirAfter(line)

NearZero == throttle <= Eps
RestedThrough(dt) ==     \* mutant: the clock is not cleared off zero
    IF zeroFor = Unset THEN 0 ELSE Saturate(zeroFor + dt, DeadTime)
Rested(dt) == IF ~NearZero THEN Unset
              ELSE IF zeroFor = Unset THEN 0 ELSE Saturate(zeroFor + dt, DeadTime)

Flip(line, dt) == WantedDir(line, dt) # relay
FlipAllowed(dt) == NearZero /\ Rested(dt) >= DeadTime
Allowed(line, dt) == IF Flip(line, dt) /\ ~FlipAllowed(dt) THEN 0 ELSE Wanted(line, dt)

ThrottleAfter(line, dt) ==
    Clamp(Towards(throttle, Allowed(line, dt), EngineSlew * dt), 0, Full)
RelayAfter(line, dt) == IF Flip(line, dt) /\ FlipAllowed(dt)
                        THEN WantedDir(line, dt) ELSE relay

BoardQuietAfter(dt) == IF NearZero THEN Saturate(boardQuiet + dt, DeadTime) ELSE 0

Loop(line, dt) ==
    /\ target' = TargetAfter(line)
    /\ targetDir' = TargetDirAfter(line)
    /\ cmdAge' = AgeAfter(line, dt)
    /\ zeroFor' = Rested(dt)
    /\ throttle' = ThrottleAfter(line, dt)
    /\ relay' = RelayAfter(line, dt)
    /\ boardDriven' = IF ThrottleAfter(line, dt) > Eps
                      THEN RelayAfter(line, dt) ELSE boardDriven
    /\ boardQuiet' = IF ThrottleAfter(line, dt) > Eps THEN 0 ELSE BoardQuietAfter(dt)

(* setup(): power-on or a reset.                                           *)
Boot ==
    /\ target' = 0 /\ targetDir' = 1
    /\ throttle' = 0 /\ relay' = 1
    /\ zeroFor' = 0 /\ cmdAge' = 0
    /\ boardQuiet' = BoardQuietAfter(0)
    /\ UNCHANGED boardDriven

BoardRuns == \E line \in Lines \cup {NoLine}, dt \in LoopTimes : Loop(line, dt)
BoardNext == BoardRuns \/ Boot

(* The board as it is, and a board that is never reset: a reset forgets the*)
(* relay's position and the dead-time.                                     *)
BoardSpec == BoardInit /\ [][BoardNext]_boardVars
BoardUpSpec == BoardInit /\ [][BoardRuns]_boardVars

-----------------------------------------------------------------------------
(* Every variable has its type.                                            *)
BoardTypeOK ==
    /\ target \in 0 .. Full /\ targetDir \in {1, -1}
    /\ throttle \in 0 .. Full /\ relay \in {1, -1}
    /\ zeroFor \in 0 .. DeadTime \cup {Unset}
    /\ cmdAge \in 0 .. AgeCap
    /\ boardDriven \in {-1, 0, 1}
    /\ boardQuiet \in 0 .. DeadTime

(* A board that stays up implements the reversal interlock whatever lines  *)
(* reach it, at whatever times, with the watchdog stepping in: the prop is *)
(* driven the other way only after the dead-time near zero.                *)
BI == INSTANCE ReverseInterlock WITH
        Outputs <- -Full .. Full, Delay <- DeadTime, Elapses <- LoopTimes,
        out <- relay * throttle, dir <- boardDriven, quiet <- boardQuiet
BoardImplementsInterlock == BI!Spec

(* However the Pi fell silent, the throttle is bounded by what the slew    *)
(* limit still has to take off since the watchdog expired.                 *)
SilenceStops ==
    cmdAge > Watchdog =>
        throttle <= Clamp(Full - EngineSlew * (cmdAge - Watchdog), 0, Full)

-----------------------------------------------------------------------------
(* Promised by a comment and not kept by the code (README, section 7): the *)
(* direction relay switches only at zero throttle.                         *)
RelayUnpowered == [][relay' # relay => throttle = 0]_boardVars
=============================================================================
