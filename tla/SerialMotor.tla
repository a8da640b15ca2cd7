---------------------------- MODULE SerialMotor -----------------------------
(***************************************************************************)
(* SerialMotorController of hardware/serial_devices.py: the driver that    *)
(* turns the control loop's commands into CMD lines, behind a reverse-delay*)
(* interlock of its own.  A write to a link that is down is dropped, never *)
(* raised.  lineQuiet is history.                                          *)
(***************************************************************************)
EXTENDS ThrustMath

CONSTANTS
    DriverFull,     \* full thrust
    DriverDelay,    \* reverse_delay_s
    Thrusts,        \* the thrusts the control loop may apply, in range or not
    Waits           \* time that may pass between two calls

ASSUME DriverAssumption ==
    /\ DriverFull \in Nat \ {0} /\ DriverDelay \in Nat
    /\ Thrusts \subseteq Int
    /\ Waits \subseteq Nat

VARIABLES
    command,        \* _command.thrust
    lastDir,        \* _last_dir
    restFor,        \* time since _zero_since; Never when that is None
    emitted,        \* the thrust the last CMD line carried, written or dropped
    lineQuiet       \* history: time the emitted thrust has been zero

driverVars == <<command, lastDir, restFor, emitted, lineQuiet>>

Never == -1

DriverInit ==
    /\ command = 0
    /\ lastDir = 0
    /\ restFor = 0
    /\ emitted = 0
    /\ lineQuiet = 0

(* apply                                                                   *)
Apply(c) ==
    /\ command' = Clamp(c, -DriverFull, DriverFull)
    /\ UNCHANGED <<lastDir, restFor, emitted, lineQuiet>>

(* _gate_reverse.  ZERO_THRUST_EPS (0.001) is below one pwm step, so here  *)
(* a thrust counts as stopped when it is zero.                             *)
Opposes == command # 0 /\ lastDir # 0 /\ Sign(command) # lastDir
RestsRestart == 0     \* mutant: the cooldown clock restarts at every flush
Rests == IF restFor = Never THEN 0 ELSE restFor
Blocked == Opposes /\ Rests < DriverDelay
Gated == IF Blocked THEN 0 ELSE command

(* flush: the gate, then one line.  The direction field of a stopped line  *)
(* is forward.  Whether the write lands is the link's affair.              *)
LineDirSigned(t) == IF t < 0 THEN -1 ELSE IF t > 0 THEN 1 ELSE 0     \* mutant
LineDir(t) == IF t < 0 THEN -1 ELSE 1
FlushForgets ==     \* mutant: a stopped line clears the remembered direction
    /\ emitted' = Gated
    /\ lastDir' = IF Gated # 0 THEN Sign(command) ELSE 0
    /\ restFor' = IF Gated # 0 THEN Never ELSE Rests
    /\ lineQuiet' = IF Gated # 0 \/ emitted # 0 THEN 0 ELSE lineQuiet
    /\ UNCHANGED command
Flush ==
    /\ emitted' = Gated
    /\ lastDir' = IF Gated # 0 THEN Sign(command) ELSE lastDir
    /\ restFor' = IF Gated # 0 THEN Never ELSE Rests
    /\ lineQuiet' = IF Gated # 0 \/ emitted # 0 THEN 0 ELSE lineQuiet
    /\ UNCHANGED command

(* Time passes.                                                            *)
Wait(dt) ==
    /\ restFor' = IF restFor = Never THEN Never ELSE Saturate(restFor + dt, DriverDelay)
    /\ lineQuiet' = IF emitted # 0 THEN 0 ELSE Saturate(lineQuiet + dt, DriverDelay)
    /\ UNCHANGED <<command, lastDir, emitted>>

DriverNext == \/ \E c \in Thrusts : Apply(c)
              \/ Flush
              \/ \E dt \in Waits : Wait(dt)

DriverSpec == DriverInit /\ [][DriverNext]_driverVars

-----------------------------------------------------------------------------
(* Every variable has its type.                                            *)
DriverTypeOK ==
    /\ command \in -DriverFull .. DriverFull
    /\ emitted \in -DriverFull .. DriverFull
    /\ lastDir \in {-1, 0, 1}
    /\ restFor \in 0 .. DriverDelay \cup {Never}
    /\ lineQuiet \in 0 .. DriverDelay

(* The lines the driver emits implement the reversal interlock, through    *)
(* zero crossings and whatever commands alternate: a line in the opposite  *)
(* direction follows only after reverse_delay_s of stopped lines.          *)
DI == INSTANCE ReverseInterlock WITH
        Outputs <- -DriverFull .. DriverFull, Eps <- 0, Delay <- DriverDelay,
        Elapses <- Waits \cup {0},
        out <- emitted, dir <- lastDir, quiet <- lineQuiet
DriverImplementsInterlock == DI!Spec
=============================================================================
