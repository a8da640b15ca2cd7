----------------------------- MODULE MotorChain -----------------------------
(***************************************************************************)
(* The thrust chain from the control loop to the prop: the serial driver,  *)
(* a serial line that loses and corrupts, and the engine board.  The board *)
(* runs continuously; the driver flushes when the control loop ticks, and  *)
(* not at all while the loop or the Pi hangs.                              *)
(***************************************************************************)
EXTENDS EngineBoard, SerialMotor

CONSTANT MaxUpsets     \* bound: driver reloads and board resets together

VARIABLES
    wire,       \* the last valid line written since the board last polled
    upsets     \* bound: how many of either so far

chainVars == <<boardVars, driverVars, wire, upsets>>

(* A line carries any level the driver commands, and the driver lives     *)
(* through the times of the board.                                         *)
ASSUME ChainAssumption ==
    /\ DriverFull = Full /\ Pwms = 0 .. Full /\ LoopTimes \subseteq Waits
    /\ MaxUpsets \in Nat

ChainInit == BoardInit /\ DriverInit /\ wire = NoLine /\ upsets = 0

Command(c) == Apply(c) /\ UNCHANGED <<boardVars, wire, upsets>>

(* flush; the line arrives whole, or the link is down or a byte is         *)
(* corrupted and the board never sees it.                                  *)
Emit(arrives) ==
    /\ Flush
    /\ wire' = IF arrives THEN [pwm |-> Abs(Gated), dir |-> LineDir(Gated)] ELSE wire
    /\ UNCHANGED <<boardVars, upsets>>

(* Time passes and the board runs.                                         *)
Run(dt) ==
    /\ Loop(wire, dt)
    /\ Wait(dt)
    /\ wire' = NoLine
    /\ UNCHANGED upsets

(* reload_devices: a new driver, which remembers nothing, takes over; the  *)
(* old one's stop() writes a stopped line.  A reload is also what a restart*)
(* of the Pi's process does to the driver, with no stopped line.           *)
Reload(arrives) ==
    /\ upsets < MaxUpsets
    /\ upsets' = upsets + 1
    /\ lastDir' = 0 /\ restFor' = 0 /\ emitted' = 0
    /\ wire' = IF arrives THEN [pwm |-> 0, dir |-> 1] ELSE wire
    /\ UNCHANGED <<boardVars, command, lineQuiet>>

BoardReset ==
    /\ upsets < MaxUpsets
    /\ upsets' = upsets + 1
    /\ Boot
    /\ UNCHANGED <<driverVars, wire>>

(* Nothing restarts: the thrust chain as it runs from one start on.        *)
SteadyNext ==
    \/ \E c \in Thrusts : Command(c)
    \/ \E arrives \in BOOLEAN : Emit(arrives)
    \/ \E dt \in LoopTimes : Run(dt)

ChainNext ==
    \/ SteadyNext
    \/ \E arrives \in BOOLEAN : Reload(arrives)
    \/ BoardReset

SteadySpec == ChainInit /\ [][SteadyNext]_chainVars
ChainSpec == ChainInit /\ [][ChainNext]_chainVars

(* The board's loop and the control loop run for ever, and the link        *)
(* delivers a line now and then.                                           *)
LiveChain == /\ ChainSpec
             /\ WF_chainVars(\E dt \in LoopTimes : Run(dt))
             /\ SF_chainVars(Emit(TRUE))

-----------------------------------------------------------------------------
(* Every variable has its type.                                            *)
ChainTypeOK == /\ BoardTypeOK /\ DriverTypeOK
               /\ wire \in Lines \cup {NoLine}
               /\ upsets \in 0 .. MaxUpsets

(* The two interlocks, the watchdog, the line losses and the resets between*)
(* them never lock the chain up: a command that stands while the board is  *)
(* kept fed in time becomes, and stays, what the prop does.                *)
Commanded(c) == command = c /\ cmdAge <= Watchdog
Follows(c) == throttle = Abs(c) /\ (c # 0 => relay = Sign(c))
CommandPrevails == \A c \in Thrusts : <>[]Commanded(c) => <>[]Follows(c)

=============================================================================
