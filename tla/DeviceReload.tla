---------------------------- MODULE DeviceReload ----------------------------
(***************************************************************************)
(* reload_devices of runtime/devices.py: a new set of sensors, motor and   *)
(* simulator is started before the old one is retired, and every start and *)
(* stop is an await.  Restoring a backup schedules a reload without        *)
(* waiting for the one under way.  A reload is named for the set it builds.*)
(***************************************************************************)
EXTENDS FiniteSets

CONSTANTS
    Reloads,       \* bound: the reloads of a session
    Fitted         \* the set built when the runtime starts

ASSUME ReloadAssumption == Fitted \notin Reloads

VARIABLES
    reloadAt,      \* how far each reload is
    retires,       \* the sensors, and then the motor, it is retiring
    sensors,       \* the sets whose sensors publish on the bus
    motors,        \* the sets whose motor is open
    sims,          \* the sets whose simulator runs
    sensorsNow,    \* rt.gps and the others
    motorNow       \* rt.controller.motor, and rt.simulator

reloadVars == <<reloadAt, retires, sensors, motors, sims, sensorsNow, motorNow>>

DeviceSets == Reloads \cup {Fitted}

ReloadInit ==
    /\ reloadAt = [r \in Reloads |-> "none"]
    /\ retires = [r \in Reloads |-> Fitted]
    /\ sensors = {Fitted} /\ motors = {Fitted} /\ sims = {Fitted}
    /\ sensorsNow = Fitted /\ motorNow = Fitted

Reached(r, s) == reloadAt' = [reloadAt EXCEPT ![r] = s]

(* A set that will not build changes nothing.                              *)
StartSensors(r) ==
    /\ reloadAt[r] = "none"
    /\ \/ sensors' = sensors \cup {r} /\ Reached(r, "sensing")
       \/ UNCHANGED sensors /\ Reached(r, "done")
    /\ UNCHANGED <<retires, motors, sims, sensorsNow, motorNow>>

(* The motor is open and the simulator runs: the sensors of now are the    *)
(* ones to retire.                                                         *)
StartMotor(r) ==
    /\ reloadAt[r] = "sensing" /\ Reached(r, "retiring")
    /\ motors' = motors \cup {r} /\ sims' = sims \cup {r}
    /\ retires' = [retires EXCEPT ![r] = sensorsNow]
    /\ UNCHANGED <<sensors, sensorsNow, motorNow>>

(* A start that fails: what was started is stopped again.                  *)
RollBack(r) ==
    /\ reloadAt[r] = "sensing" /\ Reached(r, "done")
    /\ sensors' = sensors \ {r}
    /\ UNCHANGED <<retires, motors, sims, sensorsNow, motorNow>>

RetireSensors(r) ==
    /\ reloadAt[r] = "retiring" /\ Reached(r, "swapping")
    /\ sensors' = sensors \ {retires[r]}
    /\ UNCHANGED <<retires, motors, sims, sensorsNow, motorNow>>

ReplacedSeen(r) == retires[r]     \* mutant: the motor seen before the awaits
(* The motor the swap replaces.                                            *)
Replaced(r) == motorNow

Swap(r) ==
    /\ reloadAt[r] = "swapping" /\ Reached(r, "stopping")
    /\ sims' = sims \ {Replaced(r)}
    /\ sensorsNow' = r /\ motorNow' = r
    /\ retires' = [retires EXCEPT ![r] = Replaced(r)]
    /\ UNCHANGED <<sensors, motors>>

StopOldMotor(r) ==
    /\ reloadAt[r] = "stopping" /\ Reached(r, "done")
    /\ motors' = motors \ {retires[r]}
    /\ UNCHANGED <<retires, sensors, sims, sensorsNow, motorNow>>

ReloadNext ==
    \E r \in Reloads :
        \/ StartSensors(r) \/ StartMotor(r) \/ RollBack(r)
        \/ RetireSensors(r) \/ Swap(r) \/ StopOldMotor(r)

ReloadSpec == ReloadInit /\ [][ReloadNext]_reloadVars
-----------------------------------------------------------------------------
(* Every variable has its type.                                            *)
ReloadTypeOK ==
    /\ reloadAt \in [Reloads -> {"none", "sensing", "retiring", "swapping", "stopping", "done"}]
    /\ retires \in [Reloads -> DeviceSets]
    /\ {sensors, motors, sims} \subseteq SUBSET DeviceSets
    /\ {sensorsNow, motorNow} \subseteq DeviceSets

Settled == \A r \in Reloads : reloadAt[r] \in {"none", "done"}

(* However the reloads overlap and whichever fail, the control loop never  *)
(* flushes to a motor that is closed, and once they are over no motor but  *)
(* the loop's is open and no simulator but its own runs.                   *)
OneMotor ==
    /\ motorNow \in motors
    /\ Settled => motors = {motorNow} /\ sims = {motorNow}

(* Not kept by the code (README, section 7): two reloads that overlap both *)
(* retire the first sensors, and those of the earlier swap publish on.     *)
OneSensorSet == Settled => sensors = {sensorsNow}
=============================================================================
