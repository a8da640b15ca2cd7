----------------------------- MODULE MCAboard ------------------------------
(* The thrust chain in full, and the parts aboard that share no variable   *)
(* with it or with each other, for TLC: a behaviour is of one part, and the*)
(* variables of the others keep their first values.                        *)
EXTENDS MotorChain, RemoteControl, DepthStore, DeviceReload, SteeringBoard, WorkArea, CalibrationDrive,
        MotorHeartbeat

VARIABLE part

AboardVars == <<chainVars, remoteVars, depthVars, reloadVars, steerVars, workVars, driveVars,
                beatVars>>
Parts == {"chain", "remote", "depth", "reload", "steer", "work", "drive", "beat"}

Outer == {-Full, 0, Full}
SteerTargets == {-HeadRange - 1, 0, HeadRange}

(* A part that does not run has one initial state.                         *)
Init ==
    /\ part \in Parts
    /\ ChainInit /\ RemoteInit /\ DepthInit /\ ReloadInit /\ SteerInit /\ WorkInit
    /\ CalibrationInit /\ HeartbeatInit
    /\ part # "remote" => fitted /\ kind = "head" /\ expiry = MinExpiry
    /\ part # "steer" => head = 0

Next ==
    \/ /\ part = "chain" /\ ChainNext
       /\ UNCHANGED <<part, remoteVars, depthVars, reloadVars, steerVars, workVars, driveVars, beatVars>>
    \/ /\ part = "remote" /\ RemoteNext
       /\ UNCHANGED <<part, chainVars, depthVars, reloadVars, steerVars, workVars, driveVars, beatVars>>
    \/ /\ part = "depth" /\ DepthNext
       /\ UNCHANGED <<part, chainVars, remoteVars, reloadVars, steerVars, workVars, driveVars, beatVars>>
    \/ /\ part = "reload" /\ ReloadNext
       /\ UNCHANGED <<part, chainVars, remoteVars, depthVars, steerVars, workVars, driveVars, beatVars>>
    \/ /\ part = "steer" /\ SteerNext
       /\ UNCHANGED <<part, chainVars, remoteVars, depthVars, reloadVars, workVars, driveVars, beatVars>>
    \/ /\ part = "work" /\ WorkNext
       /\ UNCHANGED <<part, chainVars, remoteVars, depthVars, reloadVars, steerVars, driveVars, beatVars>>
    \/ /\ part = "drive" /\ CalibrationNext
       /\ UNCHANGED <<part, chainVars, remoteVars, depthVars, reloadVars, steerVars, workVars, beatVars>>
    \/ /\ part = "beat" /\ HeartbeatNext
       /\ UNCHANGED <<part, chainVars, remoteVars, depthVars, reloadVars, steerVars, workVars, driveVars>>

(* The fairness of LiveChain and that of LiveWork, each when its part runs.*)
Fairness ==
    /\ WF_chainVars(part = "chain" /\ \E dt \in LoopTimes : Run(dt))
    /\ SF_chainVars(part = "chain" /\ Emit(TRUE))
    /\ WF_workVars(part = "work" /\ HoldTick)
    /\ WF_workVars(part = "work" /\ WorkTravels)
    /\ SF_workVars(part = "work" /\ Arrive)

Spec == Init /\ [][Next]_<<part, AboardVars>> /\ Fairness

(* Every variable of every part has its type.                              *)
AboardTypeOK ==
    /\ part \in Parts
    /\ ChainTypeOK /\ RemoteTypeOK /\ DepthTypeOK /\ ReloadTypeOK /\ SteerTypeOK
    /\ WorkTypeOK /\ DriveTypeOK /\ HeartbeatTypeOK

=============================================================================
