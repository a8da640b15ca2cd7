-------------------------- MODULE CalibrationDrive --------------------------
(***************************************************************************)
(* The auto-calibration drive of controller/calibration.py: a coroutine    *)
(* that drives the boat through its phases with ordinary manual commands,  *)
(* reading a cancel flag as it samples, while the operator, the deadman    *)
(* and a new boat profile act between its samples.  The second of two      *)
(* starts in the same turn of the event loop is left out.                  *)
(***************************************************************************)
EXTENDS Naturals

CONSTANT MaxDrives     \* bound: drives of a session

ASSUME DriveAssumption == MaxDrives \in Nat

VARIABLES
    phaseNow,     \* the phase the coroutine samples in, "idle" when it does not run
    cancelAsked,  \* _cancel
    outcome,      \* how the last drive ended
    motion,       \* what the boat was last told to do
    orderedBy,    \* and by whom
    helmTrim,     \* helm.thrust_yaw_ff: the profile it is of, or Off
    profile,      \* the boat profile in force
    trimKept,     \* what _measure_ff will restore
    drives

driveVars == <<phaseNow, cancelAsked, outcome, motion, orderedBy, helmTrim,
               profile, trimKept, drives>>

Off == 0
Profiles == {1, 2}
DrivePhases == {"idle", "straight", "trim_off", "trim_on", "coast", "turn", "reverse",
            "reverse_turn", "tuning"}

CalibrationInit ==
    /\ phaseNow = "idle" /\ cancelAsked = FALSE /\ outcome = "none"
    /\ motion = "still" /\ orderedBy = "operator"
    /\ helmTrim = 1 /\ profile = 1 /\ trimKept = 1 /\ drives = 0

Manual(m) == motion' = m /\ orderedBy' = "drive"

CalibrationStarts ==
    /\ phaseNow = "idle" /\ drives < MaxDrives /\ drives' = drives + 1
    /\ cancelAsked' = FALSE /\ outcome' = "none"
    /\ phaseNow' = "straight" /\ Manual("ahead")
    /\ UNCHANGED <<helmTrim, profile, trimKept>>

CancelAsked ==     \* POST /api/calibrate/cancel, whether one runs or not
    /\ cancelAsked' = TRUE
    /\ UNCHANGED <<phaseNow, outcome, motion, orderedBy, helmTrim, profile, trimKept, drives>>

(* What the boat is told at the end of a phase, the next one being p.      *)
Motion(p) ==
    CASE p \in {"trim_off", "trim_on"} -> "ahead"
      [] p = "turn" -> "turning"
      [] p \in {"reverse", "reverse_turn"} -> "astern"
      [] p \in {"coast", "tuning"} -> "still"

(* A phase is over and the next begins, with no await between.  A boat     *)
(* that cannot steer skips the two that measure the trim.                  *)
PhaseOrder == {<<"straight", "trim_off">>, <<"straight", "coast">>, <<"trim_off", "trim_on">>,
             <<"trim_on", "coast">>, <<"coast", "turn">>, <<"turn", "reverse">>,
             <<"reverse", "reverse_turn">>, <<"reverse_turn", "tuning">>}
PhaseEnds(p) ==
    /\ <<phaseNow, p>> \in PhaseOrder
    /\ phaseNow' = p /\ Manual(Motion(p))
    /\ trimKept' = IF p = "trim_off" THEN helmTrim ELSE trimKept
    /\ helmTrim' = IF p = "trim_off" THEN Off
                   ELSE IF phaseNow \in {"trim_off", "trim_on"} THEN trimKept ELSE helmTrim
    /\ UNCHANGED <<cancelAsked, outcome, profile, drives>>

QuitsUnderway(how) ==     \* mutant: the boat goes on as the phase left it
    /\ phaseNow' = "idle" /\ outcome' = how /\ UNCHANGED <<motion, orderedBy>>
    /\ helmTrim' = IF phaseNow \in {"trim_off", "trim_on"} THEN trimKept ELSE helmTrim
    /\ UNCHANGED <<cancelAsked, profile, trimKept, drives>>

(* The drive ends before its end: the boat is stopped, and the trim the    *)
(* measurement took off is put back on the way out.                        *)
Quits(how) ==
    /\ phaseNow' = "idle" /\ outcome' = how /\ Manual("still")
    /\ helmTrim' = IF phaseNow \in {"trim_off", "trim_on"} THEN trimKept ELSE helmTrim
    /\ UNCHANGED <<cancelAsked, profile, trimKept, drives>>

CancelSeen ==
    /\ cancelAsked /\ phaseNow \notin {"idle", "tuning"}
    /\ Quits("cancelled")
TurnRefused == phaseNow = "turn" /\ Quits("aborted")     \* _guard_turn

(* A cancel during the tuning skips the tuners still to run, and what was  *)
(* measured is applied all the same.                                       *)
TuningEnds ==
    /\ phaseNow = "tuning" /\ phaseNow' = "idle" /\ outcome' = "applied"
    /\ helmTrim' = profile
    /\ UNCHANGED <<cancelAsked, motion, orderedBy, profile, trimKept, drives>>

(* The operator, or the deadman when the clients are gone.                 *)
OperatorStops ==
    /\ motion' = "still" /\ orderedBy' = "stop"
    /\ UNCHANGED <<phaseNow, cancelAsked, outcome, helmTrim, profile, trimKept, drives>>
OperatorDrives ==
    /\ motion' = "ahead" /\ orderedBy' = "operator"
    /\ UNCHANGED <<phaseNow, cancelAsked, outcome, helmTrim, profile, trimKept, drives>>

NewProfile(p) ==     \* update_boat sets the helm's feed-forward too
    /\ p # profile /\ profile' = p /\ helmTrim' = p
    /\ UNCHANGED <<phaseNow, cancelAsked, outcome, motion, orderedBy, trimKept, drives>>

CalibrationNext ==
    \/ CalibrationStarts \/ CancelAsked \/ CancelSeen \/ TurnRefused \/ TuningEnds
    \/ \E p \in DrivePhases : PhaseEnds(p)
    \/ OperatorStops \/ OperatorDrives
    \/ \E p \in Profiles : NewProfile(p)

CalibrationSpec == CalibrationInit /\ [][CalibrationNext]_driveVars
-----------------------------------------------------------------------------
(* Every variable has its type.                                            *)
DriveTypeOK ==
    /\ phaseNow \in DrivePhases /\ cancelAsked \in BOOLEAN
    /\ outcome \in {"none", "cancelled", "aborted", "applied"}
    /\ motion \in {"still", "ahead", "turning", "astern"}
    /\ orderedBy \in {"drive", "stop", "operator"}
    /\ helmTrim \in Profiles \cup {Off} /\ {profile, trimKept} \subseteq Profiles
    /\ drives \in 0 .. MaxDrives

(* However a drive ends, cancelled in any phase, aborted or applied, it    *)
(* leaves a boat it drove at rest, and the yaw trim it took off restored.  *)
DriveLetsGo ==
    /\ phaseNow = "idle" /\ orderedBy = "drive" => motion = "still"
    /\ phaseNow \notin {"trim_off", "trim_on"} => helmTrim # Off

(* "STOP must always work": what stopped stays stopped until an operator   *)
(* orders otherwise.                                                       *)
StopEndsDrive ==
    [][orderedBy = "stop" /\ motion' # "still"
          => phaseNow = "idle" \/ orderedBy' = "operator"]_driveVars
=============================================================================
