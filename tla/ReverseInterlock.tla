-------------------------- MODULE ReverseInterlock --------------------------
(***************************************************************************)
(* What every layer of the thrust chain promises about reversals, whatever *)
(* it is asked to do: a signed output whose direction of drive changes only*)
(* after the output has been near zero for at least Delay.  The governor   *)
(* (controller/safety.py), the serial driver (hardware/serial_devices.py)  *)
(* and the engine board (firmware/engine) are each shown to implement it.  *)
(***************************************************************************)
EXTENDS ThrustMath

CONSTANTS
    Outputs,    \* the signed outputs the layer may produce
    Eps,        \* outputs of at most this magnitude count as stopped
    Delay,      \* rest required before the direction may change
    Elapses     \* the lengths of time that may pass between two outputs

VARIABLES
    out,        \* the output in force
    dir,        \* +1, -1: direction last driven in; 0: never driven
    quiet       \* how long the output has been near zero, saturating at Delay

vars == <<out, dir, quiet>>

Driving(x) == Abs(x) > Eps

Init == out = 0 /\ dir = 0 /\ quiet \in 0 .. Delay

QuietAfter(dt) == IF Driving(out) THEN 0 ELSE Saturate(quiet + dt, Delay)

(* The output becomes o after dt; a layer that fails after producing o may *)
(* leave the output at zero (final) instead.                               *)
Drive(o, final, dt) ==
    /\ final \in {o, 0}
    /\ (Driving(o) /\ dir # 0 /\ Sign(o) # dir) => QuietAfter(dt) >= Delay
    /\ out' = final
    /\ dir' = IF Driving(o) THEN Sign(o) ELSE dir
    /\ quiet' = IF Driving(o) THEN 0 ELSE QuietAfter(dt)

(* The output stays as it is (a missed or failed update).                  *)
Hold(dt) ==
    /\ quiet' = QuietAfter(dt)
    /\ UNCHANGED <<out, dir>>

Next == \E dt \in Elapses :
          \/ \E o \in Outputs : \E final \in {o, 0} : Drive(o, final, dt)
          \/ Hold(dt)

Spec == Init /\ [][Next]_vars
=============================================================================
