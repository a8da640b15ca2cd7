---------------------------- MODULE SteeringBoard ---------------------------
(***************************************************************************)
(* The steering board, firmware/steering/steering.ino: a head turned by a  *)
(* self-locking worm to the commanded angle, a pot that may be lost, a     *)
(* watchdog on the host, and a stall detector that stops the motor pushing *)
(* against a jam.  Angles are in steps of the head, time in loops.         *)
(***************************************************************************)
EXTENDS Integers

CONSTANTS
    HeadRange,     \* STEER_RANGE_DEG
    Deadband,      \* DEADBAND_DEG
    StallErr,      \* STALL_ERR_DEG
    StallMove,     \* STALL_MOVE_DEG
    StallTime,     \* STALL_TIME_MS
    HostQuiet,     \* VANCHOR_WATCHDOG_MS
    Noise,         \* what the pot may misread, once read thrice
    Targets        \* angles the host commands

ASSUME SteeringAssumption ==
    /\ {HeadRange, StallErr, StallTime, HostQuiet} \subseteq Nat \ {0}
    /\ {Deadband, StallMove, Noise} \subseteq Nat /\ Deadband < StallErr
    /\ 2 * Noise <= StallMove /\ Targets \subseteq Int

VARIABLES
    goal,          \* g_targetDeg
    head,          \* where the head is
    jammed,        \* it cannot turn
    stallRef,      \* g_stallRefDeg
    stallFor,      \* now - g_stallSinceMs, or NoClock
    stalled,       \* g_stalled
    hostAge,       \* now - g_lastCmdMs, counted to HostQuiet + 1
    bridge,        \* the way the motor is driven: -1, 0 or 1
    pushed         \* history: loops it was let drive a jammed head far from its goal

steerVars == <<goal, head, jammed, stallRef, stallFor, stalled, hostAge, bridge, pushed>>

NoClock == -1     \* 0 in the source
Heads == -HeadRange .. HeadRange
Size(x) == IF x < 0 THEN -x ELSE x
Soft(a) == IF a > HeadRange THEN HeadRange ELSE IF a < -HeadRange THEN -HeadRange ELSE a

(* setup; the pot is taken to be good at that moment.                      *)
SteerInit ==
    /\ head \in Heads /\ goal = head /\ stallRef = head
    /\ stallFor = NoClock /\ stalled = FALSE /\ hostAge = 0
    /\ jammed = FALSE /\ bridge = 0 /\ pushed = 0

(* pollSerial: a line with a good checksum.  Others are dropped whole.     *)
SetTarget(a) ==
    /\ goal' = Soft(a) /\ hostAge' = 0
    /\ UNCHANGED <<head, jammed, stallRef, stallFor, stalled, bridge, pushed>>

(* A silent host holds the head where it is.                               *)
Error(a) == IF hostAge > HostQuiet THEN 0 ELSE goal - a
Far(a) == Size(Error(a)) > StallErr

Older(t) == IF t = NoClock \/ t > StallTime THEN t ELSE t + 1

MovedAtAll(a) == a # stallRef     \* mutant: the pot's noise is motion
Turned(a) == Size(a - stallRef) > StallMove

(* The stall clock of a loop that reads angle a, far from the goal.        *)
StallClock(a) ==
    IF Turned(a)
    THEN stallRef' = a /\ stallFor' = 0 /\ stalled' = FALSE
    ELSE /\ stallFor' = IF stallFor = NoClock THEN 0 ELSE Older(stallFor)
         /\ stalled' = (stalled \/ stallFor' > StallTime)
         /\ UNCHANGED stallRef

Braked(a, potOk) == ~potOk \/ Size(Error(a)) <= Deadband \/ stalled'

(* updateControl: the pot reads a, or nothing that makes sense.  The motor *)
(* goes the way of the PID's output, whose integral and derivative may turn*)
(* or cancel that of the error.                                            *)
UpdateControl(a, potOk) ==
    /\ IF ~potOk
       THEN stallFor' = Older(stallFor) /\ UNCHANGED <<stallRef, stalled>>
       ELSE IF Far(a) THEN StallClock(a)
       ELSE stallRef' = a /\ stallFor' = NoClock /\ stalled' = FALSE
    /\ bridge' \in IF Braked(a, potOk) THEN {0} ELSE -1 .. 1
    /\ pushed' = IF ~Braked(a, potOk) /\ jammed /\ Far(a) THEN pushed + 1 ELSE 0

(* One loop: the head turns as the last one left the bridge, the worm      *)
(* holds it when that is off, and the board runs.                          *)
BoardLoop(step, noise, potOk) ==
    /\ jammed \/ bridge = 0 => step = 0
    /\ head' = Soft(head + step * bridge)
    /\ UpdateControl(head' + noise, potOk)
    /\ hostAge' = IF hostAge > HostQuiet THEN hostAge ELSE hostAge + 1
    /\ UNCHANGED <<goal, jammed>>

(* Weed or a stone takes hold of the head, or lets go.                     *)
Jam ==
    /\ jammed' = ~jammed /\ pushed' = 0
    /\ UNCHANGED <<goal, head, stallRef, stallFor, stalled, hostAge, bridge>>

SteerNext ==
    \/ \E a \in Targets : SetTarget(a)
    \/ \E step \in {0, 1, 2 * StallMove}, noise \in -Noise .. Noise, potOk \in BOOLEAN :
            BoardLoop(step, noise, potOk)
    \/ Jam

SteerSpec == SteerInit /\ [][SteerNext]_steerVars
-----------------------------------------------------------------------------
(* Every variable has its type.                                            *)
SteerTypeOK ==
    /\ {goal, head} \subseteq Heads /\ {jammed, stalled} \subseteq BOOLEAN
    /\ stallRef \in -HeadRange - Noise .. HeadRange + Noise
    /\ stallFor \in NoClock .. StallTime + 1 /\ hostAge \in 0 .. HostQuiet + 1
    /\ bridge \in -1 .. 1 /\ pushed \in Nat

(* However the host changes its mind, the pot drops out and misreads, and  *)
(* whenever the jam comes, the motor pushes a jammed head that is far from *)
(* its goal for two stall times at most: a creep the jam cut short may     *)
(* restart the clock, but once, and the noise never does.                  *)
PushBounded == pushed <= 2 * (StallTime + 1)
=============================================================================
