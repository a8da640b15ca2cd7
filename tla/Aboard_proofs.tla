--------------------------- MODULE Aboard_proofs ----------------------------
(***************************************************************************)
(* The parts aboard, for every value of their constants.                   *)
(***************************************************************************)
EXTENDS MCAboard, MotorChain_proofs, LeastNumber, SequenceTheorems, TLAPS

(* The remote: it commands only while it runs, so what it told the boat    *)
(* last stands under an armed deadman or was refused to it.                *)
RemoteInv ==
    /\ silence \in Nat /\ expiry \in Nat \ {0}
    /\ running \/ refused
    /\ LatchFollowsDriver

LEMMA ClampedPositive == \A t \in Expiries : Clamped(t) \in Nat \ {0}
  BY RemoteAssumption DEF Clamped

LEMMA RemoteStarts == RemoteInit => RemoteInv
  BY ClampedPositive, RemoteAssumption DEF RemoteInit, RemoteInv, LatchFollowsDriver

LEMMA RemoteStep == RemoteInv /\ [RemoteNext]_remoteVars => RemoteInv'
<1> SUFFICES ASSUME RemoteInv, [RemoteNext]_remoteVars PROVE RemoteInv'
  OBVIOUS
<1> USE DEF RemoteInv, LatchFollowsDriver, Order, Disarm
<1>1. ASSUME NEW driven \in BOOLEAN, Stick(driven) PROVE RemoteInv'
  BY <1>1 DEF Stick, Drive
<1>2. ASSUME NEW off \in BOOLEAN, NEW speed \in BOOLEAN, NEW timeout \in Expiries,
             Frame(off, speed, timeout)
      PROVE  RemoteInv'
  BY <1>2, ClampedPositive DEF Frame, Drive
<1>3. ASSUME NEW which \in {"STOP", "MANUAL", "ANCHOR"}, Button(which) PROVE RemoteInv'
  BY <1>3 DEF Button
<1>4. CASE RemoteTick
  BY <1>4 DEF RemoteTick
<1>5. CASE LinkLost
  BY <1>5 DEF LinkLost
<1>6. CASE LinkBack
  BY <1>6 DEF LinkBack
<1>7. CASE ConnectorStops
  BY <1>7 DEF ConnectorStops
<1>8. CASE ConnectorStarts
  BY <1>8 DEF ConnectorStarts
<1>9. ASSUME NEW does \in {"still", "driven", "hold"}, AppOrders(does) PROVE RemoteInv'
  BY <1>9 DEF AppOrders
<1>10. CASE UNCHANGED remoteVars
  BY <1>10 DEF remoteVars
<1>11. QED
  BY <1>1, <1>2, <1>3, <1>4, <1>5, <1>6, <1>7, <1>8, <1>9, <1>10 DEF RemoteNext

(* While the boat does what the remote last told it the deadman is armed   *)
(* and young, and a hold it handed off to is left alone, for every set of  *)
(* expiries: the latch of rf_remote.py and nmea2000.py.                    *)
THEOREM LatchFollowsDriverHolds == RemoteSpec => []LatchFollowsDriver
<1>1. RemoteInv => LatchFollowsDriver
  BY DEF RemoteInv
<1>2. QED
  BY RemoteStarts, RemoteStep, <1>1, PTL DEF RemoteSpec

-----------------------------------------------------------------------------
(* The calibration drive: a boat it lets tune is at rest, and there is     *)
(* always a trim to put back.                                              *)
DriveInv ==
    /\ trimKept \in Profiles /\ profile \in Profiles
    /\ phaseNow \in {"idle", "tuning"} /\ orderedBy = "drive" => motion = "still"
    /\ phaseNow \notin {"trim_off", "trim_on"} => helmTrim \in Profiles

LEMMA DriveStarts == CalibrationInit => DriveInv
  BY DEF CalibrationInit, DriveInv, Profiles

LEMMA DriveStep == DriveInv /\ [CalibrationNext]_driveVars => DriveInv'
<1> SUFFICES ASSUME DriveInv, [CalibrationNext]_driveVars PROVE DriveInv'
  OBVIOUS
<1> USE DEF DriveInv, Profiles, Manual
<1>1. CASE CalibrationStarts
  BY <1>1 DEF CalibrationStarts
<1>2. CASE CancelAsked
  BY <1>2 DEF CancelAsked
<1>3. CASE CancelSeen
  BY <1>3 DEF CancelSeen, Quits
<1>4. CASE TurnRefused
  BY <1>4 DEF TurnRefused, Quits
<1>5. CASE TuningEnds
  BY <1>5 DEF TuningEnds
<1>6. ASSUME NEW p \in DrivePhases, PhaseEnds(p) PROVE DriveInv'
  <2>1. p # "idle"
    BY <1>6 DEF PhaseEnds, PhaseOrder
  <2>2. p = "tuning" => motion' = "still"
    BY <1>6 DEF PhaseEnds, Motion
  <2>3. trimKept' \in Profiles
    BY <1>6 DEF PhaseEnds, PhaseOrder
  <2>4. p \notin {"trim_off", "trim_on"} => helmTrim' \in Profiles
    BY <1>6 DEF PhaseEnds, PhaseOrder
  <2>5. phaseNow' = p /\ profile' = profile
    BY <1>6 DEF PhaseEnds
  <2>6. QED
    BY <2>1, <2>2, <2>3, <2>4, <2>5
<1>7. CASE OperatorStops
  BY <1>7 DEF OperatorStops
<1>8. CASE OperatorDrives
  BY <1>8 DEF OperatorDrives
<1>9. ASSUME NEW p \in Profiles, NewProfile(p) PROVE DriveInv'
  BY <1>9 DEF NewProfile
<1>10. CASE UNCHANGED driveVars
  BY <1>10 DEF driveVars
<1>11. QED
  BY <1>1, <1>2, <1>3, <1>4, <1>5, <1>6, <1>7, <1>8, <1>9, <1>10 DEF CalibrationNext

(* However a calibration drive of calibration.py ends, and however many    *)
(* there are, the boat it drove is at rest and the yaw trim is restored.   *)
THEOREM DriveLetsGoHolds == CalibrationSpec => []DriveLetsGo
<1>1. DriveInv => DriveLetsGo
  BY DEF DriveInv, DriveLetsGo, Profiles, Off
<1>2. QED
  BY DriveStarts, DriveStep, <1>1, PTL DEF CalibrationSpec

-----------------------------------------------------------------------------
(* The device reload: whose the open motors and the running simulators are.*)
Started == {r \in Reloads : reloadAt[r] \in {"retiring", "swapping"}}
Stopping == {r \in Reloads : reloadAt[r] = "stopping"}
Seen == {Fitted} \cup {r \in Reloads : reloadAt[r] \in {"stopping", "done"}}

ReloadInv ==
    /\ reloadAt \in [Reloads -> {"none", "sensing", "retiring", "swapping", "stopping", "done"}]
    /\ DOMAIN retires = Reloads
    /\ motorNow \in Seen
    /\ motors = {motorNow} \cup Started \cup {retires[r] : r \in Stopping}
    /\ sims = {motorNow} \cup Started
    /\ \A r \in Stopping : retires[r] \in Seen \ {motorNow}
    /\ \A r, s \in Stopping : retires[r] = retires[s] => r = s

LEMMA ReloadStarts == ReloadInit => ReloadInv
  BY DEF ReloadInit, ReloadInv, Started, Stopping, Seen

LEMMA ReloadStep == ReloadInv /\ [ReloadNext]_reloadVars => ReloadInv'
<1> SUFFICES ASSUME ReloadInv, [ReloadNext]_reloadVars PROVE ReloadInv'
  OBVIOUS
<1> USE ReloadAssumption DEF ReloadInv, Started, Stopping, Seen, Reached
<1>1. ASSUME NEW r \in Reloads, StartSensors(r) PROVE ReloadInv'
  BY <1>1 DEF StartSensors
<1>2. ASSUME NEW r \in Reloads, StartMotor(r) PROVE ReloadInv'
  BY <1>2 DEF StartMotor
<1>3. ASSUME NEW r \in Reloads, RollBack(r) PROVE ReloadInv'
  BY <1>3 DEF RollBack
<1>4. ASSUME NEW r \in Reloads, RetireSensors(r) PROVE ReloadInv'
  BY <1>4 DEF RetireSensors
<1>5. ASSUME NEW r \in Reloads, Swap(r) PROVE ReloadInv'
  BY <1>5 DEF Swap, Replaced
<1>6. ASSUME NEW r \in Reloads, StopOldMotor(r) PROVE ReloadInv'
  BY <1>6 DEF StopOldMotor
<1>7. CASE UNCHANGED reloadVars
  BY <1>7 DEF reloadVars
<1>8. QED
  BY <1>1, <1>2, <1>3, <1>4, <1>5, <1>6, <1>7 DEF ReloadNext

(* The control loop never flushes to a closed motor, and no motor is left  *)
(* open, for any number of reloads that overlap or fail: reload_devices.   *)
THEOREM OneMotorHolds == ReloadSpec => []OneMotor
<1>1. ReloadInv => OneMotor
  BY DEF ReloadInv, OneMotor, Settled, Started, Stopping
<1>2. QED
  BY ReloadStarts, ReloadStep, <1>1, PTL DEF ReloadSpec

-----------------------------------------------------------------------------
(* The steering board.  While it pushes a jammed head its stall clock runs,*)
(* and it has restarted once at most: after that the reference is where    *)
(* the head is, within the noise, and noise is not motion.                 *)
Near == stallRef \in head - Noise .. head + Noise

SteerInv ==
    /\ goal \in Heads /\ head \in Heads /\ stallRef \in Int
    /\ stallFor \in NoClock .. StallTime + 1
    /\ bridge \in {-1, 0, 1} /\ pushed \in Nat
    /\ pushed > 0 =>
        /\ jammed /\ stallFor \in 0 .. StallTime
        /\ \/ pushed <= stallFor + 1
           \/ Near /\ pushed <= StallTime + stallFor + 2

LEMMA SteerStarts == SteerInit => SteerInv
  BY SteeringAssumption DEF SteerInit, SteerInv, Heads, NoClock

(* A jammed head does not move, whatever the bridge does.                  *)
LEMMA JamHolds ==
  ASSUME SteerInv, NEW step \in Int, NEW noise \in -Noise .. Noise, NEW potOk \in BOOLEAN,
         BoardLoop(step, noise, potOk)
  PROVE  /\ head' \in Heads
         /\ jammed => head' = head
<1>1. bridge = -1 \/ bridge = 0 \/ bridge = 1
  BY DEF SteerInv
<1>2. head \in Int /\ step * bridge \in Int
  BY <1>1, SteeringAssumption DEF SteerInv, Heads
<1>3. head' \in Heads
  BY <1>2, SteeringAssumption DEF BoardLoop, Soft, Heads
<1>4. ASSUME jammed PROVE head' = head
  <2>1. step = 0
    BY <1>4 DEF BoardLoop
  <2>2. step * bridge = 0
    BY <1>1, <2>1
  <2>3. QED
    BY <1>2, <2>2, SteeringAssumption DEF BoardLoop, Soft, SteerInv, Heads
<1>5. QED
  BY <1>3, <1>4

LEMMA LoopKeeps ==
  ASSUME SteerInv, NEW step \in Int, NEW noise \in -Noise .. Noise, NEW potOk \in BOOLEAN,
         BoardLoop(step, noise, potOk)
  PROVE  SteerInv'
<1> DEFINE a == head' + noise
<1> USE SteeringAssumption
<1>1. head' \in Heads /\ (jammed => head' = head) /\ noise \in Int
  <2>1. head' \in Heads /\ (jammed => head' = head)
    BY JamHolds
  <2>2. QED
    BY <2>1
<1>2. a \in Int /\ head' \in Int /\ goal \in Int
  BY <1>1 DEF Heads, SteerInv
<1>3. UpdateControl(a, potOk) /\ goal' = goal /\ jammed' = jammed
  BY DEF BoardLoop
<1>4. Error(a) \in Int
  BY <1>2 DEF Error
<1>5. bridge' \in {-1, 0, 1}
  BY <1>3 DEF UpdateControl
<1>6. stallRef' \in Int /\ stallFor' \in NoClock .. StallTime + 1
  BY <1>2, <1>3 DEF UpdateControl, StallClock, Older, NoClock, SteerInv
<1>7. pushed' \in Nat
  BY <1>3 DEF UpdateControl, SteerInv
<1>8. ASSUME pushed' > 0
      PROVE  /\ jammed' /\ stallFor' \in 0 .. StallTime
             /\ pushed' <= stallFor' + 1 \/ (Near' /\ pushed' <= StallTime + stallFor' + 2)
  <2>1. /\ ~Braked(a, potOk) /\ jammed /\ Far(a) /\ pushed' = pushed + 1
    BY <1>3, <1>8 DEF UpdateControl
  <2>2. potOk /\ ~stalled' /\ StallClock(a)
    BY <1>3, <2>1 DEF UpdateControl, Braked
  <2>3. head' = head
    BY <1>1, <2>1
  <2>4. stallFor' \in 0 .. StallTime
    <3>1. CASE Turned(a)
      BY <3>1, <2>2 DEF StallClock
    <3>2. CASE ~Turned(a)
      <4>1. /\ stallFor' = IF stallFor = NoClock THEN 0 ELSE Older(stallFor)
            /\ stalled' = (stalled \/ stallFor' > StallTime)
        BY <3>2, <2>2 DEF StallClock
      <4>2. ~(stallFor' > StallTime)
        BY <4>1, <2>2, Zenon
      <4>3. QED
        BY <4>1, <4>2, <1>6 DEF Older, NoClock, SteerInv
    <3>3. QED
      BY <3>1, <3>2
  <2>5. CASE Turned(a)
    <3>1. stallRef' = a /\ stallFor' = 0
      BY <2>2, <2>5 DEF StallClock
    <3>2. Near'
      BY <3>1, <1>1, <1>2 DEF Near
    <3>3. pushed > 0 => ~Near
      BY <2>3, <2>5, <1>1, <1>2 DEF Turned, Size, Near, SteerInv
    <3>4. pushed <= StallTime + 1
      BY <3>3 DEF SteerInv
    <3>5. QED
      BY <3>1, <3>2, <3>4, <2>1, <2>4, <1>3 DEF SteerInv
  <2>6. CASE ~Turned(a)
    <3>1. stallRef' = stallRef /\ stallFor' = IF stallFor = NoClock THEN 0 ELSE Older(stallFor)
      BY <2>2, <2>6 DEF StallClock
    <3>2. Near' = Near
      BY <3>1, <2>3 DEF Near
    <3>3. CASE pushed = 0
      <4>1. pushed' = 1
        BY <3>3, <2>1
      <4>2. pushed' <= stallFor' + 1
        <5>1. \A n \in Nat, i \in 0 .. StallTime : n = 1 => n <= i + 1
          OBVIOUS
        <5>2. QED
          BY <4>1, <5>1, <2>4, <1>7, Zenon
      <4>3. QED
        BY <4>2, <2>1, <2>4, <1>3
    <3>4. CASE pushed > 0
      <4>1. stallFor' = stallFor + 1
        BY <3>1, <3>4 DEF Older, NoClock, SteerInv
      <4>2. QED
        BY <4>1, <3>2, <3>4, <2>1, <2>4, <1>3 DEF SteerInv
    <3>5. QED
      BY <3>3, <3>4 DEF SteerInv
  <2>7. QED
    BY <2>5, <2>6
<1>9. QED
  BY <1>1, <1>2, <1>3, <1>5, <1>6, <1>7, <1>8 DEF SteerInv

LEMMA SteerStep == SteerInv /\ [SteerNext]_steerVars => SteerInv'
<1> SUFFICES ASSUME SteerInv, [SteerNext]_steerVars PROVE SteerInv'
  OBVIOUS
<1> USE SteeringAssumption
<1>1. ASSUME NEW t \in Targets, SetTarget(t) PROVE SteerInv'
  <2>1. goal' \in Heads
    <3>1. goal' = Soft(t) /\ t \in Int /\ HeadRange \in Nat
      BY <1>1 DEF SetTarget
    <3>2. QED
      BY <3>1 DEF Soft, Heads
  <2>2. QED
    BY <1>1, <2>1 DEF SetTarget, SteerInv, Near
<1>2. ASSUME NEW step \in {0, 1, 2 * StallMove}, NEW noise \in -Noise .. Noise,
             NEW potOk \in BOOLEAN, BoardLoop(step, noise, potOk)
      PROVE  SteerInv'
  <2>1. StallMove \in Int /\ 2 * StallMove \in Int
    OBVIOUS
  <2>2. step \in Int
    BY <2>1
  <2> HIDE SteeringAssumption
  <2>3. QED
    BY <1>2, <2>2, LoopKeeps, Zenon
<1>3. CASE Jam
  BY <1>3 DEF Jam, SteerInv
<1>4. CASE UNCHANGED steerVars
  BY <1>4 DEF steerVars, SteerInv, Near
<1>5. QED
  BY <1>1, <1>2, <1>3, <1>4 DEF SteerNext

(* The steering motor pushes a jammed head for two stall times at most,    *)
(* for every deadband, threshold and range, and a pot whose noise is half  *)
(* of StallMove at most: steering.ino.                                     *)
THEOREM PushBoundedHolds == SteerSpec => []PushBounded
<1>1. SteerInv => PushBounded
  BY SteeringAssumption DEF SteerInv, PushBounded
<1>2. QED
  BY SteerStarts, SteerStep, <1>1, PTL DEF SteerSpec
-----------------------------------------------------------------------------
(* The depth map.  Keeping the newest of a set never loses the promise that*)
(* a sounding is there or has been pushed out by MaxPoints newer ones.     *)
Soundings == 1 .. MaxSoundings
Kept(s, X) == s \in X \/ Cardinality(Newer(s, X)) >= MaxPoints

LEMMA FiniteSoundings ==
  ASSUME NEW X \in SUBSET Soundings
  PROVE  /\ IsFiniteSet(X) /\ X \subseteq Nat /\ Cardinality(X) \in Nat
         /\ \A Y \in SUBSET X : IsFiniteSet(Y) /\ Cardinality(Y) \in Nat
                                /\ Cardinality(Y) <= Cardinality(X)
<1>1. IsFiniteSet(Soundings)
  BY FS_Interval, DepthAssumption DEF Soundings
<1>2. IsFiniteSet(X)
  BY <1>1, FS_Subset
<1>3. X \subseteq Nat
  BY DepthAssumption DEF Soundings
<1>4. QED
  BY <1>2, <1>3, FS_Subset, FS_CardinalityType

(* The greatest of the newer soundings that are pushed out has MaxPoints   *)
(* newer ones, and those are all among the newest.                         *)
LEMMA PushedOut ==
  ASSUME NEW X \in SUBSET Soundings, NEW s \in Nat, Cardinality(Newer(s, X)) >= MaxPoints
  PROVE  Cardinality(Newer(s, Newest(X))) >= MaxPoints
<1> DEFINE lost == Newer(s, X) \ Newest(X)
           kept == Newer(s, Newest(X))
<1>1. /\ Newest(X) \in SUBSET X /\ kept \in SUBSET X
      /\ \A t \in Nat : Newer(t, X) \in SUBSET X
  BY DEF Newest, Newer
<1>2. Cardinality(kept) \in Nat
  BY <1>1, FiniteSoundings
<1>3. CASE lost = {}
  <2>1. Newer(s, X) = kept
    BY <1>1, <1>3 DEF Newer
  <2>2. QED
    BY <2>1
<1>4. CASE lost # {}
  <2>1. lost \subseteq Nat /\ \A t \in lost : t <= MaxSoundings
    <3>1. \A t \in X : t \in Nat /\ t <= MaxSoundings
      BY DepthAssumption DEF Soundings
    <3>2. QED
      BY <3>1 DEF Newer
  <2>2. MaxSoundings \in Nat
    BY DepthAssumption
  <2> HIDE DEF lost
  <2>3. PICK t \in lost : \A u \in lost : u <= t
    BY <1>4, <2>1, <2>2, GreatestExists
  <2>4. t \in X /\ t > s /\ t \in Nat /\ ~(Cardinality(Newer(t, X)) < MaxPoints)
    BY <2>1, <2>3 DEF lost, Newest, Newer
  <2>5. Cardinality(Newer(t, X)) \in Nat /\ MaxPoints \in Nat
    BY <1>1, <2>4, FiniteSoundings, DepthAssumption
  <2>6. \A u \in Newer(t, X) : u \in kept
    <3>1. TAKE u \in Newer(t, X)
    <3>2. u \in X /\ u > t /\ u \in Nat
      BY FiniteSoundings DEF Newer
    <3>3. u > s /\ u \notin lost
      BY <2>1, <2>3, <2>4, <3>2
    <3>4. u \in Newest(X)
      BY <3>2, <3>3 DEF lost, Newer
    <3>5. QED
      BY <3>3, <3>4 DEF Newer
  <2>7. kept \in SUBSET Soundings /\ Newer(t, X) \in SUBSET kept
    BY <1>1, <2>6
  <2> HIDE DEF kept
  <2>8. Cardinality(Newer(t, X)) <= Cardinality(kept)
    BY <2>7, FiniteSoundings
  <2>9. Cardinality(kept) >= MaxPoints
    BY <1>2, <2>4, <2>5, <2>8
  <2>10. QED
    BY <2>9 DEF kept
<1>5. QED
  BY <1>3, <1>4

LEMMA NewestKeeps ==
  ASSUME NEW Y \in SUBSET Soundings, NEW X \in SUBSET Y, NEW s \in Nat, Kept(s, X)
  PROVE  Kept(s, Newest(Y))
<1>1. /\ Newer(s, Y) \in SUBSET Soundings /\ Newer(s, X) \in SUBSET Newer(s, Y)
      /\ Newer(s, X) \in SUBSET Soundings
  BY DEF Newer
<1>2. /\ Cardinality(Newer(s, X)) <= Cardinality(Newer(s, Y))
      /\ Cardinality(Newer(s, X)) \in Nat /\ Cardinality(Newer(s, Y)) \in Nat
      /\ MaxPoints \in Nat
  BY <1>1, FiniteSoundings, DepthAssumption
<1>3. CASE Cardinality(Newer(s, Y)) >= MaxPoints
  BY <1>3, PushedOut DEF Kept
<1>4. CASE ~(Cardinality(Newer(s, Y)) >= MaxPoints)
  <2>1. s \in X
    BY <1>2, <1>4 DEF Kept
  <2>2. Cardinality(Newer(s, Y)) < MaxPoints
    BY <1>2, <1>4
  <2>3. QED
    BY <2>1, <2>2 DEF Kept, Newest
<1>5. QED
  BY <1>3, <1>4

(* What was kept among X is kept among more.                               *)
LEMMA KeptGrows ==
  ASSUME NEW Y \in SUBSET Soundings, NEW X \in SUBSET Y, NEW s \in Nat, Kept(s, X)
  PROVE  Kept(s, Y)
<1>1. /\ Newer(s, Y) \in SUBSET Soundings /\ Newer(s, X) \in SUBSET Newer(s, Y)
      /\ Newer(s, X) \in SUBSET Soundings
  BY DEF Newer
<1>2. /\ Cardinality(Newer(s, X)) <= Cardinality(Newer(s, Y))
      /\ Cardinality(Newer(s, X)) \in Nat /\ Cardinality(Newer(s, Y)) \in Nat
      /\ MaxPoints \in Nat
  BY <1>1, FiniteSoundings, DepthAssumption
<1>3. QED
  BY <1>2 DEF Kept

(* The newest of a set are MaxPoints at most: but for the least of them,   *)
(* they are newer than it.                                                 *)
LEMMA NewestBounded ==
  ASSUME NEW X \in SUBSET Soundings
  PROVE  /\ Newest(X) \in SUBSET Soundings
         /\ Cardinality(Newest(X)) \in 0 .. MaxPoints
<1> DEFINE N == Newest(X)
<1>1. N \in SUBSET X /\ MaxPoints \in Nat
  BY DepthAssumption DEF Newest
<1>2. IsFiniteSet(N) /\ Cardinality(N) \in Nat /\ N \subseteq Nat
  BY <1>1, FiniteSoundings
<1>3. CASE N = {}
  BY <1>1, <1>3, FS_EmptySet
<1>4. CASE N # {}
  <2> HIDE DEF N
  <2>1. PICK m \in N : \A y \in N : m <= y
    BY <1>2, <1>4, LeastExists
  <2>2. m \in X /\ m \in Nat /\ Cardinality(Newer(m, X)) < MaxPoints
    BY <1>2, <2>1 DEF N, Newest
  <2>3. N \ {m} \in SUBSET Newer(m, X) /\ Newer(m, X) \in SUBSET Soundings
    <3>1. \A y \in N \ {m} : y \in X /\ y > m
      BY <1>1, <1>2, <2>1
    <3>2. QED
      BY <3>1 DEF Newer
  <2>4. /\ Cardinality(N \ {m}) <= Cardinality(Newer(m, X))
        /\ Cardinality(N \ {m}) \in Nat /\ Cardinality(Newer(m, X)) \in Nat
    BY <2>3, FiniteSoundings
  <2>5. Cardinality(N \ {m}) = Cardinality(N) - 1
    BY <1>2, <2>1, FS_RemoveElement
  <2>6. Cardinality(N) \in 0 .. MaxPoints
    BY <1>1, <1>2, <2>2, <2>4, <2>5
  <2>7. QED
    BY <1>1, <2>6 DEF N
<1>5. QED
  BY <1>3, <1>4

(* What the promise rests on: the loaded map is neither the map of now nor *)
(* an import's while its load is under way, and what an import copied from *)
(* the map of now holds all that was taken before the copy.                *)
NotInstalled == loader \in {"reading", "read"} => "loaded" \notin {depthMap, importing.map}
CopyHolds ==
    /\ importing.n <= taken
    /\ importing.at = "copied" =>
         /\ Cardinality(importing.copy) <= MaxPoints
         /\ importing.map = depthMap =>
              \A s \in live : s > importing.n \/ Kept(s, importing.copy)
DepthInv == DepthTypeOK /\ NotInstalled /\ CopyHolds /\ LiveSurvives

LEMMA DepthStarts == DepthInit => DepthInv
<1> SUFFICES ASSUME DepthInit PROVE DepthInv
  OBVIOUS
<1>1. \A m \in Maps : points[m] = {} /\ Cardinality(points[m]) = 0
  BY FS_EmptySet DEF DepthInit
<1>2. Idle \in Jobs /\ Idle.n = 0 /\ Idle.at = "idle" /\ Idle.map = "boot"
  BY DEF Idle, Jobs, Maps
<1>3. DepthTypeOK
  BY <1>1, <1>2, DepthAssumption DEF DepthInit, DepthTypeOK, Maps, Old
<1>4. NotInstalled /\ CopyHolds
  BY <1>2, DepthAssumption DEF DepthInit, NotInstalled, CopyHolds
<1>5. QED
  BY <1>3, <1>4 DEF DepthInit, DepthInv, LiveSurvives

(* Everything else a step does keeps its type when the points do.          *)
DepthRest ==
    /\ depthMap \in Maps /\ loader \in {"reading", "read", "done"}
    /\ savedN \in Nat /\ file \subseteq Soundings
    /\ checkpoint \in Jobs /\ importing \in Jobs
    /\ taken \in 2 .. MaxSoundings /\ boots \in 1 .. MaxBoots /\ live \subseteq Soundings
PointsOK ==
    /\ points \in [Maps -> SUBSET Soundings]
    /\ \A m \in Maps : Growing(m) \/ Cardinality(points[m]) <= MaxPoints

LEMMA DepthParts ==
  /\ DepthTypeOK <=> DepthRest /\ PointsOK
  /\ DepthTypeOK' <=> DepthRest' /\ PointsOK'
  /\ LiveSurvives <=> \A s \in live : Kept(s, points[depthMap])
  /\ LiveSurvives' <=> \A s \in live' : Kept(s, points'[depthMap'])
BY DEF DepthTypeOK, DepthRest, PointsOK, LiveSurvives, Kept, Soundings

LEMMA IdleTypes == Idle \in Jobs /\ Idle.n = 0 /\ Idle.at = "idle" /\ Idle.map = "boot"
BY DEF Idle, Jobs, Maps

(* The newest of a set that holds X, put in one of the maps.               *)
LEMMA KeptAfter ==
  ASSUME PointsOK, NEW m \in Maps, NEW Y \in SUBSET Soundings,
         NEW X \in SUBSET Y, points' = [points EXCEPT ![m] = Newest(Y)],
         importing' = importing
  PROVE  /\ PointsOK'
         /\ \A s \in Nat : Kept(s, X) => Kept(s, points'[m])
<1>1. /\ points \in [Maps -> SUBSET Soundings]
      /\ \A k \in Maps : Growing(k) \/ Cardinality(points[k]) <= MaxPoints
  BY DEF PointsOK
<1>2. Newest(Y) \in SUBSET Soundings /\ Cardinality(Newest(Y)) <= MaxPoints
  BY NewestBounded, DepthAssumption
<1>3. points'[m] = Newest(Y) /\ \A k \in Maps : Growing(k)' <=> Growing(k)
  BY <1>1 DEF Growing
<1>4. PointsOK'
  BY <1>1, <1>2, <1>3 DEF PointsOK
<1>5. QED
  BY <1>3, <1>4, NewestKeeps

LEMMA SaveTypes ==
  ASSUME DepthRest, PointsOK, NEW m \in Maps, Save(m)
  PROVE  file' \subseteq Soundings
BY DEF Save, DepthRest, PointsOK

(* A number of points is one that savedN and a checkpoint may hold.        *)
LEMMA CountTypes ==
  ASSUME PointsOK, NEW m \in Maps
  PROVE  points[m] \in SUBSET Soundings /\ Cardinality(points[m]) \in Nat
BY FiniteSoundings DEF PointsOK

LEMMA DepthStep == DepthInv /\ [DepthNext]_depthVars => DepthInv'
<1> SUFFICES ASSUME DepthInv, [DepthNext]_depthVars PROVE DepthInv'
  OBVIOUS
<1>a. /\ DepthRest /\ PointsOK /\ NotInstalled /\ CopyHolds
      /\ \A s \in live : Kept(s, points[depthMap])
  BY DepthParts DEF DepthInv
<1> SUFFICES /\ DepthRest' /\ PointsOK' /\ NotInstalled' /\ CopyHolds'
             /\ \A s \in live' : Kept(s, points'[depthMap'])
  BY DepthParts DEF DepthInv
<1>b. /\ live \subseteq Nat /\ taken \in Nat /\ importing.n \in Nat
      /\ importing.map \in Maps /\ importing.copy \in SUBSET Soundings /\ depthMap \in Maps
      /\ points \in [Maps -> SUBSET Soundings]
  BY <1>a, DepthAssumption DEF DepthRest, Soundings, Jobs, PointsOK
<1>1. CASE LoadReads
  <2>1. /\ UNCHANGED <<depthMap, savedN, checkpoint, importing, file, taken, boots, live>>
        /\ loader = "reading" /\ loader' \in {"read", "done"}
        /\ \/ points' = [points EXCEPT !["loaded"] = Newest(file)]
           \/ points' = points
    BY <1>1 DEF LoadReads
  <2>2. DepthRest'
    BY <1>a, <2>1 DEF DepthRest
  <2>3. PointsOK'
    <3>1. file \in SUBSET Soundings
      BY <1>a DEF DepthRest
    <3>2. CASE points' = [points EXCEPT !["loaded"] = Newest(file)]
      BY <1>a, <2>1, <3>1, <3>2, KeptAfter DEF Maps
    <3>3. QED
      BY <1>a, <2>1, <3>2 DEF PointsOK, Growing
  <2>4. points'[depthMap] = points[depthMap]
    BY <1>a, <1>b, <2>1 DEF NotInstalled
  <2>5. NotInstalled' /\ CopyHolds'
    BY <1>a, <2>1 DEF NotInstalled, CopyHolds
  <2>6. QED
    BY <1>a, <2>1, <2>2, <2>3, <2>4, <2>5
<1>2. CASE LoadInstalls
  <2> DEFINE both == points["loaded"] \cup points[depthMap]
  <2>1. /\ UNCHANGED <<checkpoint, importing, file, taken, boots, live>>
        /\ loader = "read" /\ loader' = "done" /\ depthMap' = "loaded"
        /\ points' = [points EXCEPT !["loaded"] = Newest(both)]
        /\ savedN' = Cardinality(Newest(both))
    BY <1>2 DEF LoadInstalls, SwappedIn
  <2>2. both \in SUBSET Soundings /\ points[depthMap] \in SUBSET both
    BY <1>b DEF Maps
  <2>3. savedN' \in Nat
    BY <2>1, <2>2, NewestBounded, DepthAssumption
  <2> HIDE DEF both
  <2>4. PointsOK' /\ \A s \in Nat : Kept(s, points[depthMap]) => Kept(s, points'["loaded"])
    BY <1>a, <2>1, <2>2, KeptAfter DEF Maps
  <2>5. DepthRest'
    BY <1>a, <2>1, <2>3 DEF DepthRest, Maps
  <2>6. NotInstalled' /\ CopyHolds'
    BY <1>a, <2>1 DEF NotInstalled, CopyHolds
  <2>7. QED
    BY <1>a, <1>b, <2>1, <2>4, <2>5, <2>6
<1>3. CASE Record
  <2> DEFINE more == points[depthMap] \cup {taken'}
  <2>1. /\ UNCHANGED <<depthMap, loader, savedN, checkpoint, importing, file, boots>>
        /\ taken < MaxSoundings /\ taken' = taken + 1 /\ live' = live \cup {taken'}
        /\ points' = [points EXCEPT ![depthMap] = Newest(more)]
    BY <1>3, <1>b DEF Record
  <2>2. taken' \in 2 .. MaxSoundings /\ taken' \in Soundings /\ taken' \in Nat
    BY <1>a, <2>1, DepthAssumption DEF DepthRest, Soundings
  <2>3. more \in SUBSET Soundings /\ points[depthMap] \in SUBSET more
        /\ {taken'} \in SUBSET more
    BY <1>b, <2>2
  <2> HIDE DEF more
  <2>4. PointsOK' /\ \A s \in Nat : Kept(s, points[depthMap]) => Kept(s, points'[depthMap])
    BY <1>a, <1>b, <2>1, <2>3, KeptAfter
  <2>5. Kept(taken', points'[depthMap])
    <3>1. Kept(taken', {taken'})
      BY DEF Kept
    <3>2. QED
      BY <1>a, <1>b, <2>1, <2>2, <2>3, <3>1, KeptAfter
  <2>6. DepthRest'
    BY <1>a, <2>1, <2>2 DEF DepthRest
  <2>7. NotInstalled' /\ CopyHolds'
    BY <1>a, <1>b, <2>1 DEF NotInstalled, CopyHolds
  <2>8. QED
    BY <1>a, <1>b, <2>1, <2>4, <2>5, <2>6, <2>7
<1>4. CASE CheckpointStarts
  <2>1. checkpoint' \in Jobs
    BY <1>4, <1>b, <1>a, CountTypes, IdleTypes DEF CheckpointStarts, Jobs
  <2>2. UNCHANGED <<points, depthMap, loader, savedN, importing, file, taken, boots, live>>
    BY <1>4 DEF CheckpointStarts
  <2>3. QED
    BY <1>a, <2>1, <2>2 DEF DepthRest, PointsOK, Growing, NotInstalled, CopyHolds
<1>5. CASE CheckpointWrites
  <2>1. /\ UNCHANGED <<points, depthMap, loader, savedN, importing, taken, boots, live>>
        /\ checkpoint' = [checkpoint EXCEPT !.at = "saved"] /\ Save(checkpoint.map)
    BY <1>5 DEF CheckpointWrites
  <2>2. file' \subseteq Soundings /\ checkpoint' \in Jobs
    BY <1>a, <2>1, SaveTypes DEF DepthRest, Jobs
  <2>3. QED
    BY <1>a, <2>1, <2>2 DEF DepthRest, PointsOK, Growing, NotInstalled, CopyHolds
<1>6. CASE CheckpointEnds
  <2>1. savedN' \in Nat /\ checkpoint' \in Jobs
    BY <1>6, <1>a, IdleTypes DEF CheckpointEnds, DepthRest, Jobs
  <2>2. UNCHANGED <<points, depthMap, loader, importing, file, taken, boots, live>>
    BY <1>6 DEF CheckpointEnds
  <2>3. QED
    BY <1>a, <2>1, <2>2 DEF DepthRest, PointsOK, Growing, NotInstalled, CopyHolds
<1>7. CASE ImportTakes
  <2>1. /\ UNCHANGED <<points, depthMap, loader, savedN, checkpoint, file, taken, boots, live>>
        /\ importing = Idle /\ importing' = [Idle EXCEPT !.at = "parsed", !.map = depthMap]
    BY <1>7 DEF ImportTakes
  <2>2. /\ importing' \in Jobs /\ importing'.at = "parsed" /\ importing'.n = 0
        /\ importing'.map = depthMap
    BY <1>b, <2>1 DEF Idle, Jobs
  <2>3. PointsOK'
    BY <1>a, <2>1, IdleTypes DEF PointsOK, Growing
  <2>4. NotInstalled' /\ CopyHolds'
    BY <1>a, <1>b, <2>1, <2>2 DEF NotInstalled, CopyHolds
  <2>5. QED
    BY <1>a, <2>1, <2>2, <2>3, <2>4 DEF DepthRest
<1>8. ASSUME NEW replace \in BOOLEAN, ImportExtends(replace)
      PROVE  /\ DepthRest' /\ PointsOK' /\ NotInstalled' /\ CopyHolds'
             /\ \A s \in live' : Kept(s, points'[depthMap'])
  <2> DEFINE m == importing.map
             more == IF replace THEN {taken'} ELSE points[m] \cup {taken'}
  <2>1. /\ UNCHANGED <<depthMap, loader, savedN, checkpoint, file, boots>>
        /\ importing.at = "parsed" /\ taken < MaxSoundings /\ taken' = taken + 1
        /\ importing' = [importing EXCEPT !.at = "extended"]
        /\ live' = IF replace /\ m = depthMap THEN {} ELSE live
        /\ points' = [points EXCEPT ![m] = more]
    BY <1>8, <1>b DEF ImportExtends
  <2>2. taken' \in 2 .. MaxSoundings /\ taken' \in Soundings /\ taken' \in Nat
    BY <1>a, <2>1, DepthAssumption DEF DepthRest, Soundings
  <2>3. more \in SUBSET Soundings /\ (~replace => points[m] \in SUBSET more)
    BY <1>b, <2>2
  <2>4. /\ importing' \in Jobs /\ importing'.at = "extended" /\ importing'.n = importing.n
        /\ importing'.map = m
    BY <1>a, <2>1 DEF DepthRest, Jobs
  <2>5. DepthRest'
    BY <1>a, <2>1, <2>2, <2>4 DEF DepthRest
  <2> HIDE DEF more, m
  <2>6. PointsOK'
    <3>1. \A k \in Maps : Growing(k)' <=> k = m
      BY <2>4 DEF Growing
    <3>2. \A k \in Maps : k # m => ~Growing(k) /\ points'[k] = points[k]
      BY <1>b, <2>1 DEF Growing
    <3>3. QED
      BY <1>a, <1>b, <2>1, <2>3, <3>1, <3>2 DEF PointsOK
  <2>7. NotInstalled' /\ CopyHolds'
    BY <1>a, <1>b, <2>1, <2>2, <2>4 DEF NotInstalled, CopyHolds, m
  <2>8. \A s \in live' : Kept(s, points'[depthMap])
    <3>1. CASE m # depthMap
      BY <1>a, <1>b, <2>1, <3>1
    <3>2. CASE m = depthMap /\ replace
      BY <2>1, <3>2
    <3>3. CASE m = depthMap /\ ~replace
      <4>1. points[m] \in SUBSET more /\ points'[m] = more /\ live' = live
        BY <1>b, <2>1, <2>3, <3>3 DEF m
      <4>2. \A s \in live : Kept(s, points[m]) => Kept(s, more)
        BY <1>b, <2>3, <4>1, KeptGrows
      <4>3. QED
        BY <1>a, <3>3, <4>1, <4>2
    <3>4. QED
      BY <3>1, <3>2, <3>3
  <2>9. QED
    BY <2>1, <2>5, <2>6, <2>7, <2>8
<1>9. CASE ImportCopies
  <2> DEFINE m == importing.map
  <2>1. /\ UNCHANGED <<points, depthMap, loader, savedN, checkpoint, file, taken, boots, live>>
        /\ importing.at = "extended"
        /\ importing' = IF Cardinality(points[m]) > MaxPoints
                        THEN [importing EXCEPT !.at = "copied", !.n = taken,
                                               !.copy = Newest(points[m])]
                        ELSE [importing EXCEPT !.at = "capped"]
    BY <1>9 DEF ImportCopies
  <2>2. /\ Newest(points[m]) \in SUBSET Soundings /\ Cardinality(Newest(points[m])) <= MaxPoints
        /\ Cardinality(points[m]) \in Nat /\ MaxPoints \in Nat
    BY <1>a, <1>b, NewestBounded, CountTypes, DepthAssumption
  <2>3. /\ importing' \in Jobs /\ importing'.map = m /\ importing'.n \in {importing.n, taken}
        /\ importing'.at \in {"copied", "capped"}
        /\ importing'.at = "copied" => /\ importing'.n = taken
                                       /\ importing'.copy = Newest(points[m])
        /\ importing'.at = "capped" => Cardinality(points[m]) <= MaxPoints
    <3>1. CASE Cardinality(points[m]) > MaxPoints
      BY <1>a, <1>b, <2>1, <2>2, <3>1 DEF DepthRest, Jobs, Soundings
    <3>2. CASE ~(Cardinality(points[m]) > MaxPoints)
      BY <1>a, <1>b, <2>1, <2>2, <3>2 DEF DepthRest, Jobs
    <3>3. QED
      BY <3>1, <3>2
  <2> HIDE DEF m
  <2>4. DepthRest'
    BY <1>a, <2>1, <2>3 DEF DepthRest
  <2>5. PointsOK'
    BY <1>a, <2>1, <2>3 DEF PointsOK, Growing, m
  <2>6. \A s \in live : Kept(s, points[depthMap]) => Kept(s, Newest(points[depthMap]))
    BY <1>b, NewestKeeps
  <2>7. NotInstalled' /\ CopyHolds'
    <3>1. importing'.n <= taken
      BY <1>a, <1>b, <2>3 DEF CopyHolds
    <3>2. QED
      BY <1>a, <2>1, <2>2, <2>3, <2>6, <3>1 DEF NotInstalled, CopyHolds, m
  <2>8. QED
    BY <1>a, <2>1, <2>4, <2>5, <2>7
<1>10. CASE ImportCaps
  <2> DEFINE m == importing.map
  <2>1. /\ UNCHANGED <<depthMap, loader, savedN, checkpoint, file, taken, boots>>
        /\ importing.at = "copied" /\ importing' = [Idle EXCEPT !.at = "capped", !.map = m]
        /\ points' = [points EXCEPT ![m] = importing.copy]
        /\ live' = IF m = depthMap THEN {s \in live : s <= importing.n} ELSE live
    BY <1>10 DEF ImportCaps
  <2>2. /\ importing' \in Jobs /\ importing'.at = "capped" /\ importing'.n = 0
        /\ importing'.map = m
    BY <1>b, <2>1 DEF Idle, Jobs
  <2>3. DepthRest'
    BY <1>a, <2>1, <2>2 DEF DepthRest
  <2>4. PointsOK'
    <3>1. Cardinality(importing.copy) <= MaxPoints
      BY <1>a, <2>1 DEF CopyHolds
    <3>2. \A k \in Maps : k # m => ~Growing(k) /\ points'[k] = points[k]
      BY <1>b, <2>1 DEF Growing
    <3>3. QED
      BY <1>a, <1>b, <2>1, <3>1, <3>2 DEF PointsOK
  <2>5. NotInstalled' /\ CopyHolds'
    BY <1>a, <1>b, <2>1, <2>2 DEF NotInstalled, CopyHolds
  <2>6. \A s \in live' : Kept(s, points'[depthMap])
    <3>1. CASE m # depthMap
      BY <1>a, <1>b, <2>1, <3>1
    <3>2. CASE m = depthMap
      <4>1. points'[depthMap] = importing.copy
        BY <1>b, <2>1, <3>2
      <4>2. \A s \in live' : s \in live /\ s \in Nat /\ ~(s > importing.n)
        BY <1>b, <2>1, <3>2
      <4>3. QED
        BY <1>a, <2>1, <3>2, <4>1, <4>2 DEF CopyHolds
    <3>3. QED
      BY <3>1, <3>2
  <2>7. QED
    BY <2>1, <2>3, <2>4, <2>5, <2>6
<1>11. CASE ImportSaves
  <2>1. /\ UNCHANGED <<points, depthMap, loader, checkpoint, taken, boots, live>>
        /\ importing.at = "capped" /\ importing' = Idle /\ Save(importing.map)
        /\ savedN' = Cardinality(points[importing.map])
    BY <1>11 DEF ImportSaves
  <2>2. file' \subseteq Soundings /\ savedN' \in Nat
    BY <1>a, <1>b, <2>1, SaveTypes, CountTypes
  <2>3. DepthRest'
    BY <1>a, <2>1, <2>2, IdleTypes DEF DepthRest
  <2>4. PointsOK'
    BY <1>a, <2>1, IdleTypes DEF PointsOK, Growing
  <2>5. NotInstalled' /\ CopyHolds'
    BY <1>a, <1>b, <2>1, IdleTypes DEF NotInstalled, CopyHolds
  <2>6. QED
    BY <1>a, <2>1, <2>3, <2>4, <2>5
<1>12. CASE RestoreDepth
  <2>1. /\ UNCHANGED <<loader, checkpoint, importing, taken, boots>>
        /\ importing.map # "restored"
        /\ file' \in {file, Backup} /\ depthMap' = "restored" /\ live' = {}
        /\ points' = [points EXCEPT !["restored"] = Newest(file')]
        /\ savedN' = Cardinality(Newest(file'))
    BY <1>12 DEF RestoreDepth
  <2>2. file' \in SUBSET Soundings
    BY <1>a, <2>1, DepthAssumption DEF DepthRest, Backup, Soundings
  <2>3. PointsOK'
    BY <1>a, <2>1, <2>2, KeptAfter DEF Maps
  <2>4. savedN' \in Nat
    BY <2>1, <2>2, NewestBounded, DepthAssumption
  <2>5. DepthRest'
    BY <1>a, <2>1, <2>2, <2>4 DEF DepthRest, Maps
  <2>6. NotInstalled' /\ CopyHolds'
    BY <1>a, <2>1 DEF NotInstalled, CopyHolds
  <2>7. QED
    BY <2>1, <2>3, <2>5, <2>6
<1>13. CASE Reboot
  <2>1. /\ boots < MaxBoots /\ boots' = boots + 1 /\ taken' = taken
        /\ Save(depthMap) /\ points' = [m \in Maps |-> {}] /\ depthMap' = "boot"
        /\ loader' = "reading" /\ savedN' = 0
        /\ checkpoint' = Idle /\ importing' = Idle /\ live' = {}
    BY <1>13 DEF Reboot, Booted
  <2>2. file' \subseteq Soundings
    BY <1>a, <1>b, <2>1, SaveTypes
  <2>3. PointsOK'
    <3>1. \A m \in Maps : points'[m] = {}
      BY <2>1
    <3>2. QED
      BY <2>1, <3>1, FS_EmptySet, DepthAssumption DEF PointsOK
  <2>4. DepthRest'
    <3>1. boots' \in 1 .. MaxBoots
      BY <1>a, <2>1, DepthAssumption DEF DepthRest
    <3>2. QED
      BY <1>a, <2>1, <2>2, <3>1, IdleTypes DEF DepthRest, Maps
  <2>5. NotInstalled' /\ CopyHolds'
    BY <1>b, <2>1, IdleTypes DEF NotInstalled, CopyHolds
  <2>6. QED
    BY <2>1, <2>3, <2>4, <2>5
<1>14. CASE UNCHANGED depthVars
  BY <1>14, <1>a DEF depthVars, DepthRest, PointsOK, Growing, NotInstalled, CopyHolds
<1>15. QED
  BY <1>1, <1>2, <1>3, <1>4, <1>5, <1>6, <1>7, <1>8, <1>9, <1>10, <1>11, <1>12, <1>13, <1>14
  DEF DepthNext

(* Whatever loads, saves, imports and restores overlap, no sounding taken  *)
(* at sea leaves the map but by replacement, a stop, or max_points newer   *)
(* ones: the swap of runtime.py replays what the map of now holds.         *)
THEOREM LiveSurvivesHolds == DepthSpec => [](DepthTypeOK /\ LiveSurvives)
<1>1. DepthInv => DepthTypeOK /\ LiveSurvives
  BY DEF DepthInv
<1>2. QED
  BY DepthStarts, DepthStep, <1>1, PTL DEF DepthSpec
-----------------------------------------------------------------------------
(* The heartbeat.  Until the numbers come round, the number the board      *)
(* echoes is flushed behind the one in use, and no line written since is   *)
(* remembered under it; once only such lines are remembered, every report  *)
(* leaves the clock running.                                               *)
RoundTo(n) == IF n < SeqModulo THEN n ELSE n - SeqModulo

BeatInv ==
    /\ HeartbeatTypeOK
    /\ flushed < SeqModulo =>
        /\ boardSeq # NoSeq => seqNo = RoundTo(boardSeq + flushed)
        /\ \A i \in 1 .. Len(recentSent) :
                i > Len(recentSent) - unheard => recentSent[i] # boardSeq
        /\ seqSupported /\ unheard >= RecentMax => ackAge >= unheard - RecentMax + 1

LEMMA BeatConstants ==
  /\ SeqModulo \in Nat /\ RecentMax \in Nat /\ AckTimeout \in Nat
  /\ SeqModulo > 0 /\ RecentMax > 0 /\ AckTimeout > 0 /\ RecentMax < SeqModulo
BY HeartbeatAssumption

LEMMA NextSeq == \A n \in Seqs : (n + 1) % SeqModulo = RoundTo(n + 1) /\ RoundTo(n + 1) \in Seqs
BY BeatConstants DEF Seqs, RoundTo

LEMMA BeatStarts == HeartbeatInit => BeatInv
<1> SUFFICES ASSUME HeartbeatInit PROVE BeatInv
  OBVIOUS
<1>1. recentSent \in Seq(Seqs) /\ Len(recentSent) = 0
  BY EmptySeq DEF HeartbeatInit
<1>2. HeartbeatTypeOK
  <2>1. Len(recentSent) <= RecentMax /\ 0 \in Seqs /\ Longest \in Nat
    BY <1>1, BeatConstants DEF Seqs, Longest
  <2>2. ackAge = 0 /\ unheard = 0 /\ flushed = 0 /\ seqNo = 0 /\ boardSeq = NoSeq
    BY DEF HeartbeatInit
  <2>3. ackAge \in 0 .. AckTimeout + 1 /\ unheard \in 0 .. Longest /\ flushed \in 0 .. SeqModulo
    BY <2>1, <2>2, BeatConstants
  <2>4. {portOpen, supHealthy, seqSupported} \subseteq BOOLEAN
    BY DEF HeartbeatInit
  <2>5. QED
    BY <1>1, <2>1, <2>2, <2>3, <2>4 DEF HeartbeatTypeOK
<1>3. seqSupported = FALSE /\ boardSeq = NoSeq
  BY DEF HeartbeatInit
<1>4. \A i \in 1 .. Len(recentSent) : FALSE
  BY <1>1
<1>5. QED
  BY <1>2, <1>3, <1>4 DEF BeatInv

(* What is remembered after a line that lands: the new number last.        *)
LEMMA RememberedSeqs ==
  ASSUME HeartbeatTypeOK, NEW n \in Seqs
  PROVE  /\ Remembering(n) \in Seq(Seqs) /\ Len(Remembering(n)) <= RecentMax
         /\ \A i \in 1 .. Len(Remembering(n)) :
                \/ Remembering(n)[i] = n
                \/ \E j \in 1 .. Len(recentSent) :
                        /\ Remembering(n)[i] = recentSent[j]
                        /\ j - Len(recentSent) = i - Len(Remembering(n)) + 1
<1> DEFINE all == Append(recentSent, n)
           l == Len(recentSent)
<1>1. /\ all \in Seq(Seqs) /\ Len(all) = l + 1 /\ all # <<>>
      /\ \A i \in 1 .. l : all[i] = recentSent[i]
      /\ all[l + 1] = n
  BY AppendProperties DEF HeartbeatTypeOK
<1>2. l \in Nat /\ l <= RecentMax /\ RecentMax \in Nat
  BY BeatConstants DEF HeartbeatTypeOK
<1>3. Remembering(n) = IF Len(all) > RecentMax THEN Tail(all) ELSE all
  BY DEF Remembering
<1> HIDE DEF all, l
<1>4. CASE Len(all) > RecentMax
  <2>1. /\ Tail(all) \in Seq(Seqs) /\ Len(Tail(all)) = l
        /\ \A i \in 1 .. l : Tail(all)[i] = all[i + 1]
    <3>1. Len(Tail(all)) = Len(all) - 1
      BY <1>1, HeadTailProperties
    <3>2. Len(Tail(all)) = l
      BY <1>1, <1>2, <3>1
    <3>3. QED
      BY <1>1, <3>2, HeadTailProperties
  <2>2. ASSUME NEW i \in 1 .. l
        PROVE  \/ Tail(all)[i] = n
               \/ \E j \in 1 .. l : Tail(all)[i] = recentSent[j] /\ j - l = i - l + 1
    <3>1. CASE i = l
      BY <1>1, <2>1, <3>1
    <3>2. CASE i # l
      <4>1. i + 1 \in 1 .. l /\ (i + 1) - l = i - l + 1
        BY <1>2, <3>2
      <4>2. Tail(all)[i] = recentSent[i + 1]
        BY <1>1, <2>1, <4>1
      <4>3. QED
        BY <4>1, <4>2
    <3>3. QED
      BY <3>1, <3>2
  <2>3. QED
    BY <1>2, <1>3, <1>4, <2>1, <2>2 DEF l
<1>5. CASE ~(Len(all) > RecentMax)
  <2>1. Len(all) <= RecentMax
    BY <1>1, <1>2, <1>5
  <2>2. ASSUME NEW i \in 1 .. (l + 1)
        PROVE  \/ all[i] = n
               \/ \E j \in 1 .. l : all[i] = recentSent[j] /\ j - l = i - (l + 1) + 1
    <3>1. CASE i = l + 1
      BY <1>1, <3>1
    <3>2. CASE i # l + 1
      <4>1. i \in 1 .. l /\ i - l = i - (l + 1) + 1
        BY <1>2, <3>2
      <4>2. QED
        BY <1>1, <4>1
    <3>3. QED
      BY <3>1, <3>2
  <2>3. QED
    BY <1>1, <1>3, <1>5, <2>1, <2>2 DEF l
<1>6. QED
  BY <1>4, <1>5

(* The echo of a board that hears nothing is not answered by a line that   *)
(* was written since.                                                      *)
LEMMA NotAcked ==
  ASSUME BeatInv, flushed < SeqModulo, unheard >= RecentMax
  PROVE  ~Acks(boardSeq)
<1>1. /\ recentSent \in Seq(Seqs) /\ Len(recentSent) \in Nat /\ Len(recentSent) <= RecentMax
      /\ RecentMax \in Nat /\ unheard \in Nat
  BY BeatConstants DEF BeatInv, HeartbeatTypeOK, Longest
<1>2. \A i \in 1 .. Len(recentSent) : recentSent[i] # boardSeq
  BY <1>1 DEF BeatInv
<1>3. QED
  BY <1>1, <1>2 DEF Acks

LEMMA FlushKeeps ==
  ASSUME BeatInv, NEW lands \in BOOLEAN, NEW heard \in BOOLEAN, BeatFlush(lands, heard)
  PROVE  BeatInv'
<1> USE BeatConstants
<1>a. /\ seqNo \in Seqs /\ boardSeq \in Seqs \cup {NoSeq} /\ recentSent \in Seq(Seqs)
      /\ Len(recentSent) \in Nat /\ Len(recentSent) <= RecentMax
      /\ ackAge \in 0 .. AckTimeout + 1 /\ unheard \in 0 .. Longest
      /\ flushed \in 0 .. SeqModulo /\ Longest = RecentMax + AckTimeout
  BY DEF BeatInv, HeartbeatTypeOK, Longest
<1>b. seqNo' = RoundTo(seqNo + 1) /\ seqNo' \in Seqs
  BY <1>a, NextSeq DEF BeatFlush
<1>c. /\ ackAge' = Aged(ackAge) /\ ackAge' \in 0 .. AckTimeout + 1
      /\ ackAge' = ackAge + 1 \/ (ackAge' = ackAge /\ ackAge = AckTimeout + 1)
  <2>1. ackAge' = Aged(ackAge)
    BY DEF BeatFlush
  <2>2. QED
    BY <1>a, <2>1 DEF Aged, UpTo
<1>d. recentSent' = IF lands THEN Remembering(seqNo') ELSE recentSent
  BY DEF BeatFlush
<1>e. recentSent' \in Seq(Seqs) /\ Len(recentSent') \in Nat /\ Len(recentSent') <= RecentMax
  <2>1. lands => recentSent' \in Seq(Seqs) /\ Len(recentSent') <= RecentMax
    BY <1>b, <1>d, RememberedSeqs DEF BeatInv
  <2>2. QED
    BY <1>a, <1>d, <2>1
<1>f. seqSupported' = seqSupported /\ seqSupported \in BOOLEAN /\ portOpen' \in BOOLEAN
      /\ supHealthy' \in BOOLEAN
  BY DEF BeatFlush, BeatInv, HeartbeatTypeOK
<1>1. CASE heard
  <2>1. boardSeq' = seqNo' /\ unheard' = 0 /\ flushed' = 0
    BY <1>1 DEF BeatFlush
  <2>2. HeartbeatTypeOK'
    BY <1>a, <1>b, <1>c, <1>e, <1>f, <2>1 DEF HeartbeatTypeOK, Longest
  <2>3. seqNo' = RoundTo(boardSeq' + flushed')
    BY <1>b, <2>1 DEF RoundTo, Seqs
  <2>4. \A i \in 1 .. Len(recentSent') : ~(i > Len(recentSent') - unheard')
    BY <1>e, <2>1
  <2>5. ~(unheard' >= RecentMax)
    BY <2>1
  <2>6. QED
    BY <2>2, <2>3, <2>4, <2>5 DEF BeatInv
<1>2. CASE ~heard
  <2>1. /\ boardSeq' = boardSeq
        /\ unheard' = IF lands THEN UpTo(unheard + 1, Longest) ELSE unheard
        /\ flushed' = UpTo(flushed + 1, SeqModulo)
    BY <1>2 DEF BeatFlush
  <2>2. /\ unheard' \in 0 .. Longest
        /\ lands => unheard' = unheard + 1 \/ (unheard' = unheard /\ unheard = Longest)
        /\ ~lands => unheard' = unheard
    BY <1>a, <2>1 DEF UpTo
  <2>3. /\ flushed' \in 0 .. SeqModulo
        /\ flushed' < SeqModulo => flushed' = flushed + 1 /\ flushed < SeqModulo
    BY <1>a, <2>1 DEF UpTo
  <2>4. HeartbeatTypeOK'
    BY <1>a, <1>b, <1>c, <1>e, <1>f, <2>1, <2>2, <2>3 DEF HeartbeatTypeOK
  <2>5. ASSUME flushed' < SeqModulo, boardSeq # NoSeq
        PROVE  seqNo' = RoundTo(boardSeq + flushed') /\ seqNo' # boardSeq
    <3>1. seqNo = RoundTo(boardSeq + flushed) /\ boardSeq \in Seqs
      BY <1>a, <2>3, <2>5 DEF BeatInv
    <3>2. QED
      BY <1>a, <1>b, <2>3, <2>5, <3>1 DEF RoundTo, Seqs
  <2>6. ASSUME flushed' < SeqModulo, NEW i \in 1 .. Len(recentSent'),
               i > Len(recentSent') - unheard'
        PROVE  recentSent'[i] # boardSeq
    <3>1. CASE boardSeq = NoSeq
      <4>1. recentSent'[i] \in Seqs
        BY <1>e
      <4>2. QED
        BY <3>1, <4>1 DEF NoSeq, Seqs
    <3>2. CASE boardSeq # NoSeq /\ ~lands
      BY <1>d, <2>2, <2>3, <2>6, <3>2 DEF BeatInv
    <3>3. CASE boardSeq # NoSeq /\ lands
      <4>1. seqNo' # boardSeq
        BY <2>5, <2>6, <3>3
      <4>2. recentSent' = Remembering(seqNo')
        BY <1>d, <3>3
      <4>3. CASE recentSent'[i] = seqNo'
        BY <4>1, <4>3
      <4>4. ASSUME NEW j \in 1 .. Len(recentSent), recentSent'[i] = recentSent[j],
                   j - Len(recentSent) = i - Len(recentSent') + 1
            PROVE  recentSent'[i] # boardSeq
        <5>1. j > Len(recentSent) - unheard
          BY <1>a, <1>e, <2>2, <2>6, <3>3, <4>4
        <5>2. QED
          BY <2>3, <2>6, <4>4, <5>1 DEF BeatInv
      <4>5. QED
        BY <1>b, <4>2, <4>3, <4>4, RememberedSeqs DEF BeatInv
    <3>4. QED
      BY <3>1, <3>2, <3>3
  <2>7. ASSUME flushed' < SeqModulo, seqSupported, unheard' >= RecentMax
        PROVE  ackAge' >= unheard' - RecentMax + 1
    <3>1. unheard >= RecentMax => ackAge >= unheard - RecentMax + 1
      BY <2>3, <2>7 DEF BeatInv
    <3>2. unheard' = unheard \/ unheard' = unheard + 1
      BY <2>2
    <3>3. unheard' <= RecentMax + AckTimeout
      BY <1>a, <2>2
    <3>4. CASE unheard >= RecentMax
      BY <1>a, <1>c, <3>1, <3>2, <3>3, <3>4
    <3>5. CASE ~(unheard >= RecentMax)
      BY <1>a, <1>c, <2>7, <3>2, <3>3, <3>5
    <3>6. QED
      BY <3>4, <3>5
  <2>8. QED
    BY <1>f, <2>1, <2>4, <2>5, <2>6, <2>7 DEF BeatInv
<1>3. QED
  BY <1>1, <1>2

LEMMA BeatStep == BeatInv /\ [HeartbeatNext]_beatVars => BeatInv'
<1> SUFFICES ASSUME BeatInv, [HeartbeatNext]_beatVars PROVE BeatInv'
  OBVIOUS
<1> USE BeatConstants
<1>a. /\ ackAge \in 0 .. AckTimeout + 1 /\ unheard \in 0 .. Longest
      /\ flushed \in 0 .. SeqModulo /\ Longest = RecentMax + AckTimeout
  BY DEF BeatInv, HeartbeatTypeOK, Longest
<1>1. ASSUME NEW lands \in BOOLEAN, NEW heard \in BOOLEAN, BeatFlush(lands, heard)
      PROVE  BeatInv'
  BY <1>1, FlushKeeps
<1>2. CASE NoFlush
  <2>1. /\ UNCHANGED <<portOpen, supHealthy, seqNo, recentSent, seqSupported, boardSeq,
                       unheard, flushed>>
        /\ ackAge' = Aged(ackAge)
    BY <1>2 DEF NoFlush
  <2>2. ackAge' \in 0 .. AckTimeout + 1 /\ ackAge' >= ackAge
    BY <1>a, <2>1 DEF Aged, UpTo
  <2>3. HeartbeatTypeOK'
    BY <2>1, <2>2 DEF BeatInv, HeartbeatTypeOK
  <2>4. ackAge >= unheard - RecentMax + 1 => ackAge' >= unheard - RecentMax + 1
    BY <1>a, <2>2
  <2>5. QED
    BY <2>1, <2>3, <2>4 DEF BeatInv
<1>3. CASE Report
  <2>1. /\ UNCHANGED <<portOpen, supHealthy, seqNo, recentSent, boardSeq, flushed>>
        /\ seqSupported' = TRUE
        /\ ackAge' = IF ~seqSupported \/ Acks(boardSeq) THEN 0 ELSE ackAge
        /\ unheard' = IF seqSupported THEN unheard ELSE 0
    BY <1>3 DEF Report
  <2>2. HeartbeatTypeOK'
    BY <1>a, <2>1 DEF BeatInv, HeartbeatTypeOK
  <2>3. CASE seqSupported
    <3>1. flushed < SeqModulo /\ unheard >= RecentMax => ackAge' = ackAge
      BY <2>1, <2>3, NotAcked
    <3>2. QED
      BY <2>1, <2>2, <2>3, <3>1 DEF BeatInv
  <2>4. CASE ~seqSupported
    <3>1. unheard' = 0
      BY <2>1, <2>4
    <3>2. ~(unheard' >= RecentMax)
      BY <3>1
    <3>3. \A i \in 1 .. Len(recentSent') : ~(i > Len(recentSent') - unheard')
      <4>1. Len(recentSent') \in Nat
        BY <2>2 DEF HeartbeatTypeOK
      <4>2. QED
        BY <3>1, <4>1
    <3>4. flushed' < SeqModulo /\ boardSeq' # NoSeq => seqNo' = RoundTo(boardSeq' + flushed')
      BY <2>1 DEF BeatInv
    <3>5. QED
      BY <2>2, <3>2, <3>3, <3>4 DEF BeatInv
  <2>5. QED
    BY <2>3, <2>4
<1>4. CASE PortLost \/ Reopened
  <2>1. /\ UNCHANGED <<seqNo, recentSent, seqSupported, ackAge, boardSeq, unheard, flushed>>
        /\ portOpen' \in BOOLEAN /\ supHealthy' \in BOOLEAN
    BY <1>4 DEF PortLost, Reopened
  <2>2. HeartbeatTypeOK'
    BY <2>1 DEF BeatInv, HeartbeatTypeOK
  <2>3. QED
    BY <2>1, <2>2 DEF BeatInv
<1>5. CASE EchoReset
  <2>1. /\ UNCHANGED <<portOpen, supHealthy, seqNo, recentSent, seqSupported, ackAge,
                       unheard, flushed>>
        /\ boardSeq' = NoSeq
    BY <1>5 DEF EchoReset
  <2>2. HeartbeatTypeOK'
    BY <2>1 DEF BeatInv, HeartbeatTypeOK
  <2>3. \A i \in 1 .. Len(recentSent) : recentSent[i] # NoSeq
    BY DEF BeatInv, HeartbeatTypeOK, Seqs, NoSeq
  <2>4. QED
    BY <2>1, <2>2, <2>3 DEF BeatInv
<1>6. CASE UNCHANGED beatVars
  BY <1>6 DEF beatVars, BeatInv, HeartbeatTypeOK
<1>7. QED
  BY <1>1, <1>2, <1>3, <1>4, <1>5, <1>6 DEF HeartbeatNext

(* A line broken one way is found out, for every modulo, memory and        *)
(* timeout, however reports, losses and reopened ports interleave:         *)
(* _note_seq and healthy of serial_devices.py.                             *)
THEOREM DeafBoardNoticedHolds == HeartbeatSpec => [](HeartbeatTypeOK /\ DeafBoardNoticed)
<1>1. BeatInv => HeartbeatTypeOK /\ DeafBoardNoticed
  <2> SUFFICES ASSUME BeatInv, seqSupported, unheard = Longest, flushed < SeqModulo
               PROVE  ~DriverHealthy
    BY DEF BeatInv, DeafBoardNoticed
  <2>1. unheard = RecentMax + AckTimeout /\ unheard >= RecentMax
    BY BeatConstants DEF Longest
  <2>2. ackAge >= unheard - RecentMax + 1 /\ ackAge \in Int
    BY <2>1, BeatConstants DEF BeatInv, HeartbeatTypeOK
  <2>3. ackAge > AckTimeout
    BY <2>1, <2>2, BeatConstants
  <2>4. QED
    BY <2>2, <2>3, BeatConstants DEF DriverHealthy
<1>2. QED
  BY BeatStarts, BeatStep, <1>1, PTL DEF HeartbeatSpec
-----------------------------------------------------------------------------
(* The types of the other parts.  The remote's silence is counted up to its*)
(* expiry, and a frame that brings another one restarts it.                *)
LEMMA ClampedRange ==
  /\ \A t \in Expiries : Clamped(t) \in MinExpiry .. MaxExpiry
  /\ MinExpiry \in Nat /\ MaxExpiry \in Nat
  /\ \A n \in Expiries \cup (MinExpiry .. MaxExpiry) : n \in Nat /\ 0 \in 0 .. n
BY RemoteAssumption DEF Clamped

(* The remotes keep their types, whatever timeouts the frames carry:       *)
(* rf_remote.py and nmea2000.py.                                           *)
THEOREM RemoteTypeCorrect == RemoteSpec => []RemoteTypeOK
<1>1. RemoteInit => RemoteTypeOK
  <2> SUFFICES ASSUME RemoteInit PROVE RemoteTypeOK
    OBVIOUS
  <2>1. expiry \in Expiries \cup (MinExpiry .. MaxExpiry)
    BY ClampedRange DEF RemoteInit
  <2>2. silence \in 0 .. expiry
    BY <2>1, ClampedRange DEF RemoteInit
  <2>3. QED
    BY <2>1, <2>2 DEF RemoteInit, RemoteTypeOK
<1>2. RemoteTypeOK /\ [RemoteNext]_remoteVars => RemoteTypeOK'
  <2> SUFFICES ASSUME RemoteTypeOK, [RemoteNext]_remoteVars PROVE RemoteTypeOK'
    OBVIOUS
  <2> USE DEF RemoteTypeOK, Order, Disarm
  <2>a. expiry \in Nat /\ 0 \in 0 .. expiry
    BY ClampedRange
  <2>1. ASSUME NEW driven \in BOOLEAN, Stick(driven) PROVE RemoteTypeOK'
    BY <2>1, <2>a DEF Stick, Drive
  <2>2. ASSUME NEW off \in BOOLEAN, NEW speed \in BOOLEAN, NEW timeout \in Expiries,
               Frame(off, speed, timeout)
        PROVE  RemoteTypeOK'
    <3>1. expiry' \in MinExpiry .. MaxExpiry
      BY <2>2, ClampedRange DEF Frame
    <3>2. silence' = 0 /\ 0 \in 0 .. expiry'
      BY <2>2, <3>1, ClampedRange DEF Frame, Drive
    <3>3. QED
      BY <2>2, <3>1, <3>2 DEF Frame, Drive
  <2>3. ASSUME NEW which \in {"STOP", "MANUAL", "ANCHOR"}, Button(which) PROVE RemoteTypeOK'
    BY <2>3, <2>a DEF Button
  <2>4. CASE RemoteTick
    <3>1. silence < expiry => silence + 1 \in 0 .. expiry
      BY <2>a
    <3>2. silence' \in 0 .. expiry
      BY <2>4, <2>a, <3>1 DEF RemoteTick
    <3>3. UNCHANGED <<fitted, kind, running, linked, expiry, refused>>
          /\ latched' \in BOOLEAN /\ boat' \in {"still", boat} /\ by' \in {"remote", by}
      BY <2>4 DEF RemoteTick
    <3>4. QED
      BY <3>2, <3>3
  <2>5. CASE LinkLost \/ LinkBack
    BY <2>5, <2>a DEF LinkLost, LinkBack
  <2>6. CASE ConnectorStops \/ ConnectorStarts
    BY <2>6, <2>a DEF ConnectorStops, ConnectorStarts
  <2>7. ASSUME NEW does \in {"still", "driven", "hold"}, AppOrders(does) PROVE RemoteTypeOK'
    BY <2>7 DEF AppOrders
  <2>8. CASE UNCHANGED remoteVars
    BY <2>8 DEF remoteVars
  <2>9. QED
    BY <2>1, <2>2, <2>3, <2>4, <2>5, <2>6, <2>7, <2>8 DEF RemoteNext
<1>3. QED
  BY <1>1, <1>2, PTL DEF RemoteSpec

(* Overlapping and failing reloads keep their types: reload_devices.       *)
THEOREM ReloadTypeCorrect == ReloadSpec => []ReloadTypeOK
<1>1. ReloadInit => ReloadTypeOK
  BY DEF ReloadInit, ReloadTypeOK, DeviceSets
<1>2. ReloadTypeOK /\ [ReloadNext]_reloadVars => ReloadTypeOK'
  BY DEF ReloadTypeOK, DeviceSets, ReloadNext, StartSensors, StartMotor, RollBack, RetireSensors,
         Swap, Replaced, StopOldMotor, Reached, reloadVars
<1>3. QED
  BY <1>1, <1>2, PTL DEF ReloadSpec

(* A calibration drive keeps its types: start, cancel and _run of          *)
(* calibration.py.                                                         *)
THEOREM DriveTypeCorrect == CalibrationSpec => []DriveTypeOK
<1>1. CalibrationInit => DriveTypeOK
  <2> SUFFICES ASSUME CalibrationInit PROVE DriveTypeOK
    OBVIOUS
  <2>1. drives \in 0 .. MaxDrives
    BY DriveAssumption DEF CalibrationInit
  <2>2. QED
    BY <2>1 DEF CalibrationInit, DriveTypeOK, DrivePhases, Profiles
<1>2. DriveTypeOK /\ DriveInv' /\ [CalibrationNext]_driveVars => DriveTypeOK'
  <2> SUFFICES ASSUME DriveTypeOK, DriveInv', [CalibrationNext]_driveVars PROVE DriveTypeOK'
    OBVIOUS
  <2> USE DEF DriveTypeOK, Manual
  <2>1. CASE CalibrationStarts
    <3>1. drives' \in 0 .. MaxDrives
      BY <2>1, DriveAssumption DEF CalibrationStarts
    <3>2. QED
      BY <2>1, <3>1 DEF CalibrationStarts, DrivePhases
  <2>2. CASE CancelAsked
    BY <2>2 DEF CancelAsked
  <2>3. CASE CancelSeen \/ TurnRefused
    BY <2>3 DEF CancelSeen, TurnRefused, Quits, DrivePhases
  <2>4. CASE TuningEnds
    BY <2>4 DEF TuningEnds, DrivePhases
  <2>5. ASSUME NEW p \in DrivePhases, PhaseEnds(p) PROVE DriveTypeOK'
    <3>1. p \in {"trim_off", "trim_on", "coast", "turn", "reverse", "reverse_turn", "tuning"}
      BY <2>5 DEF PhaseEnds, PhaseOrder
    <3>2. motion' \in {"still", "ahead", "turning", "astern"}
      BY <2>5, <3>1 DEF PhaseEnds, Motion
    <3>3. trimKept' \in Profiles
      BY DEF DriveInv
    <3>4. /\ phaseNow' = p /\ orderedBy' = "drive"
          /\ UNCHANGED <<cancelAsked, outcome, profile, drives>>
          /\ helmTrim' \in {Off, trimKept, helmTrim}
      BY <2>5 DEF PhaseEnds
    <3>5. helmTrim' \in Profiles \cup {Off}
      BY <3>4
    <3>6. QED
      BY <3>2, <3>3, <3>4, <3>5
  <2>6. CASE OperatorStops \/ OperatorDrives
    BY <2>6 DEF OperatorStops, OperatorDrives
  <2>7. ASSUME NEW p \in Profiles, NewProfile(p) PROVE DriveTypeOK'
    BY <2>7 DEF NewProfile
  <2>8. CASE UNCHANGED driveVars
    BY <2>8 DEF driveVars
  <2>9. QED
    BY <2>1, <2>2, <2>3, <2>4, <2>5, <2>6, <2>7, <2>8 DEF CalibrationNext
<1>3. CalibrationSpec => []DriveInv
  BY DriveStarts, DriveStep, PTL DEF CalibrationSpec
<1>4. QED
  BY <1>1, <1>2, <1>3, PTL DEF CalibrationSpec

(* The steering board's angles, clocks and bridge stay in their ranges:    *)
(* steering.ino.                                                           *)
THEOREM SteerTypeCorrect == SteerSpec => []SteerTypeOK
<1> USE SteeringAssumption
<1>1. SteerInit => SteerTypeOK
  <2> SUFFICES ASSUME SteerInit PROVE SteerTypeOK
    OBVIOUS
  <2>1. /\ head \in Heads /\ goal = head /\ stallRef = head /\ stallFor = NoClock
        /\ hostAge = 0 /\ bridge = 0 /\ pushed = 0 /\ stalled = FALSE /\ jammed = FALSE
    BY DEF SteerInit
  <2>2. stallRef \in -HeadRange - Noise .. HeadRange + Noise
    BY <2>1 DEF Heads
  <2>3. stallFor \in NoClock .. StallTime + 1 /\ hostAge \in 0 .. HostQuiet + 1
    BY <2>1 DEF NoClock
  <2>4. {goal, head} \subseteq Heads /\ {jammed, stalled} \subseteq BOOLEAN
    BY <2>1
  <2>5. bridge \in -1 .. 1 /\ pushed \in Nat
    BY <2>1
  <2>6. QED
    BY <2>2, <2>3, <2>4, <2>5 DEF SteerTypeOK
<1>2. SteerTypeOK /\ SteerInv' /\ [SteerNext]_steerVars => SteerTypeOK'
  <2> SUFFICES ASSUME SteerTypeOK, SteerInv', [SteerNext]_steerVars PROVE SteerTypeOK'
    OBVIOUS
  <2>a. /\ goal' \in Heads /\ head' \in Heads /\ stallFor' \in NoClock .. StallTime + 1
        /\ bridge' \in -1 .. 1 /\ pushed' \in Nat
    BY DEF SteerInv
  <2>1. ASSUME NEW t \in Targets, SetTarget(t) PROVE SteerTypeOK'
    <3>1. hostAge' \in 0 .. HostQuiet + 1
      BY <2>1 DEF SetTarget
    <3>2. UNCHANGED <<jammed, stallRef, stalled>>
      BY <2>1 DEF SetTarget
    <3>3. QED
      BY <2>a, <3>1, <3>2 DEF SteerTypeOK
  <2>2. ASSUME NEW step \in {0, 1, 2 * StallMove}, NEW noise \in -Noise .. Noise,
               NEW potOk \in BOOLEAN, BoardLoop(step, noise, potOk)
        PROVE  SteerTypeOK'
    <3> DEFINE a == head' + noise
    <3>1. a \in -HeadRange - Noise .. HeadRange + Noise
      BY <2>a DEF Heads
    <3> HIDE DEF a
    <3>2. UpdateControl(a, potOk) /\ jammed' = jammed
          /\ hostAge' = IF hostAge > HostQuiet THEN hostAge ELSE hostAge + 1
      BY <2>2 DEF BoardLoop, a
    <3>3. stallRef' \in {stallRef, a}
      BY <3>2 DEF UpdateControl, StallClock
    <3>4. stalled' \in BOOLEAN
      BY <3>2, Zenon DEF UpdateControl, StallClock, SteerTypeOK
    <3>5. hostAge' \in 0 .. HostQuiet + 1
      BY <3>2 DEF SteerTypeOK
    <3>6. QED
      BY <2>a, <3>1, <3>2, <3>3, <3>4, <3>5 DEF SteerTypeOK
  <2>3. CASE Jam
    BY <2>a, <2>3 DEF Jam, SteerTypeOK
  <2>4. CASE UNCHANGED steerVars
    BY <2>4 DEF steerVars, SteerTypeOK
  <2>5. QED
    BY <2>1, <2>2, <2>3, <2>4 DEF SteerNext
<1>3. SteerSpec => []SteerInv
  BY SteerStarts, SteerStep, PTL DEF SteerSpec
<1>4. QED
  BY <1>1, <1>2, <1>3, PTL DEF SteerSpec

-----------------------------------------------------------------------------
(* The work area: wherever a course turns or ends, it leads to a spot.     *)
LEMMA AdvanceStays ==
  ASSUME WorkTypeOK, work.spots > 0
  PROVE  /\ Advance.spot \in Spots /\ Advance.way \in {-1, 1}
         /\ Advance.over \in BOOLEAN
<1> DEFINE n == work.spots
           next == spot + way
<1>1. n \in Nat /\ n > 0 /\ spot \in Nat /\ spot < n /\ way \in {-1, 1}
  <2>1. n \in Nat /\ spot \in Nat /\ way \in {-1, 1}
    <3>1. n \in SpotCounts \cup {0}
      BY DEF WorkTypeOK
    <3>2. n \in Nat
      <4>1. \A k \in SpotCounts : k \in Nat
        BY WorkAssumption
      <4>2. CASE n = 0
        BY <4>2
      <4>3. QED
        BY <3>1, <4>1, <4>2
    <3>3. QED
      BY <3>2 DEF WorkTypeOK
  <2>2. spot \in 0 .. n - 1
    BY DEF WorkTypeOK, Spots
  <2>3. QED
    BY <2>1, <2>2
<1>2. \A k \in Int : k \in Spots <=> 0 <= k /\ k < n
  BY <1>1 DEF Spots
<1>3. next \in Int
  BY <1>1
<1>4. CASE next \in Spots
  <2>1. Advance = [spot |-> next, way |-> way, over |-> FALSE]
    BY <1>4 DEF Advance
  <2>2. QED
    BY <1>1, <1>4, <2>1
<1>5. CASE next \notin Spots
  <2>1. (way = 1 /\ spot = n - 1) \/ (way = -1 /\ spot = 0)
    BY <1>1, <1>2, <1>3, <1>5
  <2>2. CASE work.course = "loop"
    <3>1. Advance = [spot |-> 0, way |-> 1, over |-> FALSE]
      BY <1>5, <2>2 DEF Advance, Bounced
    <3>2. QED
      BY <1>1, <1>2, <3>1
  <2>3. CASE work.course # "loop" /\ work.course = "patrol" /\ n >= 2
    <3>1. Advance = [spot |-> next - 2 * way, way |-> -way, over |-> FALSE]
      BY <1>5, <2>3 DEF Advance, Bounced
    <3>2. next - 2 * way \in Int /\ 0 <= next - 2 * way /\ next - 2 * way < n
          /\ -way \in {-1, 1}
      BY <1>1, <2>1, <2>3
    <3>3. QED
      BY <1>2, <3>1, <3>2
  <2>4. CASE work.course # "loop" /\ ~(work.course = "patrol" /\ n >= 2)
    <3>1. Bounced(next) = [spot |-> next, way |-> way, over |-> TRUE]
      BY <2>4 DEF Bounced
    <3>2. /\ Advance.spot = IF way > 0 THEN n - 1 ELSE 0
          /\ Advance.way = way /\ Advance.over = TRUE
      BY <1>5, <3>1 DEF Advance
    <3>3. Advance.spot \in Int /\ 0 <= Advance.spot /\ Advance.spot < n
      BY <1>1, <3>2
    <3>4. QED
      BY <1>1, <1>2, <3>2, <3>3
  <2>5. QED
    BY <2>2, <2>3, <2>4
<1>6. QED
  BY <1>4, <1>5

(* The work area's spot stays one of its spots, through presses, pauses and *)
(* bounces at either end: WorkAreaMode.                                    *)
THEOREM WorkTypeCorrect == WorkSpec => []WorkTypeOK
<1> USE WorkAssumption
<1>1. WorkInit => WorkTypeOK
  <2> SUFFICES ASSUME WorkInit PROVE WorkTypeOK
    OBVIOUS
  <2>1. work = [spots |-> 0, course |-> "once", timed |-> FALSE] /\ ~(work.spots > 0)
    BY DEF WorkInit
  <2>2. dwelt \in 0 .. Dwell /\ spot \in Nat /\ way \in {-1, 1}
    BY DEF WorkInit
  <2>3. {inWork, finished, nextAsked} \subseteq BOOLEAN /\ phase \in {"travel", "hold"}
        /\ place = Between /\ paused = NotPaused
    BY DEF WorkInit
  <2>4. work \in [spots : SpotCounts \cup {0}, course : Courses, timed : BOOLEAN]
    BY <2>1 DEF Courses
  <2>5. QED
    BY <2>1, <2>2, <2>3, <2>4 DEF WorkTypeOK
<1>2. WorkTypeOK /\ [WorkNext]_workVars => WorkTypeOK'
  <2> SUFFICES ASSUME WorkTypeOK, [WorkNext]_workVars PROVE WorkTypeOK'
    OBVIOUS
  <2>a. 0 \in 0 .. Dwell /\ Dwell \in Nat
    OBVIOUS
  <2>b. UNCHANGED work => Spots' = Spots
    BY DEF Spots
  <2>c. \A n \in SpotCounts \cup {0} : n \in Nat
    BY WorkAssumption
  <2>1. ASSUME NEW n \in SpotCounts, NEW c \in Courses, NEW timed \in BOOLEAN,
               WorkOrder(n, c, timed)
        PROVE  WorkTypeOK'
    <3>1. /\ work' = [spots |-> n, course |-> c, timed |-> timed]
          /\ spot' = 0 /\ place' = Between /\ paused' = paused
          /\ inWork' = TRUE /\ phase' = "travel" /\ way' = 1 /\ dwelt' = 0
          /\ finished' = FALSE /\ nextAsked' = FALSE
      BY <2>1 DEF WorkOrder, Activate
    <3>2. n \in Nat /\ Spots' = 0 .. n - 1
      BY <3>1 DEF Spots
    <3>3. place' \in Spots' \cup {Between}
      BY <3>1, <3>2 DEF Between
    <3>4. work'.spots > 0 => spot' \in Spots'
      BY <3>1, <3>2
    <3>5. {inWork', finished', nextAsked'} \subseteq BOOLEAN
      BY <3>1 DEF WorkTypeOK
    <3>6. work' \in [spots : SpotCounts \cup {0}, course : Courses, timed : BOOLEAN]
      BY <3>1
    <3>7. spot' \in Nat /\ way' \in {-1, 1} /\ dwelt' \in 0 .. Dwell
      BY <2>a, <3>1
    <3>8. QED
      BY <3>1, <3>3, <3>4, <3>5, <3>6, <3>7 DEF WorkTypeOK
  <2>2. CASE NextSpot
    BY <2>2, <2>b DEF NextSpot, WorkTypeOK
  <2>3. CASE PauseWork
    <3>1. /\ inWork' = FALSE /\ place' = Between
          /\ paused' = [spots |-> work.spots, course |-> work.course, spot |-> spot]
          /\ UNCHANGED <<work, spot, phase, way, dwelt, finished, nextAsked>>
      BY <2>3 DEF PauseWork
    <3>2. /\ work.spots \in SpotCounts \cup {0} /\ work.course \in Courses /\ spot \in Nat
          /\ (work.spots > 0 => spot < work.spots)
      <4>1. work.spots \in SpotCounts \cup {0} /\ work.course \in Courses /\ spot \in Nat
        BY DEF WorkTypeOK
      <4>2. work.spots \in Nat /\ (work.spots > 0 => spot \in 0 .. work.spots - 1)
        BY <2>c, <4>1 DEF WorkTypeOK, Spots
      <4>3. QED
        BY <4>1, <4>2
    <3>3. /\ paused' \in [spots : SpotCounts \cup {0}, course : Courses, spot : Nat]
          /\ (paused'.spots > 0 => paused'.spot < paused'.spots)
      BY <3>1, <3>2
    <3>4. QED
      BY <2>b, <3>1, <3>3 DEF WorkTypeOK
  <2>10. CASE LeaveWork
    <3>1. /\ inWork' = FALSE /\ paused' \in {paused, NotPaused} /\ place' = Between
          /\ UNCHANGED <<work, spot, phase, way, dwelt, finished, nextAsked>>
      BY <2>10 DEF LeaveWork
    <3>2. QED
      BY <2>b, <3>1 DEF WorkTypeOK
  <2>4. CASE ResumeWork
    <3>1. /\ work' = [spots |-> paused.spots, course |-> paused.course, timed |-> work.timed]
          /\ spot' = paused.spot /\ paused' = NotPaused
          /\ place' = Between
          /\ inWork' = TRUE /\ phase' = "travel" /\ way' = 1 /\ dwelt' = 0
          /\ finished' = FALSE /\ nextAsked' = FALSE
      BY <2>4 DEF ResumeWork, Activate
    <3>2. /\ paused.spots \in SpotCounts \cup {0} /\ paused.spot \in Nat
          /\ (paused.spots > 0 => paused.spot < paused.spots) /\ work.timed \in BOOLEAN
          /\ paused.course \in Courses
      BY <2>4 DEF ResumeWork, WorkTypeOK
    <3>3. paused.spots \in Nat /\ Spots' = 0 .. paused.spots - 1
      <4>1. paused.spots \in Nat
        BY <2>c, <3>2
      <4>2. work'.spots = paused.spots
        BY <3>1
      <4>3. QED
        BY <4>1, <4>2 DEF Spots
    <3>4. place' \in Spots' \cup {Between} /\ (work'.spots > 0 => spot' \in Spots')
      BY <3>1, <3>2, <3>3 DEF Between
    <3>5. work' \in [spots : SpotCounts \cup {0}, course : Courses, timed : BOOLEAN]
      BY <3>1, <3>2
    <3>6. spot' \in Nat /\ way' \in {-1, 1} /\ dwelt' \in 0 .. Dwell
      BY <2>a, <3>1, <3>2
    <3>7. QED
      BY <3>1, <3>4, <3>5, <3>6 DEF WorkTypeOK
  <2>5. CASE HoldTick
    <3>1. /\ UNCHANGED <<work, inWork, place, paused>> /\ nextAsked' = FALSE
          /\ work.spots > 0 /\ phase = "hold"
      BY <2>5 DEF HoldTick
    <3>2. CASE WantsAdvance /\ ~finished
      <4>1. /\ spot' = Advance.spot /\ way' = Advance.way /\ finished' = Advance.over
            /\ phase' \in {"hold", "travel"} /\ dwelt' \in {dwelt, 0}
        BY <2>5, <3>2 DEF HoldTick
      <4>2. spot' \in Spots /\ way' \in {-1, 1} /\ finished' \in BOOLEAN
        BY <3>1, <4>1, AdvanceStays
      <4>3. spot' \in Nat
        BY <4>2 DEF Spots
      <4>4. QED
        BY <2>a, <2>b, <3>1, <4>1, <4>2, <4>3 DEF WorkTypeOK
    <3>3. CASE ~(WantsAdvance /\ ~finished)
      <4>1. /\ dwelt' = (IF dwelt < Dwell THEN dwelt + 1 ELSE dwelt)
            /\ UNCHANGED <<spot, way, finished, phase>>
        BY <2>5, <3>3 DEF HoldTick
      <4>2. dwelt' \in 0 .. Dwell
        BY <4>1 DEF WorkTypeOK
      <4>3. QED
        BY <2>b, <3>1, <4>1, <4>2 DEF WorkTypeOK
    <3>4. QED
      BY <3>2, <3>3
  <2>6. CASE Arrive
    BY <2>6, <2>a, <2>b DEF Arrive, WorkTypeOK
  <2>7. ASSUME NEW p \in Spots \cup {Between}, BoatMoves(p) PROVE WorkTypeOK'
    BY <2>7, <2>b DEF BoatMoves, WorkTypeOK
  <2>8. CASE UNCHANGED workVars
    BY <2>8, <2>b DEF workVars, WorkTypeOK
  <2>9. QED
    BY <2>1, <2>2, <2>3, <2>4, <2>5, <2>6, <2>7, <2>8, <2>10 DEF WorkNext, WorkCommand
<1>3. QED
  BY <1>1, <1>2, PTL DEF WorkSpec

-----------------------------------------------------------------------------
(* The parts aboard.  A behaviour of them all is, for each, one of its own *)
(* in which it may stand still.                                            *)
LEMMA AboardParts ==
  Spec => /\ ChainSpec /\ RemoteSpec /\ DepthSpec /\ ReloadSpec /\ SteerSpec
          /\ WorkSpec /\ CalibrationSpec /\ HeartbeatSpec /\ [](part \in Parts)
<1>1. Init => /\ ChainInit /\ RemoteInit /\ DepthInit /\ ReloadInit /\ SteerInit
              /\ WorkInit /\ CalibrationInit /\ HeartbeatInit /\ part \in Parts
  BY DEF Init
<1>2. [Next]_<<part, AboardVars>> =>
        /\ [ChainNext]_chainVars /\ [RemoteNext]_remoteVars /\ [DepthNext]_depthVars
        /\ [ReloadNext]_reloadVars /\ [SteerNext]_steerVars /\ [WorkNext]_workVars
        /\ [CalibrationNext]_driveVars /\ [HeartbeatNext]_beatVars /\ part' = part
  BY Zenon DEF Next, AboardVars
<1>3. part \in Parts /\ part' = part => (part \in Parts)'
  OBVIOUS
<1>4. QED
  BY <1>1, <1>2, <1>3, PTL
     DEF Spec, ChainSpec, RemoteSpec, DepthSpec, ReloadSpec, SteerSpec, WorkSpec,
         CalibrationSpec, HeartbeatSpec

(* Every part aboard keeps its types.                                      *)
THEOREM AboardTypeCorrect == Spec => []AboardTypeOK
<1>1. /\ part \in Parts /\ ChainTypeOK /\ RemoteTypeOK /\ DepthTypeOK /\ LiveSurvives
      /\ ReloadTypeOK /\ SteerTypeOK /\ WorkTypeOK /\ DriveTypeOK
      /\ HeartbeatTypeOK /\ DeafBoardNoticed
      => AboardTypeOK
  BY DEF AboardTypeOK
<1>2. QED
  BY <1>1, AboardParts, ChainTypeCorrect, RemoteTypeCorrect, LiveSurvivesHolds,
     ReloadTypeCorrect, SteerTypeCorrect, WorkTypeCorrect, DriveTypeCorrect,
     DeafBoardNoticedHolds, PTL

(* What each part aboard promises, it keeps in the composition that TLC    *)
(* checks: the parts share no variable.                                    *)
THEOREM AboardKeepsPromises ==
    Spec => []/\ SilenceStops /\ LatchFollowsDriver /\ LiveSurvives /\ OneMotor
              /\ PushBounded /\ DriveLetsGo /\ DeafBoardNoticed
BY AboardParts, ChainSilenceStops, LatchFollowsDriverHolds, LiveSurvivesHolds, OneMotorHolds,
   PushBoundedHolds, DriveLetsGoHolds, DeafBoardNoticedHolds, PTL
=============================================================================
