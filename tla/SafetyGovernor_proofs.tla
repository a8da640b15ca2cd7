----------------------- MODULE SafetyGovernor_proofs ------------------------
(***************************************************************************)
(* Theorems about SafetyGovernor, for every value of its constants.        *)
(***************************************************************************)
EXTENDS SafetyGovernor, TLAPS

USE DEF FixCap, CutCap

(* The slew limiter never overshoots: what it returns lies between where   *)
(* the output is and where it is wanted.                                   *)
LEMMA SlewedBetween ==
    ASSUME NEW from \in Int, NEW to \in Int, NEW rate \in Int, NEW dt \in Nat \ {0}
    PROVE  /\ Slewed(from, to, rate, dt) \in Int
           /\ from <= to => (from <= Slewed(from, to, rate, dt) /\ Slewed(from, to, rate, dt) <= to)
           /\ to <= from => (to <= Slewed(from, to, rate, dt) /\ Slewed(from, to, rate, dt) <= from)
<1>1. CASE rate > 0
  <2>1. rate * dt \in Nat
    BY <1>1
  <2> DEFINE step == rate * dt
  <2>2. Slewed(from, to, rate, dt) = Clamp(to, from - step, from + step)
    BY <1>1 DEF Slewed, Towards
  <2>3. step \in Nat
    BY <2>1
  <2> HIDE DEF step
  <2> QED BY <2>2, <2>3 DEF Clamp
<1>2. CASE ~(rate > 0)
  BY <1>2 DEF Slewed
<1> QED BY <1>1, <1>2

(* The slew limiter takes the whole step towards zero, or reaches it.      *)
LEMMA SlewedToZero ==
    ASSUME NEW from \in Int, NEW rate \in Int, NEW dt \in Nat \ {0}
    PROVE  /\ rate > 0 => \/ Slewed(from, 0, rate, dt) = 0
                          \/ Abs(Slewed(from, 0, rate, dt)) = Abs(from) - rate * dt
           /\ ~(rate > 0) => Slewed(from, 0, rate, dt) = 0
<1>1. CASE rate > 0
  <2>1. rate * dt \in Nat
    BY <1>1
  <2> DEFINE step == rate * dt
  <2>2. Slewed(from, 0, rate, dt) = Clamp(0, from - step, from + step)
    BY <1>1 DEF Slewed, Towards
  <2>3. step \in Nat
    BY <2>1
  <2> HIDE DEF step
  <2>4. \/ Slewed(from, 0, rate, dt) = 0
        \/ Abs(Slewed(from, 0, rate, dt)) = Abs(from) - step
    BY <2>2, <2>3 DEF Clamp, Abs
  <2> QED BY <1>1, <2>4 DEF step
<1>2. CASE ~(rate > 0)
  BY <1>2 DEF Slewed
<1> QED BY <1>1, <1>2

(* What govern computes has its type whenever the state and the input do.  *)
LEMMA GovernType ==
    ASSUME TypeOK, NEW in \in Inputs
    PROVE  /\ in.dt \in Nat \ {0} /\ in.dt \in Elapses
           /\ Derated(in) \in -Full .. Full
           /\ Desired(in) \in -Full .. Full
           /\ Target(in) \in -Full .. Full
           /\ AppliedThrust(in) \in -Full .. Full
           /\ AppliedSteering(in) \in -Full .. Full
           /\ SinceFix(in) \in 0 .. FixCap
           /\ Rest(in) \in 0 .. ReverseDelay
<1>1. /\ in.dt \in Nat \ {0} /\ in.dt \in Elapses
      /\ in.command.thrust \in Int /\ in.command.steering \in Int
  BY TimeAssumption, InputAssumption DEF Inputs
<1>2. /\ gov.lastThrust \in -Full .. Full /\ gov.lastSteering \in -Full .. Full
      /\ gov.cap \in 0 .. Full /\ gov.rest \in 0 .. ReverseDelay
      /\ gov.sinceFix \in 0 .. FixCap
  BY DEF TypeOK
<1>3. Derated(in) \in -Full .. Full
  BY LevelAssumption, <1>1, <1>2 DEF Derated, Requested, Clamp
<1>4. Desired(in) \in -Full .. Full
  BY LevelAssumption, <1>3 DEF Desired
<1>5. Target(in) \in -Full .. Full
  BY LevelAssumption, <1>4 DEF Target
<1>6. AppliedThrust(in) \in -Full .. Full
  <2>1. /\ gov.lastThrust \in Int /\ Target(in) \in Int
        /\ ThrustSlew \in Int /\ in.dt \in Nat \ {0}
    BY LevelAssumption, <1>1, <1>2, <1>5
  <2>2. /\ AppliedThrust(in) \in Int
        /\ gov.lastThrust <= Target(in) =>
             (gov.lastThrust <= AppliedThrust(in) /\ AppliedThrust(in) <= Target(in))
        /\ Target(in) <= gov.lastThrust =>
             (Target(in) <= AppliedThrust(in) /\ AppliedThrust(in) <= gov.lastThrust)
    BY <2>1, SlewedBetween DEF AppliedThrust
  <2> QED BY LevelAssumption, <1>2, <1>5, <2>2
<1>7. DesiredSteering(in) \in -Full .. Full
  BY LevelAssumption, <1>1, <1>2 DEF DesiredSteering, Clamp
<1>8. AppliedSteering(in) \in -Full .. Full
  <2>1. /\ gov.lastSteering \in Int /\ DesiredSteering(in) \in Int
        /\ SteerSlew \in Int /\ in.dt \in Nat \ {0}
    BY LevelAssumption, <1>1, <1>2, <1>7
  <2>2. /\ AppliedSteering(in) \in Int
        /\ gov.lastSteering <= DesiredSteering(in) =>
             (gov.lastSteering <= AppliedSteering(in) /\ AppliedSteering(in) <= DesiredSteering(in))
        /\ DesiredSteering(in) <= gov.lastSteering =>
             (DesiredSteering(in) <= AppliedSteering(in) /\ AppliedSteering(in) <= gov.lastSteering)
    BY <2>1, SlewedBetween DEF AppliedSteering
  <2> QED BY LevelAssumption, <1>2, <1>7, <2>2
<1>9. SinceFix(in) \in 0 .. FixCap /\ Rest(in) \in 0 .. ReverseDelay
  BY TimeAssumption, <1>1, <1>2 DEF SinceFix, Rest, Saturate
<1> QED BY <1>1, <1>3, <1>4, <1>5, <1>6, <1>8, <1>9

(* What a tick leaves behind in the governor and in the history.           *)
LEMMA RememberedType ==
    ASSUME TypeOK, NEW in \in Inputs
    PROVE  /\ Remembered(in) \in
                [lastThrust : -Full .. Full, lastSteering : -Full .. Full,
                 lastDir : Directions, rest : 0 .. ReverseDelay,
                 sinceFix : 0 .. FixCap, cap : 0 .. Full]
           /\ QuietAfter(in.dt) \in 0 .. ReverseDelay
           /\ Saturate(cutFor + in.dt, CutCap) \in 0 .. CutCap
           /\ FixIsLost(in) \in BOOLEAN
<1>1. Sign(AppliedThrust(in)) \in Directions
  BY DEF Sign, Directions
<1>2. QuietAfter(in.dt) \in 0 .. ReverseDelay
  BY TimeAssumption, GovernType DEF TypeOK, QuietAfter, Saturate
<1>3. Saturate(cutFor + in.dt, CutCap) \in 0 .. CutCap
  BY LevelAssumption, GovernType DEF TypeOK, Saturate
<1>4. FixIsLost(in) \in BOOLEAN
  BY DEF FixIsLost, TypeOK
<1> QED BY <1>1, <1>2, <1>3, <1>4, GovernType DEF TypeOK, Remembered

-----------------------------------------------------------------------------
(* A tick, clean or faulted after the governor ran, preserves the types.   *)
LEMMA GovernedStepType ==
    ASSUME TypeOK, NEW in \in Inputs, NEW zeroed \in BOOLEAN,
           thrust' = IF zeroed THEN 0 ELSE AppliedThrust(in),
           steering' = IF zeroed THEN 0 ELSE AppliedSteering(in),
           gov' = Remembered(in), fixLost' = FixIsLost(in),
           Witness(AppliedThrust(in), in.dt), CountCut(in),
           fault' \in BOOLEAN, UNCHANGED <<mode, config>>
    PROVE  TypeOK'
<1>1. /\ thrust' \in -Full .. Full /\ steering' \in -Full .. Full
  BY LevelAssumption, GovernType
<1>2. drivenDir' \in Directions /\ quiet' \in 0 .. ReverseDelay
  BY TimeAssumption, GovernType, RememberedType DEF Witness, TypeOK, Directions, Sign
<1>3. cutFor' \in 0 .. CutCap
  BY LevelAssumption, GovernType, RememberedType DEF CountCut
<1>4. elapsed' \in Elapses \cup {0}
  BY GovernType DEF Witness
<1> QED BY <1>1, <1>2, <1>3, <1>4, RememberedType DEF TypeOK

(* The governor and the motor it drives keep their types: every applied    *)
(* command and every remembered one stays within full thrust and steering. *)
THEOREM TypeCorrect == Spec => []TypeOK
<1>1. Init => TypeOK
  <2> SUFFICES ASSUME Init PROVE TypeOK
    OBVIOUS
  <2>1. fixLost \in BOOLEAN /\ fault \in BOOLEAN
    BY DEF Init
  <2> QED BY <2>1, LevelAssumption, TimeAssumption, InputAssumption
          DEF Init, TypeOK, Directions
<1>2. TypeOK /\ [Next]_vars => TypeOK'
  <2> SUFFICES ASSUME TypeOK, [Next]_vars PROVE TypeOK'
    OBVIOUS
  <2>1. ASSUME NEW in \in Inputs, Tick(in) PROVE TypeOK'
    BY <2>1, GovernedStepType, FALSE \in BOOLEAN DEF Tick
  <2>2. ASSUME NEW dt \in Elapses, NEW zeroed \in BOOLEAN, FaultBefore(dt, zeroed)
        PROVE TypeOK'
    <3>1. quiet' \in 0 .. ReverseDelay
      BY <2>2, TimeAssumption DEF FaultBefore, TypeOK, QuietAfter, Saturate
    <3> QED BY <2>2, <3>1, LevelAssumption DEF FaultBefore, TypeOK
  <2>3. ASSUME NEW in \in Inputs, NEW zeroed \in BOOLEAN, FaultAfter(in, zeroed)
        PROVE TypeOK'
    BY <2>3, GovernedStepType DEF FaultAfter
  <2>4. ASSUME NEW m \in Modes, SetMode(m) PROVE TypeOK'
    <3>1. (IF Abs(thrust) > Eps THEN Sign(thrust) ELSE gov.lastDir) \in Directions
      BY DEF Sign, Directions, TypeOK
    <3>2. 0 \in 0 .. ReverseDelay /\ 0 \in 0 .. FixCap
      BY TimeAssumption
    <3>3. gov' \in [lastThrust : -Full .. Full, lastSteering : -Full .. Full,
                    lastDir : Directions, rest : 0 .. ReverseDelay,
                    sinceFix : 0 .. FixCap, cap : 0 .. Full]
      BY <2>4, <3>1, <3>2 DEF SetMode, TypeOK
    <3> QED BY <2>4, <3>3 DEF SetMode, TypeOK
  <2>5. ASSUME NEW c \in Caps, SetThrustCap(c) PROVE TypeOK'
    <3>1. Clamp(c, 0, Full) \in 0 .. Full
      BY LevelAssumption, InputAssumption DEF Clamp
    <3> QED BY <2>5, <3>1 DEF SetThrustCap, TypeOK
  <2>6. ASSUME NEW d \in MinDepths, SetMinDepth(d) PROVE TypeOK'
    BY <2>6, InputAssumption DEF SetMinDepth, TypeOK
  <2>7. ASSUME NEW on \in BOOLEAN, SetFixFailsafe(on) PROVE TypeOK'
    BY <2>7, InputAssumption DEF SetFixFailsafe, TypeOK
  <2>8. CASE UNCHANGED vars
    BY <2>8 DEF vars, TypeOK
  <2> QED BY <2>1, <2>2, <2>3, <2>4, <2>5, <2>6, <2>7, <2>8 DEF Next
<1> QED BY <1>1, <1>2, PTL DEF Spec

-----------------------------------------------------------------------------
(* The interlock.  The governor judges a reversal by its own memory of the *)
(* last command and by its own rest timer; a faulted tick makes that memory*)
(* differ from what the motor was told.  What relates the two: the motor   *)
(* is at zero or at the remembered command, it was last driven in the      *)
(* remembered direction, and it has been quiet at least as long as the     *)
(* governor believes the thrust has rested.                                *)
InterlockInv ==
    /\ thrust \in {0, gov.lastThrust}
    /\ drivenDir = gov.lastDir
    /\ Abs(gov.lastThrust) > Eps => Sign(gov.lastThrust) = gov.lastDir
    /\ Abs(gov.lastThrust) <= Eps => gov.rest <= quiet

(* A tick reverses the motor only after it has been quiet for the delay.   *)
LEMMA ReversalRests ==
    ASSUME TypeOK, InterlockInv, NEW in \in Inputs,
           Abs(AppliedThrust(in)) > Eps, drivenDir # 0,
           Sign(AppliedThrust(in)) # drivenDir
    PROVE  QuietAfter(in.dt) >= ReverseDelay
<1>1. /\ gov.lastThrust \in Int /\ Target(in) \in Int /\ Desired(in) \in Int
      /\ ThrustSlew \in Int /\ in.dt \in Nat \ {0} /\ Eps \in Nat
  BY LevelAssumption, GovernType DEF TypeOK
<1>2. /\ AppliedThrust(in) \in Int
      /\ gov.lastThrust <= Target(in) =>
           (gov.lastThrust <= AppliedThrust(in) /\ AppliedThrust(in) <= Target(in))
      /\ Target(in) <= gov.lastThrust =>
           (Target(in) <= AppliedThrust(in) /\ AppliedThrust(in) <= gov.lastThrust)
  BY <1>1, SlewedBetween DEF AppliedThrust
<1>3. gov.lastDir \in {-1, 1} /\ Sign(AppliedThrust(in)) # gov.lastDir
  BY DEF InterlockInv, TypeOK, Directions
<1>4. Abs(Target(in)) > Eps /\ Sign(Target(in)) # gov.lastDir
  BY <1>1, <1>2, <1>3 DEF InterlockInv, Abs, Sign
<1>5. Target(in) = Desired(in) /\ ~ReverseBlocked(in)
  BY <1>1, <1>4 DEF Target, Abs
<1>6. Rest(in) >= ReverseDelay
  BY <1>3, <1>4, <1>5, TimeAssumption, GovernType DEF ReverseBlocked
<1>7. CASE Abs(gov.lastThrust) <= Eps
  <2>1. Abs(thrust) <= Eps /\ gov.rest <= quiet
    BY <1>1, <1>7 DEF InterlockInv, Abs
  <2> QED BY <1>1, <1>6, <1>7, <2>1, LevelAssumption, TimeAssumption
          DEF Rest, QuietAfter, Saturate, TypeOK, Abs
<1>8. CASE ~(Abs(gov.lastThrust) <= Eps)
  <2>1. ReverseDelay <= 0
    BY <1>6, <1>8 DEF Rest
  <2> QED BY <2>1, TimeAssumption, RememberedType
<1> QED BY <1>7, <1>8

(* A tick, clean or faulted after the governor ran, preserves the relation.*)
LEMMA GovernedStepInterlock ==
    ASSUME TypeOK, InterlockInv, NEW in \in Inputs, NEW zeroed \in BOOLEAN,
           thrust' = IF zeroed THEN 0 ELSE AppliedThrust(in),
           gov' = Remembered(in),
           Witness(AppliedThrust(in), in.dt)
    PROVE  InterlockInv'
<1>1. /\ gov'.lastThrust = AppliedThrust(in)
      /\ gov'.lastDir = IF Abs(AppliedThrust(in)) > Eps
                        THEN Sign(AppliedThrust(in)) ELSE gov.lastDir
      /\ gov'.rest = Rest(in)
  BY DEF TypeOK, Remembered
<1>2. thrust' \in {0, gov'.lastThrust} /\ drivenDir' = gov'.lastDir
  BY <1>1 DEF Witness, InterlockInv
<1>3. Abs(gov'.lastThrust) > Eps => Sign(gov'.lastThrust) = gov'.lastDir
  BY <1>1
<1>4. Abs(gov'.lastThrust) <= Eps => gov'.rest <= quiet'
  <2> SUFFICES ASSUME Abs(AppliedThrust(in)) <= Eps PROVE Rest(in) <= QuietAfter(in.dt)
    BY <1>1, LevelAssumption, GovernType DEF Witness, Abs
  <2>1. CASE Abs(gov.lastThrust) <= Eps
    <3>1. Abs(thrust) <= Eps /\ gov.rest <= quiet
      BY <2>1, LevelAssumption DEF InterlockInv, TypeOK, Abs
    <3> QED BY <2>1, <3>1, LevelAssumption, TimeAssumption, GovernType
            DEF Rest, QuietAfter, Saturate, TypeOK, Abs
  <2>2. CASE ~(Abs(gov.lastThrust) <= Eps)
    BY <2>2, TimeAssumption, RememberedType DEF Rest
  <2> QED BY <2>1, <2>2
<1> QED BY <1>2, <1>3, <1>4 DEF InterlockInv

(* The governor's memory never claims a rest or a direction the motor did  *)
(* not have: the rest timer and the last driven sign of govern.            *)
THEOREM InterlockInvariant == Spec => []InterlockInv
<1>1. Init => InterlockInv
  BY LevelAssumption DEF Init, InterlockInv, Abs
<1>2. TypeOK /\ InterlockInv /\ [Next]_vars => InterlockInv'
  <2> SUFFICES ASSUME TypeOK, InterlockInv, [Next]_vars PROVE InterlockInv'
    OBVIOUS
  <2>1. ASSUME NEW in \in Inputs, Tick(in) PROVE InterlockInv'
    BY <2>1, GovernedStepInterlock, FALSE \in BOOLEAN DEF Tick
  <2>2. ASSUME NEW dt \in Elapses, NEW zeroed \in BOOLEAN, FaultBefore(dt, zeroed)
        PROVE InterlockInv'
    <3>1. Abs(gov.lastThrust) <= Eps => gov.rest <= QuietAfter(dt)
      BY LevelAssumption, TimeAssumption DEF InterlockInv, TypeOK, QuietAfter, Saturate, Abs
    <3> QED BY <2>2, <3>1 DEF FaultBefore, InterlockInv
  <2>3. ASSUME NEW in \in Inputs, NEW zeroed \in BOOLEAN, FaultAfter(in, zeroed)
        PROVE InterlockInv'
    BY <2>3, GovernedStepInterlock DEF FaultAfter
  <2>4. ASSUME NEW m \in Modes, SetMode(m) PROVE InterlockInv'
    <3>1. /\ gov'.lastThrust = thrust /\ gov'.rest = 0
          /\ gov'.lastDir = IF Abs(thrust) > Eps THEN Sign(thrust) ELSE gov.lastDir
      BY <2>4 DEF SetMode, TypeOK
    <3>2. Abs(thrust) > Eps => Sign(thrust) = gov.lastDir
      BY LevelAssumption DEF InterlockInv, TypeOK, Abs
    <3> QED BY <2>4, <3>1, <3>2 DEF SetMode, InterlockInv, TypeOK
  <2>5. ASSUME NEW c \in Caps, SetThrustCap(c) PROVE InterlockInv'
    BY <2>5 DEF SetThrustCap, InterlockInv, TypeOK
  <2>6. ASSUME NEW d \in MinDepths, SetMinDepth(d) PROVE InterlockInv'
    BY <2>6 DEF SetMinDepth, InterlockInv
  <2>7. ASSUME NEW on \in BOOLEAN, SetFixFailsafe(on) PROVE InterlockInv'
    BY <2>7 DEF SetFixFailsafe, InterlockInv
  <2>8. CASE UNCHANGED vars
    BY <2>8 DEF vars, InterlockInv
  <2> QED BY <2>1, <2>2, <2>3, <2>4, <2>5, <2>6, <2>7, <2>8 DEF Next
<1> QED BY <1>1, <1>2, TypeCorrect, PTL DEF Spec

-----------------------------------------------------------------------------
(* A governed tick is a Drive of the abstract interlock.                   *)
LEMMA GovernedStepDrives ==
    ASSUME TypeOK, InterlockInv, NEW in \in Inputs, NEW zeroed \in BOOLEAN,
           thrust' = IF zeroed THEN 0 ELSE AppliedThrust(in),
           Witness(AppliedThrust(in), in.dt)
    PROVE  RI!Next
<1> DEFINE o == AppliedThrust(in)
           final == IF zeroed THEN 0 ELSE o
<1>1. o \in -Full .. Full /\ final \in {o, 0} /\ in.dt \in Elapses
  BY GovernType
<1>2. RI!QuietAfter(in.dt) = QuietAfter(in.dt)
  BY DEF RI!QuietAfter, RI!Driving, RI!Abs, RI!Saturate, QuietAfter, Abs, Saturate
<1>3. (RI!Driving(o) /\ drivenDir # 0 /\ RI!Sign(o) # drivenDir)
         => RI!QuietAfter(in.dt) >= ReverseDelay
  BY <1>2, ReversalRests DEF RI!Driving, RI!Abs, RI!Sign, Abs, Sign
<1>4. RI!Drive(o, final, in.dt)
  BY <1>1, <1>2, <1>3 DEF RI!Drive, RI!Driving, RI!Abs, RI!Sign, Witness, Abs, Sign
<1> HIDE DEF o, final
<1> QED BY <1>1, <1>4 DEF RI!Next

(* The governor, with its mode changes, derates and faulted ticks,         *)
(* implements the abstract reversal interlock: at the motor the direction  *)
(* of drive changes only after reverse_delay_s near zero.                  *)
THEOREM GovernorImplementsInterlock == Spec => ImplementsInterlock
<1>1. Init => RI!Init
  BY TimeAssumption DEF Init, RI!Init
<1>2. TypeOK /\ InterlockInv /\ [Next]_vars => [RI!Next]_(RI!vars)
  <2> SUFFICES ASSUME TypeOK, InterlockInv, [Next]_vars PROVE [RI!Next]_(RI!vars)
    OBVIOUS
  <2>1. ASSUME NEW in \in Inputs, Tick(in) PROVE RI!Next
    BY <2>1, GovernedStepDrives, FALSE \in BOOLEAN DEF Tick
  <2>2. ASSUME NEW dt \in Elapses, NEW zeroed \in BOOLEAN, FaultBefore(dt, zeroed)
        PROVE RI!Next
    <3>1. RI!QuietAfter(dt) = QuietAfter(dt)
      BY DEF RI!QuietAfter, RI!Driving, RI!Abs, RI!Saturate, QuietAfter, Abs, Saturate
    <3>2. CASE zeroed
      <4>1. RI!Drive(0, 0, dt)
        BY <2>2, <3>1, <3>2, LevelAssumption
           DEF FaultBefore, RI!Drive, RI!Driving, RI!Abs
      <4>2. 0 \in -Full .. Full /\ 0 \in {0, 0}
        BY LevelAssumption
      <4> QED BY <4>1, <4>2 DEF RI!Next
    <3>3. CASE ~zeroed
      <4>1. RI!Hold(dt)
        BY <2>2, <3>1, <3>3 DEF FaultBefore, RI!Hold
      <4> QED BY <4>1 DEF RI!Next
    <3> QED BY <3>2, <3>3
  <2>3. ASSUME NEW in \in Inputs, NEW zeroed \in BOOLEAN, FaultAfter(in, zeroed)
        PROVE RI!Next
    BY <2>3, GovernedStepDrives DEF FaultAfter
  <2>4. ASSUME NEW m \in Modes, SetMode(m) PROVE UNCHANGED RI!vars
    BY <2>4 DEF SetMode, RI!vars
  <2>5. ASSUME NEW c \in Caps, SetThrustCap(c) PROVE UNCHANGED RI!vars
    BY <2>5 DEF SetThrustCap, RI!vars
  <2>6. ASSUME NEW d \in MinDepths, SetMinDepth(d) PROVE UNCHANGED RI!vars
    BY <2>6 DEF SetMinDepth, RI!vars
  <2>7. ASSUME NEW on \in BOOLEAN, SetFixFailsafe(on) PROVE UNCHANGED RI!vars
    BY <2>7 DEF SetFixFailsafe, RI!vars
  <2>8. CASE UNCHANGED vars
    BY <2>8 DEF vars, RI!vars
  <2> QED BY <2>1, <2>2, <2>3, <2>4, <2>5, <2>6, <2>7, <2>8 DEF Next
<1> QED BY <1>1, <1>2, TypeCorrect, InterlockInvariant, PTL
        DEF Spec, ImplementsInterlock, RI!Spec

-----------------------------------------------------------------------------
(* Stopping.  StopsInTime speaks of the motor; what is inductive is the    *)
(* same bound on the command the governor remembers, which a faulted tick  *)
(* does not zero.                                                          *)
Bound(t) == IF ThrustSlew > 0 THEN Clamp(Full - ThrustSlew * t, 0, Full) ELSE 0
StopInv == cutFor > 0 => Abs(gov.lastThrust) <= Bound(cutFor)

(* One more dt of a stop takes ThrustSlew * dt off the bound.              *)
LEMMA BoundStep ==
    ASSUME NEW t \in 0 .. Full, NEW dt \in Nat \ {0}, NEW x \in -Full .. Full,
           t > 0 => Abs(x) <= Bound(t)
    PROVE  Abs(Slewed(x, 0, ThrustSlew, dt)) <= Bound(Saturate(t + dt, Full))
<1>1. CASE ~(ThrustSlew > 0)
  BY <1>1, LevelAssumption, SlewedToZero DEF Bound, Abs
<1>2. CASE ThrustSlew > 0
  <2> DEFINE n == Saturate(t + dt, Full)
             p == ThrustSlew * t
             q == ThrustSlew * dt
             r == ThrustSlew * n
  <2>1. ThrustSlew \in Nat \ {0} /\ n \in Nat /\ n <= t + dt
    BY <1>2, LevelAssumption DEF Saturate
  <2>2. p \in Nat /\ q \in Nat /\ r \in Nat
    BY <2>1
  <2>3. ThrustSlew * (t + dt) = p + q
    BY <2>1
  <2>4. r <= ThrustSlew * (t + dt)
    BY <2>1
  <2>5. Abs(x) <= Clamp(Full - p, 0, Full)
    BY <1>2, <2>1, LevelAssumption DEF Bound, Clamp, Abs
  <2>6. Bound(n) = Clamp(Full - r, 0, Full)
    BY <1>2 DEF Bound
  <2>7. \/ Slewed(x, 0, ThrustSlew, dt) = 0
        \/ Abs(Slewed(x, 0, ThrustSlew, dt)) = Abs(x) - q
    BY <1>2, <2>1, SlewedToZero
  <2> HIDE DEF n, p, q, r
  <2>8. Abs(x) - q <= Clamp(Full - r, 0, Full)
    BY <2>2, <2>3, <2>4, <2>5, LevelAssumption DEF Clamp, Abs
  <2>9. Abs(Slewed(x, 0, ThrustSlew, dt)) <= Bound(n)
    BY <2>2, <2>6, <2>7, <2>8, LevelAssumption DEF Clamp, Abs
  <2> QED BY <2>9 DEF n
<1> QED BY <1>1, <1>2

(* A tick, clean or faulted after the governor ran, preserves the bound.   *)
LEMMA GovernedStepStops ==
    ASSUME TypeOK, StopInv, NEW in \in Inputs,
           gov' = Remembered(in), CountCut(in)
    PROVE  StopInv'
<1>1. gov'.lastThrust = AppliedThrust(in)
  BY DEF TypeOK, Remembered
<1>2. CASE Target(in) = 0
  <2>1. cutFor' = Saturate(cutFor + in.dt, Full)
    BY <1>2 DEF CountCut
  <2>2. AppliedThrust(in) = Slewed(gov.lastThrust, 0, ThrustSlew, in.dt)
    BY <1>2 DEF AppliedThrust
  <2>3. cutFor \in 0 .. Full /\ gov.lastThrust \in -Full .. Full /\ in.dt \in Nat \ {0}
    BY GovernType DEF TypeOK
  <2>4. Abs(AppliedThrust(in)) <= Bound(cutFor')
    BY <2>1, <2>2, <2>3, BoundStep DEF StopInv
  <2> QED BY <1>1, <2>4 DEF StopInv, Bound
<1>3. CASE Target(in) # 0
  BY <1>3 DEF CountCut, StopInv
<1> QED BY <1>2, <1>3

(* Any unbroken demand for a stop bounds the motor's thrust by what the    *)
(* slew limit still has to take off, whatever faults and mode changes      *)
(* happen meanwhile.                                                       *)
THEOREM StopsInTimeAlways == Spec => []StopsInTime
<1>1. Init => StopInv
  BY DEF Init, StopInv
<1>2. TypeOK /\ InterlockInv /\ StopInv /\ [Next]_vars => StopInv'
  <2> SUFFICES ASSUME TypeOK, InterlockInv, StopInv, [Next]_vars PROVE StopInv'
    OBVIOUS
  <2>1. ASSUME NEW in \in Inputs, Tick(in) PROVE StopInv'
    BY <2>1, GovernedStepStops DEF Tick
  <2>2. ASSUME NEW dt \in Elapses, NEW zeroed \in BOOLEAN, FaultBefore(dt, zeroed)
        PROVE StopInv'
    BY <2>2 DEF FaultBefore, StopInv, Bound
  <2>3. ASSUME NEW in \in Inputs, NEW zeroed \in BOOLEAN, FaultAfter(in, zeroed)
        PROVE StopInv'
    BY <2>3, GovernedStepStops DEF FaultAfter
  <2>4. ASSUME NEW m \in Modes, SetMode(m) PROVE StopInv'
    <3>1. gov'.lastThrust = thrust /\ cutFor' = cutFor
      BY <2>4 DEF SetMode, TypeOK
    <3>2. cutFor > 0 => Abs(thrust) <= Bound(cutFor)
      <4>1. Bound(cutFor) >= 0 /\ Bound(cutFor) \in Int
        <5>1. CASE ThrustSlew > 0
          <6>1. ThrustSlew * cutFor \in Int
            BY LevelAssumption DEF TypeOK
          <6> QED BY <5>1, <6>1, LevelAssumption DEF Bound, Clamp
        <5>2. CASE ~(ThrustSlew > 0)
          BY <5>2 DEF Bound
        <5> QED BY <5>1, <5>2
      <4> QED BY <4>1 DEF InterlockInv, StopInv, Abs
    <3> QED BY <3>1, <3>2 DEF StopInv, Bound
  <2>5. ASSUME NEW c \in Caps, SetThrustCap(c) PROVE StopInv'
    BY <2>5 DEF SetThrustCap, StopInv, Bound, TypeOK
  <2>6. ASSUME NEW d \in MinDepths, SetMinDepth(d) PROVE StopInv'
    BY <2>6 DEF SetMinDepth, StopInv, Bound
  <2>7. ASSUME NEW on \in BOOLEAN, SetFixFailsafe(on) PROVE StopInv'
    BY <2>7 DEF SetFixFailsafe, StopInv, Bound
  <2>8. CASE UNCHANGED vars
    BY <2>8 DEF vars, StopInv, Bound
  <2> QED BY <2>1, <2>2, <2>3, <2>4, <2>5, <2>6, <2>7, <2>8 DEF Next
<1>3. TypeOK /\ InterlockInv /\ StopInv => StopsInTime
  <2> SUFFICES ASSUME TypeOK, InterlockInv, StopInv, cutFor > 0
               PROVE Abs(thrust) <= Bound(cutFor)
    BY LevelAssumption DEF StopsInTime, Bound, TypeOK, Abs
  <2>1. Abs(gov.lastThrust) <= Bound(cutFor) /\ Abs(gov.lastThrust) >= 0
    BY DEF StopInv, TypeOK, Abs
  <2>2. Bound(cutFor) >= 0 /\ Bound(cutFor) \in Int
    <3>1. CASE ThrustSlew > 0
      <4>1. ThrustSlew * cutFor \in Int
        BY LevelAssumption DEF TypeOK
      <4> QED BY <3>1, <4>1, LevelAssumption DEF Bound, Clamp
    <3>2. CASE ~(ThrustSlew > 0)
      BY <3>2 DEF Bound
    <3> QED BY <3>1, <3>2
  <2> QED BY <2>1, <2>2 DEF InterlockInv, Abs
<1> QED BY <1>1, <1>2, <1>3, TypeCorrect, InterlockInvariant, PTL DEF Spec

-----------------------------------------------------------------------------
(* The derate.  A step of the slew limiter lies between the remembered     *)
(* thrust and a target within the cap: above the cap it can only fall.     *)
LEMMA AppliedFalls ==
    ASSUME TypeOK, NEW in \in Inputs, Abs(AppliedThrust(in)) > gov.cap
    PROVE  Abs(AppliedThrust(in)) <= Abs(gov.lastThrust)
<1>1. /\ gov.lastThrust \in Int /\ Target(in) \in Int /\ gov.cap \in Nat
      /\ Requested(in) \in Int /\ ThrustSlew \in Int /\ in.dt \in Nat \ {0}
  <2>1. gov.cap \in 0 .. Full /\ in.command.thrust \in Int
    BY InputAssumption DEF TypeOK, Inputs
  <2>2. Requested(in) \in Int
    BY <2>1, LevelAssumption DEF Requested, Clamp
  <2>3. QED
    BY <2>1, <2>2, LevelAssumption, GovernType DEF TypeOK
<1>2. Abs(Derated(in)) <= gov.cap
  BY <1>1 DEF Derated, Clamp, Abs
<1>3. Abs(Target(in)) <= gov.cap
  <2>1. Target(in) \in {0, Derated(in)} /\ Abs(0) = 0
    BY DEF Target, Desired, Abs
  <2>2. QED
    BY <1>1, <1>2, <2>1
<1>4. /\ AppliedThrust(in) \in Int
      /\ gov.lastThrust <= Target(in) =>
           (gov.lastThrust <= AppliedThrust(in) /\ AppliedThrust(in) <= Target(in))
      /\ Target(in) <= gov.lastThrust =>
           (Target(in) <= AppliedThrust(in) /\ AppliedThrust(in) <= gov.lastThrust)
  BY <1>1, SlewedBetween DEF AppliedThrust
<1>5. QED
  BY <1>1, <1>3, <1>4 DEF Abs

(* A battery derate never lets a step raise the thrust above the cap,      *)
(* through mode changes, retunings and faulted ticks alike: govern and     *)
(* set_thrust_cap of controller/safety.py.                                 *)
THEOREM DeratedNeverRisesHolds == Spec => DeratedNeverRises
<1> DEFINE Falls == Abs(thrust') > gov.cap => Abs(thrust') <= Abs(gov.lastThrust)
<1>1. TypeOK /\ InterlockInv /\ [Next]_vars => [Falls]_vars
  <2> SUFFICES ASSUME TypeOK, InterlockInv, [Next]_vars PROVE Falls
    OBVIOUS
  <2>a. thrust' \in {0, thrust} => Falls
    <3> SUFFICES ASSUME thrust' \in {0, thrust} PROVE Abs(thrust') <= Abs(gov.lastThrust)
      OBVIOUS
    <3>1. thrust' \in {0, gov.lastThrust} /\ gov.lastThrust \in Int
      BY LevelAssumption DEF InterlockInv, TypeOK
    <3>2. QED
      BY <3>1 DEF Abs
  <2>b. \A in \in Inputs : thrust' = AppliedThrust(in) => Falls
    BY AppliedFalls
  <2>1. ASSUME NEW in \in Inputs, Tick(in) PROVE Falls
    BY <2>1, <2>b DEF Tick
  <2>2. ASSUME NEW dt \in Elapses, NEW zeroed \in BOOLEAN, FaultBefore(dt, zeroed) PROVE Falls
    BY <2>2, <2>a DEF FaultBefore
  <2>3. ASSUME NEW in \in Inputs, NEW zeroed \in BOOLEAN, FaultAfter(in, zeroed) PROVE Falls
    BY <2>3, <2>a, <2>b DEF FaultAfter
  <2>4. ASSUME NEW m \in Modes, SetMode(m) PROVE Falls
    BY <2>4, <2>a DEF SetMode
  <2>5. ASSUME NEW c \in Caps, SetThrustCap(c) PROVE Falls
    BY <2>5, <2>a DEF SetThrustCap
  <2>6. ASSUME NEW d \in MinDepths, SetMinDepth(d) PROVE Falls
    BY <2>6, <2>a DEF SetMinDepth
  <2>7. ASSUME NEW on \in BOOLEAN, SetFixFailsafe(on) PROVE Falls
    BY <2>7, <2>a DEF SetFixFailsafe
  <2>8. CASE UNCHANGED vars
    BY <2>8, <2>a DEF vars
  <2>9. QED
    BY <2>1, <2>2, <2>3, <2>4, <2>5, <2>6, <2>7, <2>8 DEF Next
<1>2. QED
  BY <1>1, TypeCorrect, InterlockInvariant, PTL DEF Spec, DeratedNeverRises

-----------------------------------------------------------------------------
(* The slew limit.  After a clean tick the governor remembers what the     *)
(* motor was told, and a mode change or a retuning keeps it so; a faulted  *)
(* tick is what breaks it, until the next clean one.                       *)
AnchorInv == ~fault => thrust = gov.lastThrust /\ steering = gov.lastSteering

(* The slew limiter takes one step of at most rate * dt.                   *)
LEMMA SlewedStep ==
    ASSUME NEW from \in Int, NEW to \in Int, NEW rate \in Int, NEW dt \in Nat \ {0}, rate > 0
    PROVE  Abs(Slewed(from, to, rate, dt) - from) <= rate * dt
<1> DEFINE step == rate * dt
<1>1. step \in Nat
  OBVIOUS
<1>2. Slewed(from, to, rate, dt) = Clamp(to, from - step, from + step)
  BY DEF Slewed, Towards
<1> HIDE DEF step
<1>3. Abs(Clamp(to, from - step, from + step) - from) <= step
  BY <1>1 DEF Clamp, Abs
<1>4. QED
  BY <1>2, <1>3 DEF step

LEMMA AnchorStep == TypeOK /\ AnchorInv /\ [Next]_vars => AnchorInv'
<1> SUFFICES ASSUME TypeOK, AnchorInv, [Next]_vars PROVE AnchorInv'
  OBVIOUS
<1>1. ASSUME NEW in \in Inputs, Tick(in) PROVE AnchorInv'
  BY <1>1 DEF Tick, Remembered, AnchorInv, TypeOK
<1>2. ASSUME NEW dt \in Elapses, NEW zeroed \in BOOLEAN, FaultBefore(dt, zeroed)
      PROVE AnchorInv'
  BY <1>2 DEF FaultBefore, AnchorInv
<1>3. ASSUME NEW in \in Inputs, NEW zeroed \in BOOLEAN, FaultAfter(in, zeroed)
      PROVE AnchorInv'
  BY <1>3 DEF FaultAfter, AnchorInv
<1>4. ASSUME NEW m \in Modes, SetMode(m) PROVE AnchorInv'
  BY <1>4 DEF SetMode, AnchorInv, TypeOK
<1>5. ASSUME NEW c \in Caps, SetThrustCap(c) PROVE AnchorInv'
  BY <1>5 DEF SetThrustCap, AnchorInv, TypeOK
<1>6. ASSUME NEW d \in MinDepths, SetMinDepth(d) PROVE AnchorInv'
  BY <1>6 DEF SetMinDepth, AnchorInv
<1>7. ASSUME NEW on \in BOOLEAN, SetFixFailsafe(on) PROVE AnchorInv'
  BY <1>7 DEF SetFixFailsafe, AnchorInv
<1>8. CASE UNCHANGED vars
  BY <1>8 DEF vars, AnchorInv
<1>9. QED
  BY <1>1, <1>2, <1>3, <1>4, <1>5, <1>6, <1>7, <1>8 DEF Next

(* From one clean tick to the next the thrust and the steering at the motor*)
(* change by at most the slew limit times the time that passed, with mode  *)
(* changes and retunings between them: govern and reset of safety.py.      *)
THEOREM SlewBoundedHolds == Spec => SlewBounded
<1> DEFINE Smooth == ~fault /\ ~fault' =>
              /\ ThrustSlew > 0 => Abs(thrust' - thrust) <= ThrustSlew * elapsed'
              /\ SteerSlew > 0 => Abs(steering' - steering) <= SteerSlew * elapsed'
<1>1. Init => AnchorInv
  BY DEF Init, AnchorInv
<1>2. TypeOK /\ AnchorInv /\ [Next]_vars => [Smooth]_vars
  <2> SUFFICES ASSUME TypeOK, AnchorInv, [Next]_vars PROVE Smooth
    OBVIOUS
  <2>a. thrust' = thrust /\ steering' = steering /\ elapsed' = elapsed => Smooth
    <3> SUFFICES ASSUME thrust' = thrust, steering' = steering, elapsed' = elapsed
                 PROVE  /\ ThrustSlew > 0 => Abs(thrust' - thrust) <= ThrustSlew * elapsed'
                        /\ SteerSlew > 0 => Abs(steering' - steering) <= SteerSlew * elapsed'
      OBVIOUS
    <3>1. elapsed \in Nat /\ thrust \in Int /\ steering \in Int
      BY LevelAssumption, TimeAssumption DEF TypeOK
    <3>2. Abs(thrust - thrust) = 0 /\ Abs(steering - steering) = 0
      BY <3>1 DEF Abs
    <3>3. /\ ThrustSlew > 0 => ThrustSlew * elapsed \in Nat
          /\ SteerSlew > 0 => SteerSlew * elapsed \in Nat
      BY <3>1, LevelAssumption
    <3>4. QED
      BY <3>2, <3>3
  <2>1. ASSUME NEW in \in Inputs, Tick(in) PROVE Smooth
    <3> SUFFICES ASSUME ~fault
                 PROVE  /\ ThrustSlew > 0 => Abs(thrust' - thrust) <= ThrustSlew * elapsed'
                        /\ SteerSlew > 0 => Abs(steering' - steering) <= SteerSlew * elapsed'
      OBVIOUS
    <3>1. /\ thrust' = Slewed(gov.lastThrust, Target(in), ThrustSlew, in.dt)
          /\ steering' = Slewed(gov.lastSteering, DesiredSteering(in), SteerSlew, in.dt)
          /\ elapsed' = in.dt
      BY <2>1 DEF Tick, Witness, AppliedThrust, AppliedSteering
    <3>2. thrust = gov.lastThrust /\ steering = gov.lastSteering
      BY DEF AnchorInv
    <3>3. thrust \in Int /\ steering \in Int /\ gov.lastSteering \in -Full .. Full
      BY LevelAssumption DEF TypeOK
    <3>4. DesiredSteering(in) \in Int
      <4>1. in.command.steering \in Int
        BY InputAssumption DEF Inputs
      <4>2. QED
        BY <3>3, <4>1, LevelAssumption DEF DesiredSteering, Clamp
    <3>5. Target(in) \in Int /\ in.dt \in Nat \ {0}
      BY LevelAssumption, GovernType
    <3>6. QED
      BY <3>1, <3>2, <3>3, <3>4, <3>5, SlewedStep, LevelAssumption
  <2>2. ASSUME NEW dt \in Elapses, NEW zeroed \in BOOLEAN, FaultBefore(dt, zeroed) PROVE Smooth
    BY <2>2 DEF FaultBefore
  <2>3. ASSUME NEW in \in Inputs, NEW zeroed \in BOOLEAN, FaultAfter(in, zeroed) PROVE Smooth
    BY <2>3 DEF FaultAfter
  <2>4. ASSUME NEW m \in Modes, SetMode(m) PROVE Smooth
    BY <2>4, <2>a DEF SetMode
  <2>5. ASSUME NEW c \in Caps, SetThrustCap(c) PROVE Smooth
    BY <2>5, <2>a DEF SetThrustCap
  <2>6. ASSUME NEW d \in MinDepths, SetMinDepth(d) PROVE Smooth
    BY <2>6, <2>a DEF SetMinDepth
  <2>7. ASSUME NEW on \in BOOLEAN, SetFixFailsafe(on) PROVE Smooth
    BY <2>7, <2>a DEF SetFixFailsafe
  <2>8. CASE UNCHANGED vars
    BY <2>8, <2>a DEF vars
  <2>9. QED
    BY <2>1, <2>2, <2>3, <2>4, <2>5, <2>6, <2>7, <2>8 DEF Next
<1>3. QED
  BY <1>1, <1>2, AnchorStep, TypeCorrect, PTL DEF Spec, SlewBounded
=============================================================================
