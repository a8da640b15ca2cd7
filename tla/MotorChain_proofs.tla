------------------------- MODULE MotorChain_proofs --------------------------
(***************************************************************************)
(* Theorems about the engine board and the serial driver, for every value  *)
(* of their constants.                                                     *)
(***************************************************************************)
EXTENDS MotorChain, TLAPS

(* A line or a silence leaves the board's requests and its clock typed.    *)
LEMMA BoardStepTypes ==
    ASSUME BoardTypeOK, NEW line \in Lines \cup {NoLine}, NEW dt \in LoopTimes
    PROVE  /\ dt \in Nat \ {0}
           /\ AgeAfter(line, dt) \in 0 .. AgeCap
           /\ TargetAfter(line) \in 0 .. Full
           /\ TargetDirAfter(line) \in {1, -1}
           /\ WantedDir(line, dt) \in {1, -1}
           /\ Rested(dt) \in 0 .. DeadTime \cup {Unset}
           /\ Allowed(line, dt) \in 0 .. Full
           /\ RelayAfter(line, dt) \in {1, -1}
           /\ BoardQuietAfter(dt) \in 0 .. DeadTime
<1>1. dt \in Nat \ {0}
  BY BoardAssumption
<1>2. line # NoLine => line.pwm \in 0 .. Full /\ line.dir \in {1, -1}
  BY BoardAssumption DEF Lines
<1>3. AgeAfter(line, dt) \in 0 .. AgeCap
  BY <1>1, BoardAssumption DEF AgeAfter, AgeCap, Saturate, BoardTypeOK
<1>4. TargetAfter(line) \in 0 .. Full /\ TargetDirAfter(line) \in {1, -1}
  BY <1>2 DEF TargetAfter, TargetDirAfter, BoardTypeOK
<1>5. WantedDir(line, dt) \in {1, -1}
  BY <1>4 DEF WantedDir, BoardTypeOK
<1>6. Rested(dt) \in 0 .. DeadTime \cup {Unset}
  BY <1>1, BoardAssumption DEF Rested, Unset, Saturate, BoardTypeOK
<1>7. Allowed(line, dt) \in 0 .. Full
  BY <1>4, BoardAssumption DEF Allowed, Wanted
<1>8. RelayAfter(line, dt) \in {1, -1}
  BY <1>5 DEF RelayAfter, BoardTypeOK
<1>9. BoardQuietAfter(dt) \in 0 .. DeadTime
  BY <1>1, BoardAssumption DEF BoardQuietAfter, NearZero, Saturate, BoardTypeOK
<1> QED BY <1>1, <1>3, <1>4, <1>5, <1>6, <1>7, <1>8, <1>9

(* One slewed step lies between where the throttle is and what is allowed, *)
(* and on the way down it takes the whole slew step or arrives.            *)
LEMMA ThrottleStep ==
    ASSUME BoardTypeOK, NEW line \in Lines \cup {NoLine}, NEW dt \in LoopTimes
    PROVE  /\ ThrottleAfter(line, dt) \in 0 .. Full
           /\ \/ throttle <= ThrottleAfter(line, dt)
                 /\ ThrottleAfter(line, dt) <= Allowed(line, dt)
              \/ Allowed(line, dt) <= ThrottleAfter(line, dt)
                 /\ ThrottleAfter(line, dt) <= throttle
           /\ Allowed(line, dt) = 0 =>
                ThrottleAfter(line, dt) <= Clamp(throttle - EngineSlew * dt, 0, Full)
<1> DEFINE step == EngineSlew * dt
           a == Allowed(line, dt)
<1>1. /\ throttle \in 0 .. Full /\ a \in 0 .. Full /\ step \in Nat
  BY BoardAssumption, BoardStepTypes DEF BoardTypeOK
<1>2. ThrottleAfter(line, dt) = Clamp(Clamp(a, throttle - step, throttle + step), 0, Full)
  BY DEF ThrottleAfter, Towards
<1> HIDE DEF step, a
<1>3. /\ ThrottleAfter(line, dt) \in 0 .. Full
      /\ \/ throttle <= ThrottleAfter(line, dt) /\ ThrottleAfter(line, dt) <= a
         \/ a <= ThrottleAfter(line, dt) /\ ThrottleAfter(line, dt) <= throttle
      /\ a = 0 => ThrottleAfter(line, dt) <= Clamp(throttle - step, 0, Full)
  BY <1>1, <1>2, BoardAssumption DEF Clamp
<1> QED BY <1>3 DEF a, step

(* The board's state keeps its types, reboots included.                    *)
THEOREM BoardTypeCorrect == BoardSpec => []BoardTypeOK
<1>1. BoardInit => BoardTypeOK
  BY BoardAssumption DEF BoardInit, BoardTypeOK, AgeCap
<1>2. BoardTypeOK /\ [BoardNext]_boardVars => BoardTypeOK'
  <2> SUFFICES ASSUME BoardTypeOK, [BoardNext]_boardVars PROVE BoardTypeOK'
    OBVIOUS
  <2>1. ASSUME NEW line \in Lines \cup {NoLine}, NEW dt \in LoopTimes, Loop(line, dt)
        PROVE BoardTypeOK'
    <3>1. /\ boardDriven' \in {-1, 0, 1} /\ boardQuiet' \in 0 .. DeadTime
      BY <2>1, BoardAssumption, BoardStepTypes DEF Loop, BoardTypeOK
    <3> QED BY <2>1, <3>1, BoardStepTypes, ThrottleStep DEF Loop, BoardTypeOK
  <2>2. CASE Boot
    <3>1. boardQuiet' \in 0 .. DeadTime
      BY <2>2, BoardAssumption DEF Boot, BoardQuietAfter, NearZero, Saturate, BoardTypeOK
    <3> QED BY <2>2, <3>1, BoardAssumption DEF Boot, BoardTypeOK, AgeCap
  <2>3. CASE UNCHANGED boardVars
    BY <2>3 DEF boardVars, BoardTypeOK
  <2> QED BY <2>1, <2>2, <2>3 DEF BoardNext, BoardRuns
<1> QED BY <1>1, <1>2, PTL DEF BoardSpec

-----------------------------------------------------------------------------
(* Silence.  The bound of SilenceStops is inductive as it stands: a tick in*)
(* failsafe takes the whole slew step off, and the silence grows by no more*)
(* than the tick.  The arithmetic: a was the silence past the watchdog, b  *)
(* is after dt more, and the throttle falls from t to u.                   *)
LEMMA RampArithmetic ==
    ASSUME NEW F \in Nat, NEW s \in Nat, NEW dt \in Nat, NEW a \in Int, NEW b \in Nat,
           NEW t \in 0 .. F, NEW u \in 0 .. F,
           b <= a + dt,
           a > 0 => t <= Clamp(F - s * a, 0, F),
           u <= Clamp(t - s * dt, 0, F)
    PROVE  u <= Clamp(F - s * b, 0, F)
<1> DEFINE p == s * a
           q == s * dt
           r == s * b
<1>1. p \in Int /\ q \in Nat /\ r \in Nat
  OBVIOUS
<1>2. r <= p + q
  <2> DEFINE m == a + dt
  <2>1. m \in Nat /\ b <= m
    OBVIOUS
  <2>2. s * m = p + q
    OBVIOUS
  <2> HIDE DEF m
  <2>3. PICK k \in Nat : m = b + k
    <3> SUFFICES m - b \in Nat /\ m = b + (m - b)
      OBVIOUS
    <3> QED BY <2>1
  <2>4. s * m = s * b + s * k
    BY <2>1, <2>3
  <2>5. s * k \in Nat
    OBVIOUS
  <2> QED BY <2>2, <2>4, <2>5, <1>1
<1>3. a <= 0 => p <= 0
  <2> SUFFICES ASSUME a <= 0 PROVE p <= 0
    OBVIOUS
  <2>1. PICK k \in Nat : a = -k
    <3> SUFFICES -a \in Nat /\ a = -(-a)
      OBVIOUS
    <3> QED OBVIOUS
  <2>2. s * k \in Nat /\ p = -(s * k)
    BY <2>1
  <2> QED BY <2>2
<1> HIDE DEF p, q, r
<1>4. a > 0 => t <= Clamp(F - p, 0, F)
  BY DEF p
<1>5. u <= Clamp(t - q, 0, F)
  BY DEF q
<1>6. u <= Clamp(F - r, 0, F)
  BY <1>1, <1>2, <1>3, <1>4, <1>5 DEF Clamp
<1> QED BY <1>6 DEF r

LEMMA SilenceStep ==
    ASSUME BoardTypeOK, SilenceStops,
           NEW line \in Lines \cup {NoLine}, NEW dt \in LoopTimes, Loop(line, dt)
    PROVE  SilenceStops'
<1> DEFINE age == AgeAfter(line, dt)
           u == ThrottleAfter(line, dt)
<1>1. cmdAge' = age /\ throttle' = u
  BY DEF Loop
<1> SUFFICES ASSUME age > Watchdog
             PROVE u <= Clamp(Full - EngineSlew * (age - Watchdog), 0, Full)
  BY <1>1 DEF SilenceStops
<1>2. /\ EngineSlew \in Nat /\ Watchdog \in Nat /\ Full \in Nat /\ dt \in Nat
      /\ cmdAge \in Nat /\ throttle \in 0 .. Full /\ AgeCap \in Nat
  BY BoardAssumption DEF BoardTypeOK, AgeCap
<1>3. age \in Nat /\ age <= cmdAge + dt
  BY <1>2 DEF AgeAfter, Saturate
<1>4. Allowed(line, dt) = 0
  BY DEF Allowed, Wanted, Failsafe
<1>5. u \in 0 .. Full /\ u <= Clamp(throttle - EngineSlew * dt, 0, Full)
  BY <1>4, ThrottleStep
<1> HIDE DEF age, u
<1> DEFINE a == cmdAge - Watchdog
           b == age - Watchdog
<1>6. a \in Int /\ b \in Nat /\ b <= a + dt
  BY <1>2, <1>3
<1>7. a > 0 => throttle <= Clamp(Full - EngineSlew * a, 0, Full)
  BY <1>2 DEF SilenceStops
<1> HIDE DEF a, b
<1>8. u <= Clamp(Full - EngineSlew * b, 0, Full)
  BY <1>2, <1>5, <1>6, <1>7, RampArithmetic
<1> QED BY <1>8 DEF b

(* Whatever the Pi was doing when it fell silent, the board ramps to       *)
(* neutral within Full / EngineSlew of the watchdog's expiry.              *)
THEOREM SilenceAlwaysStops == BoardSpec => []SilenceStops
<1>1. BoardInit => SilenceStops
  BY BoardAssumption DEF BoardInit, SilenceStops
<1>2. BoardTypeOK /\ SilenceStops /\ [BoardNext]_boardVars => SilenceStops'
  <2> SUFFICES ASSUME BoardTypeOK, SilenceStops, [BoardNext]_boardVars
               PROVE SilenceStops'
    OBVIOUS
  <2>1. ASSUME NEW line \in Lines \cup {NoLine}, NEW dt \in LoopTimes, Loop(line, dt)
        PROVE SilenceStops'
    BY <2>1, SilenceStep
  <2>2. CASE Boot
    BY <2>2, BoardAssumption DEF Boot, SilenceStops
  <2>3. CASE UNCHANGED boardVars
    BY <2>3 DEF boardVars, SilenceStops
  <2> QED BY <2>1, <2>2, <2>3 DEF BoardNext, BoardRuns
<1> QED BY <1>1, <1>2, BoardTypeCorrect, PTL DEF BoardSpec

-----------------------------------------------------------------------------
(* The board's interlock.  zeroFor never runs ahead of the time the        *)
(* throttle has really been near zero, and a relay that stands against the *)
(* last drive was switched after the dead-time and nothing was driven      *)
(* since.                                                                  *)
BoardInv ==
    /\ (zeroFor # Unset /\ throttle <= Eps) => zeroFor <= boardQuiet
    /\ throttle > Eps => boardDriven = relay
    /\ boardDriven \notin {0, relay} => boardQuiet >= DeadTime

(* The relay gives the throttle its sign.                                  *)
LEMMA SignedThrottle ==
    ASSUME NEW r \in {1, -1}, NEW t \in 0 .. Full
    PROVE  /\ r * t \in -Full .. Full
           /\ BI!Abs(r * t) = t
           /\ t > 0 => BI!Sign(r * t) = r
<1>1. CASE r = 1
  BY <1>1, BoardAssumption DEF BI!Abs, BI!Sign
<1>2. CASE r = -1
  <2>1. (-1) * t = -t
    OBVIOUS
  <2> QED BY <1>2, <2>1, BoardAssumption DEF BI!Abs, BI!Sign
<1> QED BY <1>1, <1>2

(* A run of loop() that leaves the relay against the last drive finds the  *)
(* dead-time served.                                                       *)
LEMMA RelayRests ==
    ASSUME BoardTypeOK, BoardInv,
           NEW line \in Lines \cup {NoLine}, NEW dt \in LoopTimes,
           boardDriven \notin {0, RelayAfter(line, dt)}
    PROVE  NearZero /\ BoardQuietAfter(dt) >= DeadTime
<1>1. DeadTime \in Nat /\ dt \in Nat \ {0} /\ boardQuiet \in 0 .. DeadTime
      /\ zeroFor \in 0 .. DeadTime \cup {Unset} /\ throttle \in 0 .. Full /\ Eps \in Nat
      /\ Full \in Nat
  BY BoardAssumption DEF BoardTypeOK
<1>2. CASE RelayAfter(line, dt) = relay
  BY <1>1, <1>2 DEF BoardInv, NearZero, BoardQuietAfter, Saturate
<1>3. CASE RelayAfter(line, dt) # relay
  <2>1. NearZero /\ Rested(dt) >= DeadTime
    BY <1>3 DEF RelayAfter, FlipAllowed
  <2> QED BY <1>1, <2>1 DEF BoardInv, NearZero, Rested, BoardQuietAfter, Saturate
<1> QED BY <1>2, <1>3

(* A board that stays up is a board.                                       *)
LEMMA BoardUpTypes == BoardUpSpec => []BoardTypeOK
<1>1. [BoardRuns]_boardVars => [BoardNext]_boardVars
  BY DEF BoardNext
<1> QED BY <1>1, BoardTypeCorrect, PTL DEF BoardUpSpec, BoardSpec

(* The board's memory always agrees with what it has driven, as long as it *)
(* does not reboot (a reboot forgets the relay and the dead-time).         *)
THEOREM BoardInvariant == BoardUpSpec => []BoardInv
<1>1. BoardInit => BoardInv
  BY BoardAssumption DEF BoardInit, BoardInv
<1>2. BoardTypeOK /\ BoardInv /\ [BoardRuns]_boardVars => BoardInv'
  <2> SUFFICES ASSUME BoardTypeOK, BoardInv, [BoardRuns]_boardVars PROVE BoardInv'
    OBVIOUS
  <2>1. ASSUME NEW line \in Lines \cup {NoLine}, NEW dt \in LoopTimes, Loop(line, dt)
        PROVE BoardInv'
    <3>1. /\ zeroFor' = Rested(dt) /\ throttle' = ThrottleAfter(line, dt)
          /\ relay' = RelayAfter(line, dt)
          /\ boardDriven' = IF throttle' > Eps THEN relay' ELSE boardDriven
          /\ boardQuiet' = IF throttle' > Eps THEN 0 ELSE BoardQuietAfter(dt)
      BY <2>1 DEF Loop
    <3>2. (zeroFor' # Unset /\ throttle' <= Eps) => zeroFor' <= boardQuiet'
      <4>1. CASE NearZero
        <5>1. Rested(dt) <= BoardQuietAfter(dt)
          BY <4>1, BoardAssumption
             DEF Rested, BoardQuietAfter, Saturate, BoardInv, BoardTypeOK, NearZero, Unset
        <5>2. throttle' \in 0 .. Full
          BY <3>1, ThrottleStep
        <5> QED BY <3>1, <5>1, <5>2, BoardAssumption
      <4>2. CASE ~NearZero
        BY <3>1, <4>2 DEF Rested
      <4> QED BY <4>1, <4>2
    <3>3. throttle' > Eps => boardDriven' = relay'
      BY <3>1
    <3>4. boardDriven' \notin {0, relay'} => boardQuiet' >= DeadTime
      BY <3>1, RelayRests
    <3> QED BY <3>2, <3>3, <3>4 DEF BoardInv
  <2>2. CASE UNCHANGED boardVars
    BY <2>2 DEF boardVars, BoardInv
  <2> QED BY <2>1, <2>2 DEF BoardRuns
<1> QED BY <1>1, <1>2, BoardUpTypes, PTL DEF BoardUpSpec

(* Whatever lines reach a board that stays up, and however late, the prop  *)
(* is driven the other way only after the dead-time near zero.             *)
THEOREM BoardRefinesInterlock == BoardUpSpec => BoardImplementsInterlock
<1>1. BoardInit => BI!Init
  <2> SUFFICES ASSUME BoardInit PROVE BI!Init
    OBVIOUS
  <2>1. relay * throttle = 0
    BY DEF BoardInit
  <2> QED BY <2>1, BoardAssumption DEF BoardInit, BI!Init
<1>2. BoardTypeOK /\ BoardInv /\ [BoardRuns]_boardVars => [BI!Next]_(BI!vars)
  <2> SUFFICES ASSUME BoardTypeOK, BoardInv, [BoardRuns]_boardVars
               PROVE [BI!Next]_(BI!vars)
    OBVIOUS
  <2>1. ASSUME NEW line \in Lines \cup {NoLine}, NEW dt \in LoopTimes, Loop(line, dt)
        PROVE BI!Next
    <3> DEFINE t == ThrottleAfter(line, dt)
               r == RelayAfter(line, dt)
               o == r * t
    <3>1. t \in 0 .. Full /\ r \in {1, -1} /\ Eps \in Nat
      BY BoardAssumption, ThrottleStep, BoardStepTypes
    <3>2. /\ relay' * throttle' = o
          /\ boardDriven' = IF t > Eps THEN r ELSE boardDriven
          /\ boardQuiet' = IF t > Eps THEN 0 ELSE BoardQuietAfter(dt)
      BY <2>1 DEF Loop
    <3>3. /\ o \in -Full .. Full
          /\ BI!Driving(o) <=> t > Eps
          /\ t > Eps => BI!Sign(o) = r
      <4> HIDE DEF t, r
      <4> QED BY <3>1, SignedThrottle, BoardAssumption DEF BI!Driving
    <3>4. BI!QuietAfter(dt) = BoardQuietAfter(dt)
      <4>1. BI!Abs(relay * throttle) = throttle
        BY SignedThrottle DEF BoardTypeOK
      <4> QED BY <4>1, BoardAssumption
              DEF BI!QuietAfter, BI!Driving, BI!Saturate, Saturate, BoardQuietAfter,
                  NearZero, BoardTypeOK
    <3>5. BI!Driving(o) /\ boardDriven # 0 /\ BI!Sign(o) # boardDriven
             => BI!QuietAfter(dt) >= DeadTime
      BY <3>3, <3>4, RelayRests
    <3> HIDE DEF o, t, r
    <3>6. BI!Drive(o, o, dt)
      BY <3>2, <3>3, <3>4, <3>5 DEF BI!Drive
    <3> QED BY <3>3, <3>6 DEF BI!Next
  <2>2. CASE UNCHANGED boardVars
    BY <2>2 DEF boardVars, BI!vars
  <2> QED BY <2>1, <2>2 DEF BoardRuns
<1> QED BY <1>1, <1>2, BoardUpTypes, BoardInvariant, PTL
        DEF BoardUpSpec, BoardImplementsInterlock, BI!Spec

-----------------------------------------------------------------------------
(* The driver.  What its own memory says of the lines it has written: it   *)
(* has a rest timer only while stopped lines are out, and the timer never  *)
(* runs ahead of the time those lines have stood.                          *)
DriverInv ==
    /\ emitted # 0 => restFor = Never /\ lastDir = Sign(emitted)
    /\ restFor # Never => restFor <= lineQuiet

LEMMA DriverTypeStep == DriverTypeOK /\ [DriverNext]_driverVars => DriverTypeOK'
<1> SUFFICES ASSUME DriverTypeOK, [DriverNext]_driverVars PROVE DriverTypeOK'
  OBVIOUS
<1>1. ASSUME NEW c \in Thrusts, Apply(c) PROVE DriverTypeOK'
  <2>1. Clamp(c, -DriverFull, DriverFull) \in -DriverFull .. DriverFull
    BY DriverAssumption DEF Clamp
  <2> QED BY <1>1, <2>1, DriverAssumption DEF Apply, DriverTypeOK
<1>2. CASE Flush
  <2>1. Gated \in -DriverFull .. DriverFull /\ Rests \in 0 .. DriverDelay
    BY DriverAssumption DEF DriverTypeOK, Gated, Rests, Never
  <2> QED BY <1>2, <2>1, DriverAssumption DEF Flush, DriverTypeOK, Sign
<1>3. ASSUME NEW dt \in Waits, Wait(dt) PROVE DriverTypeOK'
  <2>1. dt \in Nat
    BY DriverAssumption
  <2> QED BY <1>3, <2>1, DriverAssumption DEF Wait, DriverTypeOK, Saturate, Never
<1>4. CASE UNCHANGED driverVars
  BY <1>4 DEF driverVars, DriverTypeOK
<1> QED BY <1>1, <1>2, <1>3, <1>4 DEF DriverNext

(* The driver's state keeps its types.                                     *)
THEOREM DriverTypeCorrect == DriverSpec => []DriverTypeOK
<1>1. DriverInit => DriverTypeOK
  BY DriverAssumption DEF DriverInit, DriverTypeOK
<1> QED BY <1>1, DriverTypeStep, PTL DEF DriverSpec

(* The driver's memory always agrees with the lines it has written.        *)
THEOREM DriverInvariant == DriverSpec => []DriverInv
<1>1. DriverInit => DriverInv
  BY DEF DriverInit, DriverInv
<1>2. DriverTypeOK /\ DriverInv /\ [DriverNext]_driverVars => DriverInv'
  <2> SUFFICES ASSUME DriverTypeOK, DriverInv, [DriverNext]_driverVars PROVE DriverInv'
    OBVIOUS
  <2>1. ASSUME NEW c \in Thrusts, Apply(c) PROVE DriverInv'
    BY <2>1 DEF Apply, DriverInv
  <2>2. CASE Flush
    <3>1. CASE Gated # 0
      BY <2>2, <3>1 DEF Flush, DriverInv, Gated
    <3>2. CASE Gated = 0
      BY <2>2, <3>2, DriverAssumption
         DEF Flush, DriverInv, DriverTypeOK, Rests, Never
    <3> QED BY <3>1, <3>2
  <2>3. ASSUME NEW dt \in Waits, Wait(dt) PROVE DriverInv'
    <3>1. dt \in Nat
      BY DriverAssumption
    <3> QED BY <2>3, <3>1, DriverAssumption
            DEF Wait, DriverInv, DriverTypeOK, Saturate, Never
  <2>4. CASE UNCHANGED driverVars
    BY <2>4 DEF driverVars, DriverInv
  <2> QED BY <2>1, <2>2, <2>3, <2>4 DEF DriverNext
<1> QED BY <1>1, <1>2, DriverTypeCorrect, PTL DEF DriverSpec

(* The lines the driver writes implement the abstract reversal interlock:  *)
(* a line in the opposite direction follows only after reverse_delay_s of  *)
(* stopped lines.                                                          *)
THEOREM DriverRefinesInterlock == DriverSpec => DriverImplementsInterlock
<1>1. DriverInit => DI!Init
  BY DriverAssumption DEF DriverInit, DI!Init
<1>2. DriverTypeOK /\ DriverInv /\ [DriverNext]_driverVars => [DI!Next]_(DI!vars)
  <2> SUFFICES ASSUME DriverTypeOK, DriverInv, [DriverNext]_driverVars
               PROVE [DI!Next]_(DI!vars)
    OBVIOUS
  <2>1. ASSUME NEW c \in Thrusts, Apply(c) PROVE UNCHANGED DI!vars
    BY <2>1 DEF Apply, DI!vars
  <2>2. CASE Flush
    <3>1. Gated \in -DriverFull .. DriverFull
      BY DriverAssumption DEF DriverTypeOK, Gated
    <3>2. DI!QuietAfter(0) = IF emitted # 0 THEN 0 ELSE lineQuiet
      BY DriverAssumption
         DEF DriverTypeOK, DI!QuietAfter, DI!Driving, DI!Abs, DI!Saturate
    <3>3. DI!Driving(Gated) <=> Gated # 0
      BY <3>1, DriverAssumption DEF DI!Driving, DI!Abs
    <3>4. Gated # 0 /\ lastDir # 0 /\ DI!Sign(Gated) # lastDir
             => DI!QuietAfter(0) >= DriverDelay
      <4> SUFFICES ASSUME Gated # 0, lastDir # 0, DI!Sign(Gated) # lastDir
                   PROVE  DI!QuietAfter(0) >= DriverDelay
        OBVIOUS
      <4>1. Gated = command /\ ~Blocked /\ Opposes
        BY DEF Gated, Opposes, DI!Sign, Sign
      <4>2. Rests >= DriverDelay
        BY <4>1, DriverAssumption DEF Blocked, Rests, DriverTypeOK, Never
      <4> QED BY <3>2, <4>2, DriverAssumption
              DEF Rests, DriverInv, DriverTypeOK, Never
    <3>5. DI!Drive(Gated, Gated, 0)
      BY <2>2, <3>2, <3>3, <3>4 DEF Flush, Gated, DI!Drive, DI!Sign, Sign
    <3> QED BY <3>1, <3>5 DEF DI!Next
  <2>3. ASSUME NEW dt \in Waits, Wait(dt) PROVE DI!Next
    <3>1. dt \in Nat
      BY DriverAssumption
    <3>2. DI!Hold(dt)
      BY <2>3, <3>1, DriverAssumption
         DEF Wait, DriverTypeOK, Saturate,
             DI!Hold, DI!QuietAfter, DI!Driving, DI!Abs, DI!Saturate
    <3> QED BY <3>2 DEF DI!Next
  <2>4. CASE UNCHANGED driverVars
    BY <2>4 DEF driverVars, DI!vars
  <2> QED BY <2>1, <2>2, <2>3, <2>4 DEF DriverNext
<1> QED BY <1>1, <1>2, DriverTypeCorrect, DriverInvariant, PTL
        DEF DriverSpec, DriverImplementsInterlock, DI!Spec

-----------------------------------------------------------------------------
(* The chain.  Its lines are ones the board may be sent, so that all it    *)
(* does to the board is what the board by itself may do, and so for the    *)
(* driver when it is not reloaded.                                         *)
ChainInv ==
    /\ DriverTypeOK
    /\ wire \in Lines \cup {NoLine}
    /\ upsets \in 0 .. MaxUpsets

LEMMA ChainStarts == ChainInit => ChainInv
<1> SUFFICES ASSUME ChainInit PROVE ChainInv
  OBVIOUS
<1>1. DriverTypeOK
  BY DriverAssumption DEF ChainInit, DriverInit, DriverTypeOK
<1> QED BY <1>1, ChainAssumption DEF ChainInit, ChainInv

LEMMA EmittedLine ==
    ASSUME DriverTypeOK
    PROVE  [pwm |-> Abs(Gated), dir |-> LineDir(Gated)] \in Lines
<1>1. Gated \in -Full .. Full /\ Full \in Nat
  BY DriverAssumption, ChainAssumption DEF DriverTypeOK, Gated
<1>2. Abs(Gated) \in 0 .. Full /\ LineDir(Gated) \in {1, -1}
  BY <1>1 DEF Abs, LineDir
<1> QED BY <1>2, ChainAssumption DEF Lines

LEMMA ChainStep == ChainInv /\ [ChainNext]_chainVars => ChainInv'
<1> SUFFICES ASSUME ChainInv, [ChainNext]_chainVars PROVE ChainInv'
  OBVIOUS
<1>1. ASSUME NEW c \in Thrusts, Command(c) PROVE ChainInv'
  <2>1. [DriverNext]_driverVars
    BY <1>1 DEF Command, DriverNext
  <2> QED BY <1>1, <2>1, DriverTypeStep DEF Command, ChainInv
<1>2. ASSUME NEW arrives \in BOOLEAN, Emit(arrives) PROVE ChainInv'
  <2>1. [DriverNext]_driverVars
    BY <1>2 DEF Emit, DriverNext
  <2> QED BY <1>2, <2>1, DriverTypeStep, EmittedLine DEF Emit, ChainInv
<1>3. ASSUME NEW dt \in LoopTimes, Run(dt) PROVE ChainInv'
  <2>1. [DriverNext]_driverVars
    BY <1>3, ChainAssumption DEF Run, DriverNext
  <2> QED BY <1>3, <2>1, DriverTypeStep DEF Run, ChainInv
<1>4. ASSUME NEW arrives \in BOOLEAN, Reload(arrives) PROVE ChainInv'
  <2>1. /\ lastDir' = 0 /\ restFor' = 0 /\ emitted' = 0 /\ UNCHANGED <<command, lineQuiet>>
        /\ wire' = IF arrives THEN [pwm |-> 0, dir |-> 1] ELSE wire
        /\ upsets < MaxUpsets /\ upsets' = upsets + 1
    BY <1>4 DEF Reload
  <2>2. [pwm |-> 0, dir |-> 1] \in Lines
    BY BoardAssumption, ChainAssumption DEF Lines
  <2>3. DriverTypeOK'
    BY <2>1, DriverAssumption DEF ChainInv, DriverTypeOK
  <2>4. upsets' \in 0 .. MaxUpsets
    BY <2>1, ChainAssumption DEF ChainInv
  <2> QED BY <2>1, <2>2, <2>3, <2>4 DEF ChainInv
<1>5. CASE BoardReset
  <2>1. UNCHANGED <<driverVars, wire>> /\ upsets < MaxUpsets /\ upsets' = upsets + 1
    BY <1>5 DEF BoardReset
  <2>2. upsets' \in 0 .. MaxUpsets
    BY <2>1, ChainAssumption DEF ChainInv
  <2> QED BY <2>1, <2>2 DEF ChainInv, DriverTypeOK, driverVars
<1>6. CASE UNCHANGED chainVars
  BY <1>6 DEF chainVars, driverVars, ChainInv, DriverTypeOK
<1> QED BY <1>1, <1>2, <1>3, <1>4, <1>5, <1>6 DEF ChainNext, SteadyNext

LEMMA ChainRuns ==
    ASSUME ChainInv, [ChainNext]_chainVars
    PROVE  /\ [BoardNext]_boardVars
           /\ [SteadyNext]_chainVars => [BoardRuns]_boardVars /\ [DriverNext]_driverVars
<1>1. ASSUME NEW c \in Thrusts, Command(c)
      PROVE  UNCHANGED boardVars /\ DriverNext
  BY <1>1 DEF Command, DriverNext
<1>2. ASSUME NEW arrives \in BOOLEAN, Emit(arrives)
      PROVE  UNCHANGED boardVars /\ DriverNext
  BY <1>2 DEF Emit, DriverNext
<1>3. ASSUME NEW dt \in LoopTimes, Run(dt)
      PROVE  BoardRuns /\ DriverNext
  BY <1>3, ChainAssumption DEF Run, BoardRuns, DriverNext, ChainInv
<1>4. ASSUME NEW arrives \in BOOLEAN, Reload(arrives) PROVE UNCHANGED boardVars
  BY <1>4 DEF Reload
<1>5. BoardReset => Boot
  BY DEF BoardReset
<1>6. UNCHANGED chainVars => UNCHANGED boardVars /\ UNCHANGED driverVars
  BY DEF chainVars
<1>7. [SteadyNext]_chainVars => [BoardRuns]_boardVars /\ [DriverNext]_driverVars
  BY <1>1, <1>2, <1>3, <1>6 DEF SteadyNext
<1>8. [BoardNext]_boardVars
  BY <1>4, <1>5, <1>7 DEF ChainNext, BoardNext
<1> QED BY <1>7, <1>8

LEMMA ChainInvariant == ChainSpec => []ChainInv
BY ChainStarts, ChainStep, PTL DEF ChainSpec

LEMMA ChainIsBoard == ChainSpec => BoardSpec
<1>1. ChainInit => BoardInit
  BY DEF ChainInit
<1> QED BY <1>1, ChainRuns, ChainInvariant, PTL DEF ChainSpec, BoardSpec

(* The driver, the line and the board keep their types together, reloads   *)
(* and resets included: every line the driver of serial_devices.py writes  *)
(* is one engine.ino parses.                                               *)
THEOREM ChainTypeCorrect == ChainSpec => []ChainTypeOK
<1>1. ChainInv /\ BoardTypeOK => ChainTypeOK
  BY DEF ChainInv, ChainTypeOK
<1> QED BY <1>1, ChainInvariant, ChainIsBoard, BoardTypeCorrect, PTL

(* Silence stops the motor in the whole chain too, whatever the driver and *)
(* the line were doing when the Pi fell silent.                            *)
THEOREM ChainSilenceStops == ChainSpec => []SilenceStops
BY ChainIsBoard, SilenceAlwaysStops, PTL

(* Both layers of a chain that is not restarted implement the interlock at *)
(* once: neither the lost lines nor the watchdog, which the driver knows   *)
(* nothing of, make either reverse without its rest.                       *)
THEOREM LayersImplementInterlock ==
    SteadySpec => BoardImplementsInterlock /\ DriverImplementsInterlock
<1>1. ChainInit => BoardInit /\ DriverInit
  BY DEF ChainInit
<1>2. [SteadyNext]_chainVars => [ChainNext]_chainVars
  BY DEF ChainNext
<1>3. ChainInv /\ [SteadyNext]_chainVars => [BoardRuns]_boardVars /\ [DriverNext]_driverVars
  BY <1>2, ChainRuns
<1>4. SteadySpec => ChainSpec
  BY <1>2, PTL DEF SteadySpec, ChainSpec
<1>5. SteadySpec => BoardUpSpec /\ DriverSpec
  BY <1>1, <1>3, <1>4, ChainInvariant, PTL DEF SteadySpec, BoardUpSpec, DriverSpec
<1> QED BY <1>5, BoardRefinesInterlock, DriverRefinesInterlock, PTL
=============================================================================
