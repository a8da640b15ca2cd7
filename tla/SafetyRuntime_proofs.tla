------------------------ MODULE SafetyRuntime_proofs ------------------------
(***************************************************************************)
(* What the supervisor of SafetyRuntime keeps for every timeout, ladder,   *)
(* set of charges and number of clients.                                   *)
(***************************************************************************)
EXTENDS SafetyRuntime, LeastNumber, SequenceTheorems, TLAPS

(* The planners and the flag that stands for them, without the flags'      *)
(* consumers: the conjunct of the type invariant OnePlanner needs.         *)
PlannerInv ==
    /\ planners \in Nat /\ landed \in Nat /\ inFlight \in BOOLEAN
    /\ OnePlanner

LEMMA PlannerInit == Init => PlannerInv
<1> SUFFICES ASSUME Init PROVE PlannerInv
  OBVIOUS
<1>1. inFlight = FALSE /\ planners = 0 /\ landed = 0
  BY DEF Init
<1>2. ~inFlight /\ inFlight \in BOOLEAN
  BY <1>1
<1>3. QED
  BY <1>1, <1>2 DEF PlannerInv, OnePlanner

(* Whatever the order of passes, failures, landings and continuations, the *)
(* in-flight flag stands for exactly the one planner there is.             *)
LEMMA PlannerStep == PlannerInv /\ [Next]_vars => PlannerInv'
<1> SUFFICES ASSUME PlannerInv, [Next]_vars PROVE PlannerInv'
  OBVIOUS
<1> USE DEF PlannerInv, OnePlanner
<1>1. CASE \E range \in Ranges : Supervise(range)
  <2>1. PICK range \in Ranges : Supervise(range)
    BY <1>1
  <2>2. CASE Schedules(range)
    <3>1. ~inFlight
      BY <2>2 DEF Schedules
    <3>2. inFlight' = TRUE /\ planners' = planners + 1 /\ landed' = landed
      BY <2>1, <2>2 DEF Supervise
    <3>3. QED
      BY <3>1, <3>2
  <2>3. CASE ~Schedules(range)
    <3>1. inFlight' = inFlight /\ planners' = planners /\ landed' = landed
      BY <2>1, <2>3 DEF Supervise
    <3>2. QED
      BY <3>1
  <2>4. QED
    BY <2>2, <2>3
<1>2. CASE \E ok \in BOOLEAN : PlannerLands(ok)
  BY <1>2 DEF PlannerLands
<1>3. CASE PlannerClears
  <2>1. planners' = planners /\ landed' = landed - 1 /\ landed > 0
    BY <1>3 DEF PlannerClears
  <2>2. ~inFlight' /\ inFlight' \in BOOLEAN
    BY <1>3 DEF PlannerClears
  <2>3. QED
    BY <2>1, <2>2
<1>4. ASSUME \/ Connect \/ Activity \/ Disconnect
             \/ \E on \in BOOLEAN : Drive(on)
             \/ \E m \in Orders : Order(m)
             \/ \E d \in BOOLEAN : ControlTick(d)
             \/ \E m \in {"anchor_hold", "manual"} : RouteEnds(m)
             \/ \E s \in Socs : Gauge(s)
             \/ Fix
             \/ \E on \in BOOLEAN : Heard(on)
             \/ UNCHANGED vars
      PROVE PlannerInv'
  <2>1. UNCHANGED <<inFlight, planners, landed>>
    BY <1>4 DEF Connect, Activity, Disconnect, Drive, Order, ControlTick, RouteEnds,
                Gauge, Fix, Heard, vars, home
  <2>2. QED
    BY <2>1
<1>5. QED
  BY <1>1, <1>2, <1>3, <1>4 DEF Next, Pass

(* The supervisor never has two return plans under way, and a plan that    *)
(* fails leaves the way free for the next (_schedule_auto_rtl,             *)
(* _run_auto_rtl).                                                         *)
THEOREM OnePlannerAlways == Spec => []OnePlanner
<1>1. PlannerInv => OnePlanner
  BY DEF PlannerInv
<1>2. QED
  BY PlannerInit, PlannerStep, <1>1, PTL DEF Spec
-----------------------------------------------------------------------------
(* The deadman's state: a latched failsafe means that no client is there,  *)
(* and nothing plans a return.                                             *)
DeadmanInv ==
    /\ clients \in Nat
    /\ engaged => clients = 0
    /\ planners = 0
    /\ DeadmanHolds

LEMMA DeadmanInit == Init => DeadmanInv
BY DEF Init, DeadmanInv, DeadmanHolds

(* With no way in for a command without a client, and no automatic mode    *)
(* allowed, no step takes a boat out of the stop the deadman put it in.    *)
LEMMA DeadmanStep ==
    ASSUME ~Remote, ~AutoApb, ~AutoRtl, DeadmanInv, [Next]_vars
    PROVE  DeadmanInv'
<1> USE DEF DeadmanInv, DeadmanHolds
<1>1. CASE Connect
  <2>1. ~engaged'
    BY <1>1 DEF Connect
  <2>2. clients' \in Nat /\ planners' = planners
    BY <1>1 DEF Connect, home
  <2>3. QED
    BY <2>1, <2>2
<1>2. CASE Activity
  BY <1>2 DEF Activity, helm, home
<1>3. CASE Disconnect
  BY <1>3 DEF Disconnect, helm, home
<1>4. CASE (\E on \in BOOLEAN : Drive(on)) \/ (\E m \in Orders : Order(m))
  <2>1. clients # 0
    BY <1>4 DEF Drive, Order, Operated
  <2>2. ~engaged
    BY <2>1
  <2>3. UNCHANGED <<clients, engaged, planners>>
    BY <1>4 DEF Drive, Order, link, home
  <2>4. QED
    BY <2>2, <2>3
<1>5. CASE \E d \in BOOLEAN : ControlTick(d)
  BY <1>5 DEF ControlTick, link, home
<1>6. CASE \E m \in {"anchor_hold", "manual"} : RouteEnds(m)
  BY <1>6 DEF RouteEnds, Routes, link, home
<1>7. CASE (\E s \in Socs : Gauge(s)) \/ Fix \/ (\E on \in BOOLEAN : Heard(on))
            \/ PlannerClears \/ UNCHANGED vars
  <2>1. UNCHANGED <<clients, engaged, action, mode, stick, planners>>
    BY <1>7 DEF Gauge, Fix, Heard, PlannerClears, vars, helm, link, home
  <2>2. QED
    BY <2>1
<1>8. CASE \E ok \in BOOLEAN : PlannerLands(ok)
  BY <1>8 DEF PlannerLands
<1>9. CASE \E range \in Ranges : Supervise(range)
  <2>1. PICK range \in Ranges : Supervise(range)
    BY <1>9
  <2>2. ~Schedules(range) /\ ~ApbEngages
    BY DEF Schedules, HandoffFlies, RecommendFlies, ApbEngages
  <2>3. clients' = clients /\ planners' = planners
    BY <2>1, <2>2 DEF Supervise
  <2>4. mode' = ModeAfterTrip /\ stick' = StickAfterTrip /\ engaged' = (engaged \/ Trips)
    BY <2>1, <2>2 DEF Supervise
  <2>5. CASE Trips
    <3>1. clients = 0 /\ ~engaged
      BY <2>5 DEF Trips
    <3>2. CASE TripStops
      <4>1. mode = "manual" /\ ~TripHolds
        BY <3>2 DEF TripStops, TripHolds
      <4>2. mode' = "manual" /\ ~stick'
        BY <2>4, <3>2, <4>1 DEF ModeAfterTrip, StickAfterTrip
      <4>3. QED
        BY <2>3, <3>1, <4>2
    <3>3. CASE ~TripStops
      <4>1. action' # "stop"
        BY <2>1, <2>5, <3>3 DEF Supervise
      <4>2. QED
        BY <2>3, <3>1, <4>1
    <3>4. QED
      BY <3>2, <3>3
  <2>6. CASE ~Trips
    <3>1. ~TripStops /\ ~TripHolds
      BY <2>6 DEF TripStops, TripHolds
    <3>2. mode' = mode
      BY <2>4, <3>1 DEF ModeAfterTrip
    <3>3. action' = action
      BY <2>1, <2>6, <3>1 DEF Supervise
    <3>4. (engaged' => engaged) /\ (stick' => stick)
      BY <2>4, <2>6 DEF StickAfterTrip
    <3>5. QED
      BY <2>3, <3>2, <3>3, <3>4
  <2>7. QED
    BY <2>5, <2>6
<1>10. QED
  BY <1>1, <1>2, <1>3, <1>4, <1>5, <1>6, <1>7, <1>8, <1>9 DEF Next, Pass

(* Without the automatic modes and without REST commands, a boat the       *)
(* deadman has stopped stays stopped until a client is back                *)
(* (evaluate_link_failsafe, client_connected), for every timeout and any   *)
(* number of clients.                                                      *)
THEOREM DeadmanAlwaysHolds ==
    ASSUME ~Remote, ~AutoApb, ~AutoRtl
    PROVE  Spec => []DeadmanHolds
<1>1. DeadmanInv /\ [Next]_vars => DeadmanInv'
  BY DeadmanStep
<1>2. DeadmanInv => DeadmanHolds
  BY DEF DeadmanInv
<1>3. QED
  BY DeadmanInit, <1>1, <1>2, PTL DEF Spec

-----------------------------------------------------------------------------
(* The battery ladder.                                                     *)

LEMMA RungTypes ==
    Full \in Nat /\ \A i \in DOMAIN Rungs : Rungs[i].soc \in Nat /\ Rungs[i].cap \in 0 .. Full
<1>1. Rungs \in Seq([soc : Nat, cap : 0 .. Full]) /\ Full \in Nat
  BY SupervisorAssumption
<1>2. ASSUME NEW i \in DOMAIN Rungs PROVE Rungs[i] \in [soc : Nat, cap : 0 .. Full]
  <2>1. i \in 1 .. Len(Rungs)
    BY <1>1, LenProperties
  <2>2. QED
    BY <1>1, <2>1, ElementOfSeq
<1>3. QED
  BY <1>1, <1>2

(* The rung in force is the lowest of those the charge has fallen to, or   *)
(* full thrust; and a lower charge never has a higher cap.                 *)
LEMMA LadderBounds ==
    ASSUME NEW s \in Nat
    PROVE  /\ CapFor(s) \in 0 .. Full
           /\ \A i \in DOMAIN Rungs : s <= Rungs[i].soc => CapFor(s) <= Rungs[i].cap
           /\ \/ CapFor(s) = Full
              \/ \E i \in DOMAIN Rungs : s <= Rungs[i].soc /\ CapFor(s) = Rungs[i].cap
<1> DEFINE hit == {j \in DOMAIN Rungs : s <= Rungs[j].soc}
           caps == {Full} \cup {Rungs[i].cap : i \in hit}
<1>1. Full \in Nat /\ \A i \in DOMAIN Rungs : Rungs[i].cap \in 0 .. Full
  BY RungTypes
<1>2. caps \subseteq 0 .. Full /\ caps # {}
  BY <1>1
<1>3. caps \in SUBSET Nat
  BY <1>1, <1>2
<1>4. Min(caps) \in caps /\ \A y \in caps : Min(caps) <= y
  BY <1>2, <1>3, MinIsLeast
<1>5. CapFor(s) = Min(caps)
  BY DEF CapFor
<1>6. \A i \in DOMAIN Rungs : s <= Rungs[i].soc => Rungs[i].cap \in caps
  OBVIOUS
<1>7. \/ Min(caps) = Full
      \/ \E i \in DOMAIN Rungs : s <= Rungs[i].soc /\ Min(caps) = Rungs[i].cap
  BY <1>4
<1> HIDE DEF caps
<1>8. QED
  BY <1>2, <1>4, <1>5, <1>6, <1>7

LEMMA LadderMonotone ==
    ASSUME NEW s \in Nat, NEW t \in Nat, s <= t
    PROVE  CapFor(s) <= CapFor(t)
<1>1. CapFor(s) \in 0 .. Full /\ CapFor(t) \in 0 .. Full /\ Full \in Nat
  BY LadderBounds, SupervisorAssumption
<1>2. CASE CapFor(t) = Full
  BY <1>1, <1>2
<1>3. CASE \E i \in DOMAIN Rungs : t <= Rungs[i].soc /\ CapFor(t) = Rungs[i].cap
  <2>1. PICK i \in DOMAIN Rungs : t <= Rungs[i].soc /\ CapFor(t) = Rungs[i].cap
    BY <1>3
  <2>2. Rungs[i].soc \in Nat
    BY RungTypes
  <2>3. s <= Rungs[i].soc
    BY <2>1, <2>2
  <2>4. QED
    BY <2>1, <2>3, LadderBounds
<1>4. QED
  BY <1>2, <1>3, LadderBounds

(* The types.  A faulty order of the rungs cannot take the cap out of its  *)
(* range, and the silence is counted only once a client has been there.    *)
Flags == {stick, driving, engaged, handedOff, recommended, launch,
          fix, inFlight, apb, apbLatched, declined}
FlagsOK == Flags \subseteq BOOLEAN
Counted ==
    /\ clients \in 0 .. MaxClients /\ silent \in -1 .. Timeout
    /\ {soc, gauged} \subseteq Socs /\ cap \in 0 .. Full
    /\ planners \in Nat /\ landed \in Nat

LEMMA SilenceType == silent \in -1 .. Timeout => Silence \in -1 .. Timeout
<1> SUFFICES ASSUME silent \in -1 .. Timeout PROVE Silence \in -1 .. Timeout
  OBVIOUS
<1>1. Timeout \in Nat \ {0} /\ -1 \in -1 .. Timeout
  BY SupervisorAssumption
<1>2. CASE silent = Never
  BY <1>1, <1>2 DEF Silence, Never
<1>3. CASE silent # Never
  <2>1. silent + 1 \in Nat
    BY <1>1, <1>3 DEF Never
  <2>2. {Timeout, silent + 1} \in SUBSET Nat /\ {Timeout, silent + 1} # {}
    BY <1>1, <2>1
  <2> DEFINE m == Min({Timeout, silent + 1})
  <2>3. m \in {Timeout, silent + 1} /\ m <= Timeout
    BY <2>2, MinIsLeast
  <2>4. Silence = m
    BY <1>3 DEF Silence
  <2> HIDE DEF m
  <2>5. QED
    BY <1>1, <2>1, <2>3, <2>4
<1>4. QED
  BY <1>2, <1>3

LEMMA CountedStep == Counted /\ [Next]_vars => Counted'
<1> SUFFICES ASSUME Counted, [Next]_vars PROVE Counted'
  OBVIOUS
<1> USE SupervisorAssumption DEF Counted
<1>1. CASE Connect
  BY <1>1 DEF Connect, battery, home
<1>2. CASE Activity
  BY <1>2 DEF Activity, battery, home
<1>3. CASE Disconnect
  BY <1>3 DEF Disconnect, battery, home
<1>4. CASE \E s \in Socs : Gauge(s)
  BY <1>4 DEF Gauge, link, home
<1>5. CASE (\E ok \in BOOLEAN : PlannerLands(ok)) \/ PlannerClears
  BY <1>5 DEF PlannerLands, PlannerClears, link, battery
<1>6. ASSUME NEW range \in Ranges, Supervise(range) PROVE Counted'
  <2>1. /\ clients' = clients /\ silent' = Silence /\ soc' = soc /\ gauged' = soc
        /\ cap' = (IF soc = NoGauge THEN Full ELSE CapFor(soc)) /\ landed' = landed
        /\ planners' \in {planners, planners + 1}
    BY <1>6 DEF Supervise
  <2>2. soc # NoGauge => soc \in Nat
    BY DEF NoGauge
  <2>3. cap' \in 0 .. Full
    BY <2>1, <2>2, LadderBounds
  <2>4. silent' \in -1 .. Timeout
    BY <2>1, SilenceType
  <2>5. QED
    BY <2>1, <2>3, <2>4
<1>7. CASE \/ \E on \in BOOLEAN : Drive(on)
           \/ \E m \in Orders : Order(m)
           \/ \E d \in BOOLEAN : ControlTick(d)
           \/ \E m \in {"anchor_hold", "manual"} : RouteEnds(m)
           \/ Fix
           \/ \E on \in BOOLEAN : Heard(on)
           \/ UNCHANGED vars
  <2>1. UNCHANGED <<clients, silent, soc, gauged, cap, planners, landed>>
    BY <1>7 DEF Drive, Order, ControlTick, RouteEnds, Fix, Heard, vars, link, battery, home
  <2>2. QED
    BY <2>1
<1>8. QED
  BY <1>1, <1>2, <1>3, <1>4, <1>5, <1>6, <1>7 DEF Next, Pass

LEMMA FlagsStep == FlagsOK /\ [Next]_vars => FlagsOK'
<1> SUFFICES ASSUME FlagsOK, [Next]_vars PROVE FlagsOK'
  OBVIOUS
<1> USE DEF Flags, FlagsOK
<1>1. CASE Connect \/ Activity \/ Disconnect
  BY <1>1 DEF Connect, Activity, Disconnect, helm, battery, home, pilot
<1>2. CASE \E on \in BOOLEAN : Drive(on)
  BY <1>2 DEF Drive, Leaves, link, battery, home
<1>3. CASE \E m \in Orders : Order(m)
  BY <1>3 DEF Order, Leaves, link, battery, home
<1>4. CASE \E d \in BOOLEAN : ControlTick(d)
  BY <1>4 DEF ControlTick, link, battery, home, pilot
<1>5. CASE \E m \in {"anchor_hold", "manual"} : RouteEnds(m)
  BY <1>5 DEF RouteEnds, link, battery, home, pilot
<1>6. CASE \E s \in Socs : Gauge(s)
  BY <1>6 DEF Gauge, helm, link, home, pilot
<1>7. CASE Fix
  BY <1>7 DEF Fix, helm, link, battery, pilot
<1>8. CASE \E on \in BOOLEAN : Heard(on)
  BY <1>8 DEF Heard, helm, link, battery, home
<1>9. CASE (\E ok \in BOOLEAN : PlannerLands(ok)) \/ PlannerClears
  BY <1>9 DEF PlannerLands, PlannerClears, helm, link, battery, pilot
<1>10. ASSUME NEW range \in Ranges, Supervise(range) PROVE FlagsOK'
  <2>1. /\ launch' = Launched /\ recommended' = Recommends(range)
        /\ handedOff' = (IF soc = NoGauge THEN handedOff ELSE AtRtl)
        /\ inFlight' = (inFlight \/ Schedules(range)) /\ engaged' = (engaged \/ Trips)
        /\ stick' = StickAfterTrip /\ apbLatched' = Latched
        /\ UNCHANGED <<driving, fix, apb, declined>>
    BY <1>10 DEF Supervise
  <2>2. launch' \in BOOLEAN /\ recommended' \in BOOLEAN /\ handedOff' \in BOOLEAN
    BY <2>1 DEF Launched, Recommends, AtRtl
  <2>3. inFlight' \in BOOLEAN /\ engaged' \in BOOLEAN
    BY <2>1
  <2>4. stick' \in BOOLEAN /\ apbLatched' \in BOOLEAN
    BY <2>1 DEF StickAfterTrip, Latched
  <2>5. QED
    BY <2>1, <2>2, <2>3, <2>4
<1>11. CASE UNCHANGED vars
  BY <1>11 DEF vars, helm, link, battery, home, pilot
<1>12. QED
  BY <1>1, <1>2, <1>3, <1>4, <1>5, <1>6, <1>7, <1>8, <1>9, <1>10, <1>11 DEF Next, Pass

Named == mode \in Modes /\ action \in {"none", "stop", "hold", "continue"}

LEMMA NamedStep == Named /\ [Next]_vars => Named'
<1> SUFFICES ASSUME Named, [Next]_vars PROVE Named'
  OBVIOUS
<1> USE DEF Named, Modes, Guided, Routes
<1>1. CASE Connect \/ Activity \/ Disconnect
  BY <1>1 DEF Connect, Activity, Disconnect, helm
<1>2. CASE \E on \in BOOLEAN : Drive(on)
  BY <1>2 DEF Drive, link
<1>3. CASE \E m \in Orders : Order(m)
  BY <1>3, SupervisorAssumption DEF Order, link
<1>4. CASE (\E d \in BOOLEAN : ControlTick(d)) \/ (\E s \in Socs : Gauge(s)) \/ Fix
           \/ (\E on \in BOOLEAN : Heard(on)) \/ PlannerClears \/ UNCHANGED vars
  <2>1. mode' = mode /\ action' = action
    BY <1>4 DEF ControlTick, Gauge, Fix, Heard, PlannerClears, vars, helm, link
  <2>2. QED
    BY <2>1
<1>5. CASE \E m \in {"anchor_hold", "manual"} : RouteEnds(m)
  BY <1>5 DEF RouteEnds, link
<1>6. CASE \E ok \in BOOLEAN : PlannerLands(ok)
  BY <1>6 DEF PlannerLands, link
<1>7. ASSUME NEW range \in Ranges, Supervise(range) PROVE Named'
  <2>1. /\ action' \in {"stop", "hold", "continue", action}
        /\ mode' \in {"follow_apb", "anchor_hold", mode}
    BY <1>7 DEF Supervise, ModeAfterTrip
  <2>2. QED
    BY <2>1
<1>8. QED
  BY <1>1, <1>2, <1>3, <1>4, <1>5, <1>6, <1>7 DEF Next, Pass

(* The supervisor keeps its types: the cap of any ladder stays within full *)
(* thrust, and a client is counted out only once it was counted in.        *)
THEOREM SupervisorTypeCorrect == Spec => []SupervisorTypeOK
<1>1. Init => Counted
  <2> SUFFICES ASSUME Init PROVE Counted
    OBVIOUS
  <2>1. clients \in 0 .. MaxClients /\ silent \in -1 .. Timeout
    BY SupervisorAssumption DEF Init, Never
  <2>2. cap \in 0 .. Full /\ planners \in Nat /\ landed \in Nat
    BY SupervisorAssumption DEF Init
  <2>3. {soc, gauged} \subseteq Socs
    BY DEF Init
  <2>4. QED
    BY <2>1, <2>2, <2>3 DEF Counted
<1>2. Init => FlagsOK
  BY DEF Init, Flags, FlagsOK
<1>3. Init => Named
  BY DEF Init, Named, Modes
<1>4. Counted /\ FlagsOK /\ Named => SupervisorTypeOK
  BY DEF Counted, Flags, FlagsOK, Named, SupervisorTypeOK
<1>5. QED
  BY <1>1, <1>2, <1>3, <1>4, CountedStep, FlagsStep, NamedStep, PTL DEF Spec

(* The cap in force is never below the rung of the charge last seen.       *)
DerateInv == gauged # NoGauge => CapFor(gauged) <= cap

LEMMA DerateStep == Counted /\ DerateInv /\ [Next]_vars => DerateInv'
<1> SUFFICES ASSUME Counted, DerateInv, [Next]_vars PROVE DerateInv'
  OBVIOUS
<1>1. ASSUME NEW range \in Ranges, Supervise(range) PROVE DerateInv'
  <2> SUFFICES ASSUME gauged' # NoGauge PROVE CapFor(gauged') <= cap'
    BY DEF DerateInv, CapFor
  <2>1. gauged' = soc /\ cap' = CapFor(soc) /\ soc \in Nat
    BY <1>1, SupervisorAssumption DEF Supervise, Counted, NoGauge
  <2>2. CapFor(soc) \in Int
    BY <2>1, LadderBounds
  <2>3. QED
    BY <2>1, <2>2
<1>2. CASE ~(\E range \in Ranges : Supervise(range))
  <2>1. UNCHANGED <<cap, gauged>>
    BY <1>2 DEF Next, Pass, Connect, Activity, Disconnect, Drive, Order, ControlTick,
                RouteEnds, Gauge, Fix, Heard, PlannerLands, PlannerClears, vars, battery
  <2>2. QED
    BY <2>1 DEF DerateInv, CapFor
<1>3. QED
  BY <1>1, <1>2

(* Between two passes the derate is never lifted unless the charge rose or *)
(* the gauge went, whatever the order of the configured rungs:             *)
(* evaluate_battery_ladder.                                                *)
THEOREM CapRisesWithChargeHolds == Spec => CapRisesWithCharge
<1> DEFINE Lifted == cap' > cap => soc > gauged \/ soc = NoGauge \/ gauged = NoGauge
<1>1. Init => Counted /\ DerateInv
  <2> SUFFICES ASSUME Init PROVE Counted /\ DerateInv
    OBVIOUS
  <2>1. soc \in Socs /\ gauged = soc /\ cap = Full /\ Full \in Nat
    BY SupervisorAssumption DEF Init
  <2>2. Counted
    <3>1. clients \in 0 .. MaxClients /\ silent \in -1 .. Timeout
      BY SupervisorAssumption DEF Init, Never
    <3>2. cap \in 0 .. Full /\ planners \in Nat /\ landed \in Nat
      BY SupervisorAssumption DEF Init
    <3>3. QED
      BY <2>1, <3>1, <3>2 DEF Counted
  <2>3. soc # NoGauge => soc \in Nat
    BY <2>1, SupervisorAssumption
  <2>4. soc # NoGauge => CapFor(soc) <= Full
    BY <2>1, <2>3, LadderBounds
  <2>5. QED
    BY <2>1, <2>2, <2>4 DEF DerateInv
<1>2. Counted /\ DerateInv /\ [Next]_vars => [Lifted]_vars
  <2> SUFFICES ASSUME Counted, DerateInv, [Next]_vars PROVE Lifted
    OBVIOUS
  <2>1. ASSUME NEW range \in Ranges, Supervise(range) PROVE Lifted
    <3> SUFFICES ASSUME ~(soc > gauged), soc # NoGauge, gauged # NoGauge
                 PROVE  ~(cap' > cap)
      OBVIOUS
    <3>a. soc \in Socs /\ gauged \in Socs /\ cap \in 0 .. Full
      BY DEF Counted
    <3>b. Socs \subseteq Nat \cup {NoGauge} /\ Full \in Nat
      BY SupervisorAssumption
    <3>c. soc \in Nat /\ gauged \in Nat
      BY <3>a, <3>b, Zenon
    <3>1. soc \in Nat /\ gauged \in Nat /\ cap \in Int
      BY <3>a, <3>b, <3>c
    <3>2. cap' = CapFor(soc)
      BY <2>1 DEF Supervise
    <3>3. CapFor(soc) <= CapFor(gauged) /\ CapFor(soc) \in Int /\ CapFor(gauged) \in Int
      BY <3>1, LadderMonotone, LadderBounds
    <3>4. CapFor(gauged) <= cap
      BY DEF DerateInv
    <3>5. QED
      BY <3>1, <3>2, <3>3, <3>4
  <2>2. CASE ~(\E range \in Ranges : Supervise(range))
    <3>1. cap' = cap
      BY <2>2 DEF Next, Pass, Connect, Activity, Disconnect, Drive, Order, ControlTick,
                  RouteEnds, Gauge, Fix, Heard, PlannerLands, PlannerClears, vars, battery
    <3>2. cap \in Int
      BY DEF Counted
    <3>3. QED
      BY <3>1, <3>2
  <2>3. QED
    BY <2>1, <2>2
<1>3. QED
  BY <1>1, <1>2, CountedStep, DerateStep, PTL DEF Spec, CapRisesWithCharge

(* The boat sets off on a route of its own accord only when the operator   *)
(* opted into the automatic return: without it nothing plans one, and no   *)
(* other part of the pass engages the waypoint mode (_supervise_once).     *)
NoPlanInv == ~AutoRtl => planners = 0

(* A route is begun on an order, or by a planner the operator opted into:  *)
(* _run_auto_rtl of safety_runtime.py.                                     *)
THEOREM SelfDrivesOnlyOptedInHolds == Spec => SelfDrivesOnlyOptedIn
<1> DEFINE OptedIn == mode' = "waypoint" /\ mode # "waypoint" => AutoRtl \/ Order("waypoint")
<1>1. Init => NoPlanInv
  BY DEF Init, NoPlanInv
<1>2. NoPlanInv /\ [Next]_vars => NoPlanInv'
  <2> SUFFICES ASSUME NoPlanInv, [Next]_vars, ~AutoRtl PROVE planners' = 0
    BY DEF NoPlanInv
  <2>1. planners = 0
    BY DEF NoPlanInv
  <2>2. ASSUME NEW range \in Ranges, Supervise(range) PROVE planners' = 0
    <3>1. ~Schedules(range)
      BY DEF Schedules, HandoffFlies, RecommendFlies
    <3>2. planners' = planners + 0
      BY <2>2, <3>1 DEF Supervise
    <3>3. QED
      BY <2>1, <3>2
  <2>3. ~(\E ok \in BOOLEAN : PlannerLands(ok))
    BY <2>1 DEF PlannerLands
  <2>4. CASE ~(\E range \in Ranges : Supervise(range))
    <3>1. planners' = planners
      BY <2>3, <2>4 DEF Next, Pass, Connect, Activity, Disconnect, Drive, Order, ControlTick,
                        RouteEnds, Gauge, Fix, Heard, PlannerClears, vars, home
    <3>2. QED
      BY <2>1, <3>1
  <2>5. QED
    BY <2>2, <2>4
<1>3. NoPlanInv /\ [Next]_vars => [OptedIn]_vars
  <2> SUFFICES ASSUME NoPlanInv, [Next]_vars, mode' = "waypoint", mode # "waypoint", ~AutoRtl
               PROVE  Order("waypoint")
    OBVIOUS
  <2>1. planners = 0
    BY DEF NoPlanInv
  <2>2. ASSUME NEW range \in Ranges, Supervise(range) PROVE FALSE
    BY <2>2 DEF Supervise, ModeAfterTrip
  <2>3. ASSUME NEW m \in Orders, Order(m) PROVE Order("waypoint")
    <3>1. m = "waypoint"
      BY <2>3 DEF Order
    <3>2. QED
      BY <2>3, <3>1
  <2>4. ASSUME NEW ok \in BOOLEAN, PlannerLands(ok) PROVE FALSE
    BY <2>1, <2>4 DEF PlannerLands
  <2>5. CASE ~(\/ \E range \in Ranges : Supervise(range)
               \/ \E m \in Orders : Order(m)
               \/ \E ok \in BOOLEAN : PlannerLands(ok))
    BY <2>5 DEF Next, Pass, Connect, Activity, Disconnect, Drive, ControlTick,
                RouteEnds, Gauge, Fix, Heard, PlannerClears, vars, helm
  <2>6. QED
    BY <2>2, <2>3, <2>4, <2>5
<1>4. QED
  BY <1>1, <1>2, <1>3, PTL DEF Spec, SelfDrivesOnlyOptedIn
=============================================================================
