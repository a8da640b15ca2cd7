# Vanchor in TLA+

Vanchor is an autopilot for an electric trolling motor: a Python process on a
Raspberry Pi reads the sensors, computes thrust and steering in a control
loop, and sends them over a serial line to microcontroller boards; phones and
tablets on the boat connect to it as clients, and a supervisor on the host
updates it.  This project models the parts of it that decide
whether a boat moves when it should and stops when it must, and the concurrent
machinery around them, checks them with TLC on
small instances, and proves the central facts with TLAPS for all values of
the constants.  Paths below are relative to the repository.

`PROJECT.json` lists the components, the runs, which lines each definition
stands for (`map`), the hazards with the properties aimed at them, and the
theorems.

## 1. Inventory

### The thrust chain

| Component | State | Operations | What is hard | What makes it correct |
|---|---|---|---|---|
| Safety governor, `controller/safety.py` | last applied thrust and steering, last driven direction, rest timer, time since a fix, thrust cap | `govern` each tick, `reset` on a mode change or STOP, retuning of limits | several failsafes at once, memory kept across mode changes and ticks that raise | no reversal without rest; a demanded stop is a stop in bounded time; derates hold; slew holds |
| Supervised loop, `controller/controller.py` `_tick_once` | mode, motor command, fault flag | tick, `_handle_tick_fault`, `set_mode` | a fault before or after the governor ran | a fault leaves the motor at zero, and the recovery is not a surge |
| Serial driver, `hardware/serial_devices.py` | command, last direction, start of the rest | `apply`, `flush`, `stop` | called at any pace, link down, reloads | emitted lines obey the interlock |
| Engine board, `firmware/engine/engine.ino` | target, applied throttle, relay, dead-time and watchdog clocks | `loop`, `setup` | lines lost or damaged, silence, resets | motor stops on silence; relay and prop obey the dead-time |
| Motor heartbeat and read supervisor, `hardware/serial_devices.py` | port, sequence number, numbers sent lately, age of the last echo | `flush`, `_note_seq`, `_reconnect`, `healthy` | a line broken one way, old echoes, numbers that wrap | a board that hears nothing is found out |
| Steering board, `firmware/steering` | target, stall clock, watchdog | `loop` | pot noise, lost pot, jams that come at any time | the motor does not push a jammed head on and on |
| Device reload, `runtime/devices.py` | the devices in use, those still open | `reload_devices` | every start and stop is an await; reloads overlap or fail half way | the loop's motor is open, and in the end it alone is |

The controller hands the governed command to the driver; the driver writes a
line; the board parses it and ramps.  The chain's state is spread over three
memories of "the last direction", each of which can be lost without the others.

### Navigation

| Component | State | Operations | What is hard | What makes it correct |
|---|---|---|---|---|
| Route control, `controller/controller.py`, `controller/modes.py` | mode, marks, index, loop/patrol flags, arrival action, follower memory, suspended route, MOB flag | `goto`, live edit, `load_route`, replay/backtrack, MOB, pause/resume, STOP; the tick of the two followers | the follower's memory and the shared route change separately; edits shorten the route under the boat | no tick outside the route; arrival happens and acts; STOP is final; resume restores |
| Return to Launch, `runtime/runtime.py` | a thread planning for up to minutes | `return_to_launch` | runs beside the event loop on the same state | STOP holds; a half-written route does no lasting harm |
| Work area, `controller/modes.py` | spot, phase, direction, dwell, pressed button | orders, `next`, pause/resume, the tick | presses and pauses at any moment, lists of one spot | every spot is worked for ever |
| Calibration drive, `controller/calibration.py` | phase, cancel flag, trim taken off | `start`, `cancel`, the coroutine | operator, deadman and a new profile act between its samples | it lets go of the boat and the trim however it ends |
| Other modes (anchor hold, drift, orbit, contour, trolling, heading, APB) | PID memory | `update` | continuous control | not modelled |
| Routing, survey, contour | none | planners | geometry | not modelled |

### Supervision

| Component | State | Operations | What is hard | What makes it correct |
|---|---|---|---|---|
| Safety supervisor, `runtime/safety_runtime.py`, `runtime/nav_glue.py` | client count and clock, failsafe latch, hand-off latch, in-flight flag, APB latch, recommendation | one pass a second of ladder, hand-off, RTL evaluation, link failsafe, auto-APB | the steps of one pass write the same state; a planner spans many passes; clients come and go | a boat nobody holds stops or holds position; it self-drives only when allowed; one planner |
| Helm and observers, `ui/server.py` | helm socket, listed clients, their order, what each was told | connect, greet, take, evict, drop | every send is an await; a stalled socket is dropped but stays open | somebody who is there holds the helm; whoever's role changed is told |
| Remote controls, `connectors/` | deadman latch, silence, expiry | stick or frame, button, link loss, expiry, arming | the app commands the same boat | armed while the remote drives, disarmed once it handed off |
| Fetch relay, `runtime/fetch_relay.py` | breaker, requests in flight | fetch, answer, timeout, clean-up | shared futures, late answers | a resource is asked for once at a time |
| Phone sensors, `hardware/drivers/phone.py` | the slot, the last fix | sample, disconnect, reissue, reload | phones come and go while the sensor is rebuilt | one feeder, and it is connected |
| Anchor alarm, hardware watchdog, event bus, alert log, push | latches and lists | `evaluate`, `pump`, `publish` | little concurrency | not modelled |

### Data and host

| Component | State | Operations | What is hard | What makes it correct |
|---|---|---|---|---|
| Depth map and its file, `nav/depth.py`, `runtime/depth.py` | points of up to three map objects, the file, counts | boot load, sounding, checkpoint, import, restore | the loop and four threads touch one map | a sounding taken at sea is not lost |
| Host supervisor, `vanchor_supervisor/core.py` | entry, images, container, job, its copy on disk | update, rollback, restore, prune, `ensure_running` | docker refuses, the host restarts, a prune runs beside | a finished job reports what runs |
| Self-update, `selfupdate.py`, `guard.py` | versions unpacked, symlink and its temporary, note, installs under way | install, delayed exit, guard, start | installs that overlap; power failures between any two steps and in the middle of a write | a supervisor comes up |

Codecs (NMEA 0183, NMEA 2000, UBX), filters, simulator, analysis, route planning,
browser front end and deployment are listed in `PROJECT.json` with the reason
they are not modelled.

## 2. Plan

Most important behaviour first.

1. `SafetyGovernor`, with the abstract `ReverseInterlock` it implements.
2. `EngineBoard` and `SerialMotor`, each an implementation of the same abstract
   interlock, and `MotorChain` that composes them over a lossy line.
3. `RouteControl`: routes, both followers, pause/resume, MOB, Return to Launch.
4. `SafetyRuntime`: the supervisor's pass against clients and planners.
5. `Sessions`, `FetchRelay`, `PhoneSensors`: what serves the clients.
6. `RemoteControl`, `DeviceReload`, `SteeringBoard`, `MotorHeartbeat`: the rest of the chain.
7. `DepthStore`, `HostUpdate`, `SelfUpdate`: what must survive restarts.
8. `WorkArea`, `CalibrationDrive`.

All eight are modelled and checked, and every safety and action property of a
passing run is proved in section 5.  What remains of the proofs: `StopHolds`,
`ArrivalRuns` and `NoRouteFault` with plans that land, as far as they then hold, and the
refinement of a guided layer below them.  Liveness stays with TLC.

## 3. Modules

| Module | Models | Uses |
|---|---|---|
| `ThrustMath` | `clamped` and the signed arithmetic shared by the layers | |
| `ReverseInterlock` | abstract: what every layer promises of a reversal | `ThrustMath` |
| `SafetyGovernor` | governor and the tick around it | `ReverseInterlock` as `RI` |
| `EngineBoard` | `engine.ino` | `ReverseInterlock` as `BI` |
| `SerialMotor` | `SerialMotorController` | `ReverseInterlock` as `DI` |
| `MotorChain` | driver, line and board | `EngineBoard`, `SerialMotor` |
| `RouteControl` | routes, followers, Return to Launch | |
| `SafetyRuntime` | supervisor pass, clients, planner | |
| `Sessions` | web-socket handlers, helm and roles | |
| `FetchRelay` | fetches through a client | |
| `PhoneSensors` | a phone as GPS | |
| `HostUpdate` | the host's jobs on the container | |
| `SelfUpdate` | the host supervisor replacing itself | |
| `RemoteControl` | RF handset and NMEA 2000 head | |
| `DepthStore` | soundings and their file | |
| `DeviceReload` | `reload_devices` | |
| `SteeringBoard` | `steering.ino` | |
| `WorkArea` | the Work Area mode | |
| `CalibrationDrive` | the calibration coroutine | |
| `MotorHeartbeat` | health of the motor line | |
| `MC...` | model values and small sets for TLC | |
| `..._proofs` | theorems and proofs | TLAPS |
| `LeastNumber` | lemmas: a set of naturals has a least member, which is its `Min`, and a bounded one a greatest | TLAPS |

**`SafetyGovernor`.** Integers stand for thrust and time: `Full` is 1.0.  `gov`
holds the governor's own memory, `config` the limits an operator can retune,
`fixLost` the one flag of the tick's report that a property reads
(the other flags are a report only).  `Tick` is one governed tick with the
whole of `govern`: derate, stale heading, shallow, shoreline, lost fix,
interlock, slew, in the order of the code.  `FaultBefore` and `FaultAfter` are
ticks that raise before or after `govern`; the driver's own failure to take the
zero is the `zeroed` choice.  `SetMode` includes the reset of the governor.  The
shoreline's geometry is a nondeterministic reading.  The geofence and drag
reports do not touch the thrust and are left out.

**`EngineBoard`.** `Loop(line, dt)` is one run of `loop()`: read a line if one
is there, pick the target, neutral hold and flip, watchdog, ramp.  `Boot` is
`setup()`.  A line with a bad CRC is no line; steering lines leave no trace on
this board.  Timers saturate where no guard tells values apart (`AgeCap`).

**`SerialMotor`.** `Apply` and `Flush`.  `Gated` is `_gate_thrust`.  A write to a link
that is down is dropped by the code without an error, and so it is here.

**`MotorChain`.** `Emit(arrives)` flushes and the line arrives or is lost;
`Run(dt)` lets the board run; `Reload` replaces the driver, `BoardReset` reboots the board.

**`RouteControl`.** A position is a member of `Places`; two positions within an
arrival radius of each other are the same place.  `nav` holds the route fields
of `NavigationState`, `leg` and `path` the followers' private memory, which the
commands do not touch but activation resets.  `TickLeg` is `WaypointMode.update`
followed by the arrival action; an index outside the list makes the tick
raise, and what had been assigned before stays assigned.  `TickPath` is `PathTrackMode.update`
with the arc length counted in whole legs; along marks that are all the same there is nothing to follow (`OnePlace`).  Each command is one action, with its
device gate.  The thread of `return_to_launch` is five steps with the loop free
to run between: plan, assign the marks, reset the flags, engage, set the
arrival action.  `stopped`, `task` and `left` are history.

**`SafetyRuntime`.** Time is counted in supervisor passes.  `Supervise` is a
whole pass in the order of `_supervise_once`; its parts (`Trips`, `HandoffFlies`,
`Recommends`, `ApbEngages`...) are operators over the state at the time the
code reads it, so the order in which they see each other's writes is kept.
`ControlTick` abstracts mode and governor to "making way or not".  The landing
of a planner and the loop's continuation after it are separate, as in
`run_in_executor`.  `declined` and `gauged` are history.

**`Sessions`.** A handler is one of `Phases`; `toTell` is the rest of the list a
handler goes over in `_broadcast_roles`, so that every send is a step of its own at
which the other handlers run.  A send either tells the role of that moment or
drops the client (`Dropped`), which the code does after 2 s.  `Disconnect` is
the `finally` block up to its first send.

**`FetchRelay`.** One resource; each caller is a coroutine, `future` is that of its own
request, `sharing` whose future it awaits through a shield.  `Complete` wakes
those who share, `PrimaryEnds` is the owner's `finally`, later.

**`PhoneSensors`.** `Sample` is `ingest`: it claims the slot with a bad sample
too.  `Second` is the clock of the reissue loop, `Reissues` its condition.

**`HostUpdate`.** `step` is what the worker thread does next, one docker call or
file write to a step.  A bad version never passes a health gate; a good one may be late for it.  `job` is what the API shows and `saved` what
`last.json` holds.  Docker refuses what it refuses (`Runs`) and may fail besides.
`Restart` is `ensure_running` after the job was cut short anywhere.

**`SelfUpdate`.** `installs` holds what each request to update does next, for each runs on
a thread of its own and none excludes another: `Clear`, `MakeDir`, `Unpacked`, `Note`, `Link` and
`Flip` are `install` and `_atomic_symlink`, any of which may end the request (`Raises`).  `Exit` comes up to
a second after a flip, on a thread of its own, and takes every other request with it.
`GuardPasses` to `GuardForgets` are `guard.py` between two changes of the disk, `Start` is
`__main__.py` up to the clearing of the note.  `Outage` may fall between any two of these, and, like an
exit or an error, into a write of `pending.json` (`MayTear`), which then nobody can read.
A directory that two requests write at once may end whole or not (`spoilt`); the import check of
`install` passes on either.
`mishap` is history: one of the cases occurred in which the code does not keep its promise
(section 7 lists them); `StaysSavable` and `SupervisorReturns` speak of the behaviours up to there.

**`RemoteControl`.** Handset and head differ in what they receive and share the
deadman.  `boat` and `by` are what the controller was last told and by whom.
`refused` is history: the last button was refused, or the connector stopped.  The head's expiry is
clamped, the handset's is what its settings say, above zero.

**`DepthStore`.** A sounding is its number, so that "newer" is `>`.  The three map
objects are the boot map, the loaded and the restored one; `depthMap` is the one the
runtime names.  The checkpoint and the import are threads with their steps; the import
makes its map longer, copies the newest points of a map grown too long, and puts the copy in place, with the loop
free to record in between.
`live` is history: a sounding that falls between the copy and its use leaves it (section 7).

**`DeviceReload`.** A reload is named for the set of devices it builds.  Each await of
`reload_devices` is a step, `retires` what the reload read before the await.

**`SteeringBoard`.** `BoardLoop` is one `loop()`: the head turns as the last loop left the
bridge, then `updateControl` runs on what the pot reads.  Unless braked, the motor goes either way or gets no drive:
the output of the PID need not have the sign of the error.  `pushed` is history: the loops since the board last
braked, or the head was last free or near its goal.

**`WorkArea`.** `HoldTick` and `Arrive` are the tick in either phase; the boat
is at one of the spots or between them.  `paused` is the suspended list, its course and the spot it was bound for,
which a resume brings back whatever was ordered since; an order for another mode may forget it.

**`CalibrationDrive`.** `PhaseEnds` is what the coroutine does between two stretches of
sampling, without an await.  `orderedBy` is history.

**`MotorHeartbeat`.** `BeatFlush` chooses whether the line lands and is heard; a
report is read at once or never.  `unheard` and `flushed` are history.

## 4. Runs

Passing runs (each from a few seconds to three minutes):

| Run | Question |
|---|---|
| `governor` | Does the governor implement the reversal interlock, stop in bounded time, keep derates and, between clean ticks, the slew limits, with flips, zero crossings, every kind of stop, mode changes and faulted ticks? |
| `layers` | Do driver and board each implement the interlock, the driver called at any pace, the line losing what it likes, and the watchdog stepping in? |
| `route_leg` | Leg-by-leg routes, loops, patrols with stacked marks, live edits, replays, MOB, pauses: is every index in range, is STOP final, does a resumed route make for the mark it was making for? |
| `route_path` | Both followers, with a GPS that drops: is no arrival action left pending? |
| `route_live` | Do routes and MOB returns arrive, and do patrols sweep both ways for ever? |
| `route_rtl` | Is a tick that faults on a half-written return followed by a clean one? |
| `sup_link` | Two clients that come and go, a failing battery, no automation: is a hand-driven boat alone stopped, and does it stay so; does a leg-by-leg route with nobody connected end in a hold; does the boat never set off uninvited? |
| `sup_auto` | With all automation on and plans that fail: is there at most one automatic plan, does none block the next, and does the derate follow the charge on a ladder out of order? |
| `clients` | Is the helm always held by somebody who is there, and does everybody learn of it; is a resource asked for once at a time; is the phone slot one connected phone's; does a finished host job report what runs; does a host supervisor that goes down come back? |
| `aboard` | The whole thrust chain with a driver reload or a board reset at any moment: is the motor at neutral within watchdog and ramp of a silence, and does a command that stands, on a link that works again and again, become what the prop does?  And: does the remote's deadman follow who drives; is no sounding lost; is one motor open after any reloads; is a jammed head pushed for a bounded time; is every spot of a work area worked for ever; does a calibration drive let go; is a deaf board found out? |

`clients` and `aboard` check several parts that share no variable and no event.
Their module has a variable `part`, fixed in the initial state: a behaviour is
of one part, and the others keep their first values.  The state space is the
sum of the parts', and each property is checked on all behaviours of
its part and trivially on the rest.  `aboard` extends `MotorChain`, which is composed.

Runs that exhibit a disagreement between the code and what the repository says
of it (findings of `PROJECT.json`, with the sentence quoted; others in section 7):

| Run | What it shows |
|---|---|
| `route_stop` | A Return-to-Launch plan that lands after a STOP sets the boat off. |
| `calibrate_stop` | A calibration drive goes on to its next phase after a STOP. |

### Bounds and why they are enough

* `governor`: three levels of thrust each way, the lowest inside the deadband
  (`Eps = 1`).  A tick of 2 units slews by 2 levels, so that a reversal passes
  through the deadband and a last step is clamped.  The reverse delay is two ticks, so a rest can be complete, half
  complete or absent.  Each kind of stop has a reading of its own (a stale
  heading, a shallow, land astern in manual), besides the lost fix.
* `layers` and the chain of `aboard`: `layers` has thrust levels as above and one command past
  full, `aboard` full ahead, full astern and none.  Steps of 1 and 2 meet a delay exactly, overshoot it and cut it short; the driver's delay is
  shorter than the board's, so the board has to hold a flip by itself.  `aboard` allows one
  upset: a reload or a reset, in any state of the other layers.
* Routes have up to four marks over two or three places, among them two marks
  on one place (`Twice`), or with no other (`Same`), a patrol long enough for a half-written return to leave
  its index out of reach of a bounce (`Long`, `route_rtl`), a return to the first (`Back`), a single mark, a loop
  and a patrol for each follower.  That is enough for an index to be before, on
  and past the end after an edit, and for a bounce at either end.
* One Return-to-Launch thread at a time.
* Clients: two in `sup_link`, so that one leaves while another stays.  The timeout
  is two passes, so a reconnection can fall before and after the first silent one.
* Charges: no gauge, the last stage, two rungs, above all rungs.
* `Sessions`: three sockets, of which two may be in the middle of something at
  once, so that one promotes, one takes and one is promoted.
* `FetchRelay`: two callers, the least that share a request or replace one.  Two phones likewise;
  `ReissueMax` is 3, one second over the quiet that starts a reissue.
* `HostUpdate`: three versions, one that never gets healthy, two restarts, so that a
  restart falls into the job that follows a restart.
* `SelfUpdate`: a version in the image and two that are uploaded, one of which does not start; two requests at a
  time; two outages, so that the second falls into what the first left.  The part ends at a mishap (`MCClients`), after which
  nothing is promised.  What is written is on the disk once the call returns.  A sound version starts whenever it is
  started, and systemd goes on starting the service: the three starts that lead to a
  revert are within its limit of five in ten seconds.
* `RemoteControl`: an expiry below, at and above the clamps of the head.  `DeviceReload`: three reloads.
* `DepthStore`: a map of two points, so that a third pushes one out; two
  soundings beyond those of the file, from the sea or imported, so that one may fall
  into the capping of an import; two boots.
* `SteeringBoard`: a range of 8 steps with a target past it, noise of one step, a
  far error of more than 4: a creep, a jam and a second creep fit in.
* `WorkArea`: lists of one, two and three spots, dwell of one tick.  Two calibration
  drives, so that the second starts from what the first left.
* `MotorHeartbeat`: numbers modulo 5 and two of them remembered, so that they wrap with the
  last number heard both inside and outside the memory.

`CHECK_DEADLOCK FALSE` is set in the route and supervisor runs, where an idle
boat that nobody commands may have no step left to take, and in `clients`,
`aboard` and `calibrate_stop`, where the reloads and outages of a session are
bounded and a part comes to its end.  None is an error.

### Fairness

* `LiveChain`: weak fairness of the board's `loop()`, which nothing can block,
  and strong fairness of a flush whose line arrives: the driver is flushed on
  every tick and the line works now and then.
* `LiveRoute`: weak fairness of the tick (a supervised loop that outlives its
  faults), of a fix arriving, of a boat under way reaching the mark it steers for, and of
  the planner thread; strong fairness of a tick while the boat is on its
  mark, since the loop runs five times a second and a boat does not cross an arrival
  radius between two ticks.  Nothing is assumed of the operators; the liveness
  properties are conditional on their leaving the boat alone.
* `LiveWork`: the same for the work area: weak fairness of the tick that holds and of a boat
  that travels getting to its spot, strong fairness of the tick that sees it there.
* `SessionsFairness`: weak fairness of a handler that is telling roles, for every send ends
  within its 2 s, and of a greeting reaching its client or the
  broadcaster evicting that client.  Nothing is assumed of the clients.
* `LiveSelf`: weak fairness of a boot, guard and start: systemd has `Restart=always`.  Neither a request, nor the
  exit after it, nor the power is assumed to do anything.
* `LiveSupervisor`: weak fairness of the supervisor's pass (its loop catches
  every step's exception) and of a motor told to rest coming to rest, which
  is what `StopsInTime` shows of the governor.

## 5. Proofs

All theorems hold for every value of the constants under the named assumptions
of the modules (levels and times are naturals, epsilon below full scale).

* **Governor** (`SafetyGovernor_proofs`).  `TypeCorrect`.
  `GovernorImplementsInterlock` is a refinement proof; the step needs
  `InterlockInv`: the motor carries what the governor remembers or zero (a
  faulted tick), the direction remembered is the one last driven, and the rest timer
  never runs ahead of the real rest.  The types alone do not give it: the
  timer could then claim a rest that never was.  `StopsInTimeAlways` bounds the
  *remembered* thrust by the ramp (`StopInv`) and uses `InterlockInv` to carry
  it to the motor.  `SlewBoundedHolds` needs `AnchorInv`: outside a fault the motor carries
  exactly what the governor slews from.  `DeratedNeverRisesHolds` says that a limiter going
  from the old thrust towards a derated one stays between the two (`AppliedFalls`).
* **Board, driver and chain** (`MotorChain_proofs`).  `BoardTypeCorrect`,
  `DriverTypeCorrect`, `ChainTypeCorrect`.  `SilenceAlwaysStops` is inductive over the age of the
  last command with the ramp arithmetic in one lemma (`RampArithmetic`); it
  holds through resets.  `BoardRefinesInterlock` uses `BoardInv` (the
  neutral clock never exceeds the quiet the propeller has had; a relay that differs from
  the driven direction has been quiet for the dead-time) and is about a board that is not
  reset: a reset forgets both.  `DriverRefinesInterlock` uses `DriverInv`.  The composition
  rests on `ChainInv`, that what is on the wire is a line the board parses: with it every behaviour
  of the chain is one of the board (`ChainIsBoard`, hence `ChainSilenceStops`) and, with neither reload nor
  reset, one of the driver too (`LayersImplementInterlock`).  `ChainAssumption`
  says what makes the layers fit: the same full scale, every PWM value a line may carry
  among those the board may be sent, and the board's loop times among the waits of the driver.
* **Routes** (`RouteControl_proofs`).  `StopAlwaysHolds` and `ArrivalAlwaysRuns`
  assume `Plans = {}`, that is, no Return-to-Launch plan that lands:
  `route_stop` shows the first false otherwise.  `Idle` carries the
  assumption through the thread's states.  `StopInv` adds that nothing is
  suspended after a STOP; `ArrivalInv` adds that a suspended
  route has the shape of a route, as resume installs it.  `RouteTypeCorrect`
  holds for every set of routes and plans; the types of the suspended route, a whole
  `Suspension`, make it inductive.  `NoRouteFaultHolds`: `PlaceInv` says that an index
  off an end of the list is only ever left by a route that ends there (`Stands`), of the route and of
  the suspended one; `AheadOut` and `AheadBack` say where the search for the next
  distinct mark ends, `LegStays` that a tick keeps it.  It assumes no plan that lands and, where route files are
  loaded, that the devices stay connected: both write the marks and then leave or refuse,
  without the index that goes with them (`route_rtl` checks that such a fault passes).
  `ResumeRestoresHolds` has neither assumption: `PausedInv` ties what was left to what is suspended.
* **Supervisor** (`SafetyRuntime_proofs`).  `OnePlannerAlways` without
  assumptions.  `DeadmanAlwaysHolds` assumes no REST commands, no auto-APB and no
  auto-RTL (section 7 says why).  `DeadmanInv` adds that a latched failsafe means no client.
  `SupervisorTypeCorrect` in three parts, each inductive by itself (`Counted`, `FlagsOK`, `Named`).
  `CapRisesWithChargeHolds`: `DerateInv` says that the cap in force is no lower than the
  rung of the charge last gauged, and `LadderMonotone` that a lower charge never has a higher rung,
  whatever the order of the ladder.  `SelfDrivesOnlyOptedInHolds`: `NoPlanInv`.

* **Clients and host** (`Sessions_proofs`, `Clients_proofs`).  `RolesSettleHolds` needs no more than
  types beside the property (`SessionsInv`): whoever changes a role starts a
  broadcast over all of the listed clients in the same step (`BroadcastSettles`).
  `HelmHeldAlways`: `HelmInv` adds that who is listed, or whose handler is still serving it, has an open socket
  in the order of arrival; removing a socket keeps every other one (`RemoveFirstKeeps`), and the
  promotion finds an heir whenever somebody is listed (`PromotedHeir`).
  `OneRequestHolds`:
  `RelayInv` adds that an open request is the one `_inflight` names, which a
  clean-up keeps because it takes away its own entry only.  `OneFeederHolds`:
  `PhoneInv` adds only types.  `JobTellsTruthHolds`:
  `HostInv` says for each step of the worker what it has done already, above all
  that a gate looks at the version the entry names and that
  no end of a job is on disk before it is true.  It holds for any number of restarts and
  any set of bad versions.  `ClientsTypeCorrect`: the types need `RelayTypes` (an open request has a caller
  that asks) and `SelfInv`, which also gives `StaysSavableHolds`: `Savable` alone is not inductive, for a flip
  makes `current` what `current.tmp` names.  `SelfInv` adds that a
  request under way installs a version, that a guard about to flip has one to flip to, and `Links`: no mishap
  recorded, it flips to the previous version of the note, which is kept until the flip is done.
* **Aboard** (`Aboard_proofs`).  `LatchFollowsDriverHolds`: `RemoteInv` adds that a
  connector that does not run was stopped since its last order.  `DriveLetsGoHolds`: `DriveInv` adds that
  a boat left to tune is at rest and that the trim kept is never "off".  `OneMotorHolds`: `ReloadInv` says
  which motors and simulators are open: the loop's, those started and not yet swapped in, and those a reload has
  yet to stop, no two the same one.  It holds for any number of reloads at once.
  `PushBoundedHolds`: `SteerInv` bounds `pushed` by the stall clock and by how far the
  reference angle may be from the jammed head (`JamHolds`, `LoopKeeps`): once
  the clock runs on a jammed head no reading restarts it twice, for `2 * Noise <= StallMove`.
  `LiveSurvivesHolds`: `DepthInv` adds that the map being loaded is neither the one in use nor an import's, and that what an
  import copied keeps every sounding taken before the copy (`CopyHolds`).  The
  work is in the newest `MaxPoints` of a set: they are at most so many (`NewestBounded`, by the least of them), and
  a sounding kept by a set is kept, or pushed out by as many newer ones, in whatever is added to it
  (`PushedOut`, `NewestKeeps`, `KeptGrows`).  `DeafBoardNoticedHolds`: `BeatInv` says that until the numbers come
  round the number the board echoes is as many behind as lines were flushed, that
  none of the lines it did not hear is remembered under it, and that the clock has run since they are the only ones remembered.
  It needs a memory shorter than the modulus (64 of 10000 numbers in the code).
* **Compositions.**  `clients` and `aboard` run several parts beside each other.  `ClientsParts`
  and `AboardParts` show that each behaviour of the composition is one of every part, so that the parts'
  theorems give `ClientsKeepPromises`, `ClientsTypeCorrect`, `AboardKeepsPromises` and `AboardTypeCorrect`
  about the specifications the runs check.

Only model-checked: liveness (`CommandPrevails`, `RouteArrives`, `PatrolSweeps`,
`FaultPasses`, `DeadmanStops`, `HoldsPosition`, `RoleReaches`, `SupervisorReturns`,
`EverySpotWorked`), which needs fairness and ENABLED and is out of the
prover's reach.  `StopHolds`, `ArrivalRuns`, `NoRouteFault` and `DeadmanHolds` are proved under
the hypotheses named above and no others; that those are needed is what
`route_stop` and section 7 show.  No definition of the modules is recursive: what the code
searches for is the least or the greatest member of a set, which `LeastNumber` makes available to the provers.

## 6. What is left out

* Continuous control: heading and speed loops, anchor controllers, filters.  A
  boat steered for a mark reaches it, or does not.
* The supervisor's alert, anchor-alarm and land-guard steps; the keep-alive that
  decides when a half-open web socket counts as gone.
* A refused load of a route while patrolling (`LoadRoute` models it): the tick
  may then fault until the next order; `NoRouteFault` is checked with all
  devices connected.  The same refusal in a patrolling work area is left out.
* The data race of two Return-to-Launch threads.
* The thinning of soundings by distance, the static chart, the shared temporary
  file of two saves at once, and the cap of the real map, past which no checkpoint is due.
* Steering: the pot is good when the board starts, and a misread beyond
  `Noise` once filtered does not happen.
* Calibration: two starts before the first task has run, and an exception in the drive that is not an abort.
* Self-update: the upload, the check of the payload's hash, and the job record.
* Remote control: a handset's expiry of zero, with which the deadman expires at once.
* Fetch relay: more than one resource, and the bridge for other threads.
* Everything marked `not_modelled` in `PROJECT.json`, for the reason given there.

## 7. Promises the code does not keep

Besides the two findings, modelling met these disagreements between the
code and what the repository says.  Each can be seen by checking the property named, under the settings
named, in place of a run's own.  `FailLate` and `FailEarly` are empty, and `Bundles` holds every version but the first,
where nothing else is said; the cases of `SelfUpdate` are those it records as a `mishap`.

| Property | Settings | What the code does | What is said |
|---|---|---|---|
| `NoSurge` | `governor` as it is | a faulted tick zeroes the motor behind the governor, whose slew memory keeps the old thrust; the next tick jumps back | `safety.py:16` "the magnitude of thrust change per tick is capped" |
| `FixLossLatches` | `governor`, `Faults = {}` | a mode change restarts the loss-of-fix clock, and the boat drives again without a fix | `safety.py:22` "once the time since the last fresh fix exceeds" |
| `RelayUnpowered` | `aboard`, `MaxUpsets = 0`, `Thrusts` the set of `-Eps` and 0 | a throttle inside the deadband stays on while the relay switches | `engine.ino:186` "Relay must only switch at zero throttle" |
| `RouteArrives` | `route_live`, `Orders` `LoopOrder`, `Commands` `MobOnly` | a MOB return begun on a looped route keeps the loop flag, wraps at its one mark and never stops | `controller.py:1113` "stopping on arrival so the boat holds near the casualty" |
| `MobClearCancels` | the same, `Spec` | clearing the man-overboard leaves the boat returning | `controller.py:1122` "Cancel a man-overboard return." |
| `HoldsPosition` | `sup_link`, one client, no battery, `PathOrders` | pure pursuit is missing from the underway modes, and its lost link is ignored | `constants.py:11` "every guided behaviour except idle manual and station-keeping anchor" |
| `DeadmanStops` | the same, `ContinueMission` and `Remote` true, `LegOrders` | a latch of "continue" survives into a manual drive ordered over REST | `safety_runtime.py:144` "This deadman is part of the safety floor" |
| `DeadmanHolds` | `sup_link`, `AutoApb` true | auto-APB takes over the boat the deadman stopped | `config.py:360` "MANUAL driving always STOPS on link loss" |
| `ApbStaysLeft` | `AutoApb` true, `Orders = {"follow_apb"}` | leaving Follow-APB between two passes is undone by the next | `nav_glue.py:134` "leaving the mode by hand isn't overridden" |
| `LowBatteryRecommends` | `sup_link` | the range evaluation of the same pass erases the recommendation of the ladder | `safety_runtime.py:396` "only raise the low-battery RTL recommendation" |
| `HandoffFires` | `sup_link`, `AutoRtl` true | a hand-off with no launch point yet is spent | `safety_runtime.py:387` "guarded so it only fires when a launch point exists" |
| `FetchSpeaks` | `clients` | a caller that shares a request leaves with a bare `TimeoutError`, or is cancelled when the owner's request times out | `fetch_relay.py:39` "these failures must never be silent" |
| `ReissuesTheFeeders` | `clients` | the fix of a phone that left is published again once another phone claims the slot with a bad sample | `phone.py:185` "feeder gone -> stay silent" |
| `FailedUpdateRuns` | `clients` | an update whose `docker run` fails ends without a container | `supervisor/README.md:31` "auto-rollback on failure" |
| `LateFailureReverts` | `SelfUpdate` under `LiveSelf`: two versions, the second uploaded and in `FailLate`, one request, no outage | the note is cleared before the start is complete, so a version that ends after that is never reverted | `supervisor/README.md:174` "3 failed starts → guard reverts to previous version automatically." |
| `TornNoteReturns` | the same, the second in `FailEarly`, one outage | a note torn as it was written (`selfupdate.py:91`, `guard.py:42`) is neither counted nor reverted by (`guard.py:20-24`), so a version that does not start is started for ever | the same |
| `AlwaysReturns` | the same, no bad version, one outage | a reinstall of the version in use, cut short after its directory was removed, leaves nothing that starts, and no note | the same |
| `AlwaysReturns` | three versions, two uploaded, the second in `FailEarly`, one request, no outage | an update in the second between a flip and the exit notes the unproven version as previous, and two that write the note at once may leave a mixture of both | `core.py:354` "before systemd ``Restart=always`` brings up the new code" |
| `GuardEnds` | two versions, the second uploaded and in `FailEarly`, one request, three outages | `current.tmp` left behind by a cut install, its target removed by the next, does not "exist" (`guard.py:35`) and makes the third boot's `os.symlink` raise, at every start | `guard.py:6` "Always exits 0 (must never block a start)" |
| `RemoteSilenceStops` | `aboard` | a connector whose grant is revoked is stopped with its deadman, and the boat drives on | `docs/connectors.md:67` "guaranteed path, survives grant revocation" |
| `NoneLost` | `aboard` | a sounding recorded between an import's copy of the newest points and its assignment is lost | `docs/api/app.md:509` "otherwise the soundings are merged in." |
| `ReplacedMapKept` | `aboard` | the map to compare with is read after the load, so a restored map is replaced by the loaded one | `runtime.py` "If someone REPLACED the map object meanwhile" |
| `OneSensorSet` | `aboard` | two reloads that overlap retire the same sensors, and those of the earlier swap publish on | `devices.py:468` "only stops the old + swaps in if that succeeds" |
| `DeafBoardNoticedInTime` | `aboard` | the last number the board heard acknowledges for as long as it is among those sent lately | `serial_devices.py:546` "If our recent commands stop being acknowledged within" |

`ResumeRestores` speaks of the mark a leg-by-leg route makes for.  Re-activation
on resume also resets what it does not speak of: the direction of a patrol, and the
cursor of the pure-pursuit follower, which starts again at its first
mark (`modes.py:843`), although `docs/modes/route.md:68` has a route pick up "exactly where it left off".

Met on the way, not stated as properties:

* `anchor_alarm_recover` disarms the passive alarm when the mode is an anchor mode, also if that hold
  is an older one elsewhere and the new order was refused (`nav_glue.py:104` "only if the hold actually engaged").
* A restore of a backup recreates the container with an empty image, which docker refuses;
  `ensure_running` on a container that exited meets its own name.
* A version that starts under a note that names another, as after an install cut short before its flip, leaves the note, and the third
  such start reverts a version that works (`__main__.py:63`).
* A failed checkpoint counts as saved, and one in flight may overwrite a restored file.
* A steering head that stalled far from its goal is not tried again, commanded the other way either,
  until the host falls silent or the head is moved.
* The app's hold while the stick is still latched is ended by the expiry (`docs/connectors.md:147` says so).
* A press of "next spot" while travelling is kept, and leaves the next spot after a tick.
* A cancel during the tuning of a calibration still applies the result; a profile set
  while the trim is measured loses its trim to the old one.
* A pure-pursuit route whose marks are all on one place steers nowhere and never completes (`modes.py:904`).
* A failed write marks the motor line unhealthy, and only a reconnection makes it healthy again.
