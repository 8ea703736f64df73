# Verification of the RoboMaster C-board controller

TLA+ models of the control firmware in this repository, the TLC runs that
check them on small instances, and theorems about them checked by TLAPS.

## 1. The system

One FreeRTOS task (`runtime/rtos/robot_rtos.c`) runs a cycle every 2–3 ms; the
interrupt handlers (CAN reception, the receiver's UART, the UART of the chassis
unit, USB) only publish messages or fill a buffer.  A cycle is

    gyro_data_update  ->  AppRuntime_Step  ->  CmdController_Task
        -> MsgCenter_Dispatch (states, events, commands, then the hooks that
           flush motor frames)  ->  MotorOfflineAlarm_Task  ->  telemetry  -> sleep

Before the task starts, `main.c` calibrates the gimbal's inertial unit, waits for
the gimbal to align and, on the sentry, for its steered modules.

| part | state | operations | what makes it hard |
|---|---|---|---|
| message center | ring, 32 latest-value slots, counters | Publish, PublishLatest, UseLatest, Dispatch | interrupts between any two critical sections, overflow, topics that change their store |
| CAN driver | recovery phase per bus, arming, table of 3 mailboxes per bus | Service, TryArm, TryWriteDeadline | two buses that fail on their own, aborts that race with transmission, time-outs and retries |
| CAN manager | five frames of four slots per bus | SendMotorCurrent, FlushTx | lifetimes of single slots inside a shared frame, a bus that fails in the middle of a flush |
| command controller | newest inputs, arming interlock | Task, subscriber callbacks | two clocks in one cycle, old inputs, the order of disarming and routing |
| command router | modes, shooter permission, yaw hold, dial, vision memory | Route | modes that outlive the link loss, signed time arithmetic |
| shooter | ramps, feedback age, feed recovery | callbacks for command and feedback | stall detection over irregular calls, one reversal per request |
| gimbal | start position, stability window, references, targets | callback for the command, alignment at start-up | gaps in feedback, targets that outlive a stop |
| gimbal monitor | snapshot with a sequence number | publish; read by a debug probe | torn reads |
| motor service, adapters | cached commands of the DM, LK and BenMo motors | command, stop, mode, flush | refused frames, start-up sequences, shared frames |
| motor offline alarm | group, separator, round robin | Task | stalls of the loop, motors that come back |
| chassis, sentry | wheel layout, ages of reports, loop memory, steered angles | start-up, command and report callbacks | stale feedback, wrong layouts, reversal against turning |
| omni kinematics | none | compute | rank of the layout, limits that must not change the direction |
| inertial units | calibration, serial parser, published copy | calibrate, interrupt, update | movement during calibration, lost bytes, copies during interrupts |

How they interact: everything between interrupt and task, and between the
controllers, is a message; the CAN manager and the CAN driver are called by the
transmission hooks; the arming flag of the CAN driver is read by the command
controller, the shooter and the CAN manager.

What makes each part correct:

- message center: newest values are never lost, nothing is delivered out of
  order, nothing disappears without being counted, a dispatch ends whatever is
  published;
- CAN driver: outputs are armed only with both buses healthy, a stop reaches
  both buses, no command of before a stop and none past its deadline is sent,
  every recovery ends;
- CAN manager: no slot is sent past its lifetime, nothing of before a fault is
  kept, a motor that is no longer commanded is sent a zero;
- command controller and router: arming takes a stable bus and a neutral
  operator for their full time, motion needs a live receiver, nothing the
  operator did before a loss of the link works on after it;
- shooter, gimbal, chassis: no output without fresh feedback, one reversal per
  request, no target of before a stop;
- adapters: no command and no stop is lost to a refused frame, no motor is
  driven before its start-up is complete;
- alarm: every offline motor is named, rightly and in turn;
- inertial units: what is used was measured at rest, the parser finds the
  frames again, a published copy is of its pass.

## 2. The modules

| module | code | built on | question |
|---|---|---|---|
| `MessageCenter`, abstract `MessageBus` | `modules/message_center/` | – | is anything lost, late or out of order between interrupts and controllers? |
| `BspCan`, abstract `CanPort` | `bsp/can/bsp_can.c` | – | who may send, and how do both buses stop and come back? |
| `CmdController` | `application/cmd/cmd_controller.c` | `BspCan` | when is the robot armed, when does it stop, in a cycle that takes time? |
| `CanManager` | `modules/can_comm/can_manager.c` | `CanPort` | lifetimes of the slots of a frame, flush and purge across a fault |
| `CommandRouter` | `application/cmd/command_router.c` | – | modes, spin brake, dial, vision over irregular cycles and a clock that wraps |
| `ShooterFeed` | `application/shoot/shooter_controller.c` | – | stall, reversal, block, lost feedback |
| `GimbalHold` | `application/gimbal/gimbal_controller.c`, `yaw_reference.c` | – | when the axes may be driven, where to, what a stop forgets |
| `GimbalMonitor`, abstract `SnapshotRegister` | `gimbal_controller.c`, `gimbal_monitor.h`, `tools/gimbal_monitor.py` | – | does a probe that reads while the gimbal publishes see one publication? |
| `VendorMotors` | `services/motor/`, `adapters/motor/` | – | commands, stops and start-up against refused frames |
| `MotorAlarm` | `application/diagnostics/motor_offline_alarm.c` | – | are motors named rightly, and each of them? |
| `ChassisControl` | `application/chassis/chassis_controller.c` | – | which motors are driven, and when do they stop? |
| `SentryChassis` | `application/chassis/sentry_controller.c` | – | steered modules, reversed driving, the wait at start-up |
| `OmniKinematics` | `adapters/chassis/omni_chassis_strategy.c` | – | rank and limits against their definitions |
| `ImuCalibration` | `gyro_calibrate` of `modules/imu/gyro_data.c` | – | what may be used after which attempts? |
| `WitLink`, `ImuLink` | `modules/imu/wt61c.c`, `Src/main.c`, `gyro_data_update` | `ImuLink` extends `WitLink` | lost bytes, and copies while the interrupt parses |

`MC*` modules instantiate them for TLC (section 4), `*Proofs` modules hold the
theorems (section 6).  `BspCan` is shown to implement `CanPort` (`PortSpec` of
`can_frames`), and `CanManager` to use it as `CanPort` allows
(`ManagerUsesPort`): together they say that the manager may be read over the
driver without checking the product of the two.  Both are proved for all sizes.

Conventions.  Variables and operators keep the names of the source where TLA+
allows it.  One action is what the code does without an interruption: a critical
section of the message center, a callback of the control task, one hardware
access.  A timestamp is an age, saturated at the longest time a comparison tells
apart, except where the clock's wrap is the question (`CommandRouter`, whose
clock runs modulo `W`).  Variables named `past`, `gap`, `pressing`, `heard`,
`named`, ... are histories that only properties read.

## 3. The modules and the code

### MessageCenter

`dispatcher` and `hand` are the program counter and the local event of
`MsgCenter_Dispatch`; `received` is what the subscribers of a channel (a topic
and a key) saw last, `atStart` is a history of what waited when a dispatch began.

| action | code |
|---|---|
| `Publish` = `PublishToSlot` or `PublishToQueue` | `MsgCenter_Publish` |
| `PublishLatest`, `UseLatest` | `MsgCenter_PublishLatest`, `MsgCenter_UseLatest` |
| `TakeLatest`/`EndLatest` by phase | `dispatch_latest`, one critical section each |
| `TakeQueued`, `EndQueue` | the ring loop with its budget |
| `Deliver` | `deliver`, all subscribers of one event |
| `RunHooks` | the after-dispatch hooks |

Publications are enabled between any two actions, which stands for interrupt
handlers and for subscribers that publish.  A payload is the number of its
publication.  `MessageBus` is the abstract service: per channel a set of
undelivered events that are delivered in order, and may only be given up oldest
first (events) or all but the newest (latest values).

### BspCan and CanPort

`bus` holds started flag, recovery phase and pending-abort flag of each bus,
`s_tx` the table of its mailboxes; `box` and `controller` are the hardware.
`BspCan_Service` is `BeginService`, then `CheckBus` (deadlines, bus-off) and
`AdvanceBus` (recovery, health) for each bus, so the hardware can act in between;
`Write` is `write_frame` in one action with every path that latches a fault.  The
controllers release mailboxes, change their error state and answer the
initialisation request on their own; abort requests may be refused
(`AbortMayFail`).  The bxCAN mailboxes, error states and initialisation handshake
are external: modelled from what the driver asks of them.  `CanPort` says what
remains for a user: one frame per identifier in flight, nothing but zero accepted
while disarmed, a fault disarms, arming waits until old frames are gone.

### CmdController

Extends `BspCan` and drives it from the cycle of `control_task`: `Wake` reads
`current_tick`, time may pass before `BspCan_Service` reads the clock again
(`lag` is the difference), `Route` is `CmdController_Task` after the service with
the arming interlock and the enabling part of the router, `DispatchRemote` hands
the newest receiver message over, `Send` is any frame of a controller.
`RecoveryReady(lag)` and `TryArm(lag)` keep the unsigned subtraction of the code:
a time before `s_healthy_since_ms` looks like a very long one.

### CanManager

`Control` is a cycle: `Service` (with the driver's answer), the commands of the
controllers (`SendMotorCurrent`), then `FlushTx` of each bus, frame by frame
(`FlushFrame`: purge after a fault, expiry of slots, deadline of the frame,
accepted or busy).  `OtherFault`, `Leaves` and `Tick` may come between any two of
these.  `wire` is what each motor was last sent.

### CommandRouter, ShooterFeed, GimbalHold

`CommandRouter!Route` is one call of `CommandRouter_Route`: lost remote
(`RouteOffline`, which calls `Forgotten`) or online, with the switches, dial,
heading and vision message as inputs; `VisionArrives` is `on_vision_update`.  Angles
are numbers modulo `Angles`; stick translation is left out, the frame it is
rotated by is kept.

`ShooterFeed` has `Update` and `ComputeCurrents` as two steps of `Control`,
because each reads the clock itself; `UpdateMotorFeedback` is the report callback
with the interruption of a stall observation.  Speeds are in ramp steps.

`GimbalHold!Callback` is `process_gimbal_cmd`: `Idle` (not ready), `Fail` (a
control step met a late reference or a number that is not plausible) or `Drive`
(modes, manual stop, vision anchors); `Answer` and `Align` are the wait in
`main()`.  An angle is where it comes from (`taken`, `rest`, `vision`, ...), with
a mark for "of before the last stop".

### GimbalMonitor

`Begin`, `Write` per word in any order, `End` of a publication; `ReadFirst`,
`ReadWord`, `ReadAgain` of the probe, which neither waits nor is waited for.

### VendorMotors, MotorAlarm

`VendorMotors!Flush` is `MotorService_Flush` over the three adapters with any set
of refused frames (all frames that are not zero, while disarmed); `Direct`,
`Configured`, `SetControlMode` are the entry points of `motor_service.c`.
`MotorAlarm!Task` is one call of the task with any set of motors offline and any
time since the last call.

### ChassisControl, SentryChassis, OmniKinematics

`on_chassis_cmd` and `on_motor_feedback` are the callbacks of both controllers.
The initial states of `ChassisControl` are `ChassisController_Init` for every
list of motors that is found and every layout, right or wrong; `OmniKinematics`
compares `omni_compute` with the definition of what it should return, over whole
numbers.  `SentryChassis!WaitRound` is a round of `Sentry_WaitForSteerAlignment`
before the control task runs.

### ImuCalibration, WitLink, ImuLink

`ImuCalibration` is the loop of `gyro_calibrate`, reading by reading, with a robot
that may move and a sensor that may not answer.  `WitLink` has the serial line
(bytes sent, lost or damaged, an error of the line), the event that hands any
number of bytes to `WT61C_ProcessBytes`, and that parser.  `ImuLink` adds the
fields that `gyro_data_update` copies one by one while events arrive.

## 4. The runs

Components that share no state are checked in one run, one at a time: `part` is
chosen at the start and only that component moves.  So the run's states are the
sum, not the product, of the components', and nothing is lost: a property is
about one component.  `MCControllers`, `MCMotors`, `MCMotion` and `MCProgress` do
this; a component may occur in several configurations (`yaw`, `dial`, `vision` of
the router), each of which makes another behaviour long enough to happen.  An
invariant such as `RouterInv` is the conjunction of the named ones of its module.
The configurations are constants of the module (`RouterConf <- Routers` and so
on), since the theorems are about all of them.  Removing elements from `Parts` in
a configuration checks a part alone.

| run | distinct states | what it checks |
|---|---|---|
| `mc_core` | 465 107 | two plain topics, slots for one key too few, either phase asked for, a ring of two usable entries that four publications overflow: `Conservation`, `NewestKept`, `RingHoldsNewest`, `ControlAfterState`, `SlotsKeepTheirOwner`, `ImplementsBus` |
| `can_faults` | 217 497 | two buses, refused aborts, buses that never started: `OnlineWhenArmed`, `NoOldCommand`, `NothingAcrossInit`, `HealthyAgain` |
| `can_frames` | 674 929 | three identifiers, two mailboxes, two periods of delay: `NoStaleCommand`, `DisarmedIsSilent`, `PortSpec` |
| `cmd_arm` | 2 410 694 | the cycle with lag 0 or 1, neutral and stable times of 2, a silent receiver: `StopsWithoutRemote`, `ArmOnlyStable`, `ShooterStartsDown` |
| `cmd_live` | 412 120 | one bus, commands that expire and fault it: `NeutralArms` |
| `controllers` | 277 556 | `FeedInv`, `FeedChanges` (two wheels, stall time 4, reversal 2); `RouterInv`, `RouterChanges` (clock modulo 8, three configurations); `GimbalInv`, `GimbalChanges` (manual and spin; vision) |
| `motors` | 283 361 | `VendorInv` (one DM, one LK, a group of two BenMo); `ManagerInv`, `ManagerUsesPort` (two motors of one frame; a fault between two buses); `AlarmInv` (four motors, calls up to 4 late) |
| `motion` | 888 533 | `ChassisInv` (omni, every registration of three of four motors), `SentryInv`, `SentryTurns`, `OmniInv`, `CalibrationInv`, `ImuInv` |
| `progress` | 148 650 | `RegisterSpec`, `JamIsGivenUp`, `AlignsAgain`, `SilenceStops`, `NamedAgain`, `FloodServed`, `KeepsUp` |
| `cmd_ready`, `vendor_enable`, `imu_last_attempt` | – | expected violations, section 7 |

Bounds and why they are enough.

- Times are 1 to 4 units where the code has 20 to 500 ms: each comparison sees a
  value before, at and after its bound, and ages are capped beyond the last
  comparison only.  `MaxGap` is the longest time between two calls; it exceeds a
  bound wherever a call that comes too late makes a difference.
- `MaxPublish` = 2 per topic fills and overflows the ring, overwrites a pending
  value and replaces one that is being delivered.  Counters do not wrap in
  `mc_core`; they do in the part `flood` of `progress` (modulus 2), and the
  theorem of `Conservation` is for every modulus above `MaxPublish`.
- Two buses suffice since every loop over buses treats the faulty one and the
  others; one mailbox per bus suffices for faults because aborts treat all
  mailboxes alike, and `can_frames` has two so that two frames of one identifier
  could meet.  In `can_faults` and `cmd_arm` a command has no lifetime
  (`CommandTtl` 0), so only zero frames are accepted: they stay in mailboxes over
  a fault as well as others do, and faults come from the bus alone.  Commands
  that expire are in `can_frames` and `cmd_live`.
- The clock of the router is modulo 8 with a brake of 2, so half a turn of it is
  longer than every time it measures, as with the code's 2^32.
- The sentry has two modules and an encoder of 8 steps (every pair of angle and
  stick), and one of 4 with late reports.  The omni wheels are of a square, in
  every order, with one that is not valid; numbers are chosen so that lengths are
  whole.
- The chassis unit's frames have four bytes; two may be lost anywhere and an
  event may hand over any number of bytes.
- Deadlock is checked in every run but `motion` and `imu_last_attempt`: the
  calibration ends there, and nothing follows in that part.

Timing properties in the units of the code: a nonzero frame leaves its mailbox,
or the robot is disarmed, at most the abort timeout plus two cycles after its
deadline; a robot stops at most `REMOTE_LOSS_TIMEOUT_MS` plus three cycles (and
the lag) after its last message was received; a wheel, a shooter motor and a
drive motor of the sentry have no current longer than the timeout and one period
after the last report.

## 5. Fairness

- `MessageCenter!FairSpec`: weak fairness of `Dispatch`.  The control task has a
  fixed period and interrupts return.  Publishers get no fairness and no limit in
  the part `flood`.
- `BspCan!FairSpec`: the driver is serviced in every period, time passes, a
  controller sends or gives up a frame when it can and answers to `INRQ`.
  `HealthyAgain` assumes that both buses were started, that errors end and that
  the controllers answer within the time a phase allows; otherwise the code
  rightly retries for ever.
- `CmdController!FairCmdSpec`: the same, step by step of a cycle.  `NeutralArms`
  assumes in addition that the receiver stays online and the operator neutral.
- `ShooterFeed!FairSpec`: the router publishes a command in every cycle, and time
  passes.
- `GimbalHold!FairSpec`: callbacks go on, and the wait in `main()` ends.
  `AlignsAgain` assumes reports in time, within the limits, and the gimbal enabled.
- `CanManager!FairSpec`: the control task runs and time passes (weak); a driver
  asked again and again accepts a frame and a frame that is sent again and again
  is sent whole (strong), since a bus with arbitration gives no more.
  `SilenceStops` claims nothing across a fault.
- `MotorAlarm!FairSpec`: calls go on and each comes within one flash; with calls
  that are always later no group can be shown in full.
- `WitLink!LiveSpec`: the unit keeps sending, and an idle line raises its event.

`MCProgress!AllSpec` restates these conditions with `part`, because fairness of
`Next` of a component that does not run would be of no use.

## 6. Proofs

TLAPS proves every invariant, action property and refinement that the passing
runs check, for every value of the constants that satisfies the named
assumptions of the modules; TLC alone shows the liveness properties.  A theorem
about a component that shares its run with others is about the same harness as
the run: `MCMotors`, `MCControllers` and `MCMotion` take the configurations of
their components as constants, functions from the name of a part to its sizes
and times, so that `AllSpec => []RouterInv` is about every configuration of the
router, and the `.cfg` names the ones TLC takes.

Every proof of an invariant has the same shape: a stronger one (`Inv`, `IInv`,
`...Sound`) holds at the start, is kept by each action and by a step of another
part, and implies it.  What had to be added is what the code relies on without
saying so:

`MessageCenterProofs`
- `TypeCorrect`.  Types alone are not inductive: a step copies ring entries, so
  `QueueSound` says that every waiting entry is an event of a plain topic.  The
  ring arithmetic is in `WindowAppend`, `WindowAdvance`, `WindowOverwrite`.
- `ConservationHolds`: published = delivered + overwritten + coalesced + held.
  Invariant `CountInv`: the types, `TopicSlot` (a switched topic points to its
  own slot) and `Balance`, the equation without the modulus.
- `NewestKeptHolds`, `OwnersHold`: a channel has one slot (`OneSlotEach`), a slot
  of a ring topic is the one the topic was switched to (`SwitchedSlots`), and its
  newest value is pending, in hand or delivered (`NewestHeld`).  This part needs
  nothing of the counters.
- `RingNewestHolds`, `ControlAfterStateHolds`: the ring is sorted by topic
  (`RingSorted`), what waits is newer than what was seen (`SlotsAhead`,
  `RingUnseen`), and what waited at the start of a dispatch has been served up to
  the slot that was reached (`Served`).
- `DispatchIsFinite`: the steps that are left of a dispatch (`StepsLeft`) are limited
  by budget and slots, each of its steps leaves fewer, and no publication adds one.
  This is what `FloodServed` rests on, with the fairness of the dispatch.
- `ImplementsTheBus`: each step of the message center is one of `MessageBus` or
  none; overwriting and coalescing are the two ways the bus may give events up.

Conservation, order, ring and bus assume `MaxPublish < CounterModulus`: payloads
are numbered by the counters, and none has come around.

`BspCanProofs`
- `InvHolds`: a mailbox holds a frame only on a started bus (`FramesStarted`);
  while a service still counts the buses as healthy, all run and those already
  visited are ready (`HealthSound`, without which the end of `BspCan_Service`
  says nothing of the buses visited before); a frame of before a fault keeps its
  bus waiting (`OldWaits`).  From it `ArmedIsOnline` and `ArmedForgets`.
- `DriverInv` adds the frames: the table of mailboxes knows what they hold
  (`Tracked`), no bus has two of one identifier (`OneOfAnId`), and between two
  looks of the service at a bus pass at most `MaxGap` units (`Timely`), from
  which `NeverStale` has its bound: abort timeout and two gaps.  `InitIsClean`,
  and `SilentWhenDisarmed` when abort requests are not refused: the only theorem
  of the driver that needs it.
- `ImplementsPort`: the driver is a `CanPort`.

`CanManagerProofs` (any buses, slots, lifetimes)
- `NoLateCommandHolds`: a slot or frame that may still be sent has at least as
  long as its command (`GoodSlots`, `GoodFrames`); a new frame has the least time
  of its slots.  `ForgetsAtFaultHolds`: after a fault the slots forget bus by bus
  (`Forgetting`), the last before a second service can find the buses healthy,
  for which arming waits.  `ManagerUsesThePort`: it asks nothing of the driver
  that `CanPort` does not allow.  With `ImplementsPort` this makes the separation
  of the two sound for all sizes.
- `KeepsStopsHolds`: while a motor of a frame runs, a frame that stops it is due,
  on its way, or becomes due when the last command in the frame runs out
  (`Stoppable`).  A refused frame stays due, an expired command makes its frame
  due, a purge makes every frame due whose slots it clears, and only commands
  are aborted for being late.  What is left is an action property: the only
  step that can break `Stoppable` is the abort of zeros with a fault
  (`ZerosAborted`), and that step does occur, so an invariant would be false.
  This is the safety half of `SilenceStops`.

`CmdControllerProofs`
- `TaskUsesDriver`: the cycle is a behaviour of the driver, so the theorems of
  `BspCanProofs` are about the running task.
- `ArmOnlyStableHolds`, `ShooterStartsDownHolds`, `StopsWithoutRemoteHolds`.
  `HealthKnown` and `CalmKnown` say what the two clocks of a cycle (`lag`) still
  know of each other: before the service the time without fault covers the lag,
  and in the service a restart of it meets no neutral position.  `HeardKnown`
  bounds the age of a message where it waits, where it was just dispatched and
  where the robot moves by it; their sum is the bound of the property.

`MotorsProofs`
- Adapters: `HeardCounts` (the start-up counter says how many frames of each kind
  were accepted) and `DrivenWhenReady`, for every set of motors and grouping.
- Manager: the theorems of `CanManagerProofs`, instantiated for both parts.
- `AlarmHolds`: while a group is shown, its lights and counts are those of the
  time since its start (`GroupSound`, over quotients and remainders of the
  pulse), and every motor the round robin has passed is at most so far ahead as
  it has not gone (`PassedFew`), which is `TakesTurns` for any number of motors.

`ControllersProofs`
- Shooter: without a request nothing is observed or reversed (`RequestOver`); a
  reversal uses the attempt of its request (`Attempts`); the observation is part
  of what was pressed (`Observation`); a negative current belongs to a reversal
  that runs (`Reversal`); what is driven was heard within the timeout at the last
  computation (`Driven`).
- Router: a mode, brake or dial that acts was asked for after the last loss
  (`Acted`); the end of the brake and the time since spin was left show one moment
  of a clock that wraps (`BrakeSince`); a valid vision message is the last and no
  older than its stamp says (`MessageAge`), which needs `VisionMs + MaxGap < W`:
  no two calls are a turn of the clock apart.
- Gimbal: the controller waits exactly as long as everything was well
  (`WaitIsCounted`), targets of a capture are of now (`TargetsAreNew`), a vision
  aim is of the frame that was last commanded (`VisionIsTaken`), and the time
  that ends a manual brake was spent slow (`BrakeIsCounted`).

`GimbalMonitorProofs`
- `BlockIsWritten`: with an even sequence no word is outstanding, and a word that
  is not outstanding is of the newest publication.  With it what is gathered
  between two equal, even sequences is whole (`CopyHolds`), and the snapshot
  implements the register (`RegisterImplemented`).

`MotionProofs`
- Chassis: the wheels are different drive motors, of an omni robot those of its
  layout (`Setup`); a current was given with reports that were fresh one gap ago
  (`RecentReports`).  For omni and mecanum, while the run has an omni robot.
- Sentry: all modules have turned by the same angle (`TurnedAlike`), for only the
  first is asked which way is nearer; for any encoder divisible by four.
- Omni: `RankIsKnown` says that the test on four determinants accepts exactly the
  wheels with which every motion turns one (Cramer's rule one way, the cross
  products of `Motions` as witnesses the other); the limits slow all wheels by
  one factor (`SlowedTo`) and to the bound at most.  For any whole numbers.
- Calibration: the sums of an attempt lie between its extremes times its readings
  (`SumsAreBetween`), so a small spread bounds the distance from the mean.
- Line: what the parser will have when the buffer is processed is followed byte by
  byte, whatever was lost and however events cut the bytes.  After one frame
  without damage the parser waits, is in step, or will be full before the frame
  ends; after two it is in step; the third it takes (`Found`).  `RoomLeft`: no
  burst overflows the buffer.  `WT61C_ProcessBytes` is a recursive function of the
  number of bytes; instead of an induction over it the proof looks at a smallest
  byte at which it would differ (`LeastNatural`, from the well-founded order of
  the naturals).  As in the run, no byte of a payload reads 0x55; with such bytes
  there is `KeepsUp` of `progress`.
- Pass: while a pass copies, what the parser holds now, and what was copied, it
  has held in this pass (`NowIsOfThePass`, `CopiedIsOfThePass`).

The proofs corrected the models where TLC on one configuration could not: `MaxWait`
of the command controller is two gaps, since a message may wait through two
services; the feedback age of the gimbal is capped beyond its last comparison;
cases of the gimbal overlapped, so that the order of the
code's tests was left to the reader; the sizes a vision message, a wheel and an
abort timeout may have are now assumptions, checked by TLC where they are used.

Only model-checked: liveness (`HealthyAgain`, `NeutralArms` and the properties of
`progress` but `RegisterSpec`), since fairness and ENABLED are out of the prover's
reach.  Refuted formulas (section 7) have a counterexample instead.  Next worth
proving: the safety halves of the other liveness properties, as `DispatchIsFinite`
is for `FloodServed` and `KeepsStopsHolds` for `SilenceStops` (what is left of a recovery of the buses while no new fault
occurs, and of the steps to arming).

## 7. Disagreements between the code and what is said of it

With a run that shows each:

- `cmd_ready`: `bsp_can.h:85` says of `BspCan_RecoveryReady` that both buses must
  be healthy for 500 ms.  `cmd_controller.c:142` asks with `current_tick`, which
  is older than the clock `BspCan_Service` has just used; if a millisecond passed
  in between, the unsigned difference is huge in the cycle in which the buses are
  first found healthy, and the answer is yes at once.  Arming itself stays safe:
  `ArmOnlyStable` holds in the same model.
- `vendor_enable`: `dm_flush` counts the enable frames of a DM motor whether or
  not the driver took them (`dm_motor_adapter.c:172`).  A motor commanded for ten
  dispatches while outputs are disarmed, as always at start-up, gets torque
  frames without ever having been enabled.
- `imu_last_attempt`: an attempt that movement ended early leaves a partial sum
  that `gyro_data.c:236` divides as a whole one; when it was the last, the scale
  and the offset are used as they are (`:143`).

Stated in the modules, marked "Does not hold", and refuted by TLC when they take
the place of the properties of a configuration (same `SPECIFICATION` and
`CONSTANTS`):

| property, configuration | code | what is said |
|---|---|---|
| `BrakeIsOver`, `MCControllers.cfg` | nothing clears `spin_exit_brake_until_ms`: 24.8 days after spin was left the gimbal is held again (`command_router.c:213`) | `command_router.h:47`, the time the brake ends at |
| `SpinUsesLastHeading`, `MCControllers.cfg` | without a heading spin falls back to the angle of its entry (`command_router.c:306`) | `command_router.h:46`, the most recent valid angle |
| `RecoversInPlace` (PROPERTY), `MCControllers.cfg` | a capture clears the limit fault before the loops of the same callback succeed (`gimbal_controller.c:251`) | `docs/gm6020-control-modes.md:83`, recovered in place |
| `RotationIsLimited`, `MCMotion.cfg` | the rotation is clamped to 5 and not to 1 (`omni_chassis_strategy.c:57`) | `docs/omni-chassis.md:36` |
| `SteeredWithReports`, `MCMotion.cfg` | steered modules are driven on angles of any age (`sentry_controller.c:338`) | `docs/architecture/rtos-migration.md:53`, safe zero when a sensor is offline |
| `WaitMovesSteers`, `MCMotion.cfg` | the wait runs before anything arms the outputs (`sentry_controller.c:516`) | comment at `sentry_controller.c:517` |
| `SuccessIsCounted`, `MCMotion.cfg` | a third attempt that meets every condition is not counted (`gyro_data.c:262`) | `gyro_data.c:261` and `:108` |
| `KeepsUp` (PROPERTY), `MCProgress.cfg` with `LineErrors = 1` | one error of the line ends the reception of the chassis unit (`bsp_rc.c:43`) | `wt61c.h:41`, the latest data |

## 8. Not modelled

- Control laws and filters (PID, damping, pitch coupling, attitude filters,
  mecanum formulas): floating point.  Byte layouts and checksums: conversions
  without state, which the host tests cover; a damaged frame of the chassis unit
  whose sum is right by chance is left out, and so are frames that all read 0x55
  at the same place, which would hold the parser.
- Telemetry, dashboard and logging change nothing.  Configuration tables appear
  as constants.  Generated start-up code, vendored libraries and host tools
  (HAL, CMSIS, FreeRTOS, USB and DSP: nearly all of the lines under `src/`, and
  not this firmware's own logic).
- The application runtime: its manifest names no module in this build.
- The vision link: a packet is checked and published in the interrupt; the
  enhanced reception, `vision_cmd` and the Jetson port have no caller.  What a
  message does is in `CommandRouter` and `GimbalHold`.
- Functions without a caller in `src/`: `CAN_Manager_SendMotorCurrents4`,
  `CAN_Manager_SendGM6020Current`, the speed setters of the shooter,
  `MotorService_SetControlMode` has none either but is modelled.
- Subscription and hook tables (filled once before the scheduler starts), CAN
  reception, the trace ring and the diagnostics of the CAN driver, NULL and size
  checks that return before any change, an invalid configuration of the alarm.
- Times of 2^32 ms: ages saturate, so that a lost receiver that counts as online
  again for 200 ms after 49 days is listed as a hazard and not covered; likewise
  a monitor sequence that comes around within one read.
- A zero sent after a fault may be aborted with it; no delivery is promised by
  the code, and `SilenceStops` claims none.
- That the waits at start-up end: they count rounds or readings in plain loops.
