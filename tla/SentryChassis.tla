---------------------------- MODULE SentryChassis ----------------------------
(***************************************************************************)
(* The chassis of the sentry (application/chassis/sentry_controller.c):    *)
(* drive motors that all turn alike, and two steered modules.  A stick     *)
(* that points backwards is served by driving backwards, and the modules   *)
(* turn to whichever of two opposite angles is nearer.  Before the control *)
(* task runs, Sentry_WaitForSteerAlignment holds the modules at their      *)
(* configured angle for a while.                                           *)
(*                                                                         *)
(* Time.  Commands, and the rounds of the wait, come at least every MaxGap *)
(* units; a report is at most MaxDelay old when it is dispatched.  After   *)
(* the wait, start-up sleeps longer than a report stays valid (main.c).    *)
(*                                                                         *)
(* Abstraction.  Angles are whole units; a loop with reports may compute   *)
(* zero or not; the speed of a moved stick is one value, and direction of  *)
(* each drive motor is left out.  The configuration gives both modules an  *)
(* initial angle, so angle_initialized holds from the start.               *)
(***************************************************************************)
EXTENDS Integers

CONSTANTS
    Encoder,             \* units of one revolution, 8192 in the code
    Initial,             \* per module: initial_angle
    Threshold,           \* ALIGNMENT_THRESHOLD, in units
    Rounds,              \* TIMEOUT_MS / CHECK_INTERVAL_MS
    Drives,              \* s_drive_motor_ids
    Timeout,             \* MOTOR_FEEDBACK_TIMEOUT_MS, in units
    MaxGap, MaxDelay,    \* bounds of the environment, in units
    StickAngles,         \* angles of the stick that are tried
    Reported             \* angles of the modules that are reported

Steers == 1..2           \* CHASSIS_STEER_COUNT

Angles == 0..Encoder - 1

(* What MCMotion assumes of each instance. *)
SentryAssumption ==
    /\ Encoder \in Nat \ {0} /\ Encoder % 4 = 0
    /\ Initial \in [Steers -> Angles]
    /\ {Rounds, Timeout} \subseteq Nat \ {0}
    /\ {Threshold, MaxGap, MaxDelay} \subseteq Nat
    /\ StickAngles \subseteq -(Encoder \div 2)..(Encoder \div 2)
    /\ Reported \subseteq Angles

VARIABLES
    phase,               \* "align", "boot" until the first command, "run"
    waited,              \* rounds of the wait
    steer_target_angles, \* per module
    angle_raw,           \* per module: MotorContext_t, from its reports
    steer_age,           \* per module: age of its last report
    drive_direction,     \* of target_speeds; 0 when they are zero
    seen, age,           \* per drive motor: reports
    current,             \* per drive motor: zero or not
    steer_current,       \* per module
    gap,                 \* units since the last command or round
    armed,               \* BspCan_OutputsArmed()
    asked,               \* history: angle of the stick that was last moved
    moved                \* history: modules that were sent a current

steering == <<steer_target_angles, drive_direction, asked>>
reports == <<angle_raw, steer_age, seen, age>>
outputs == <<current, steer_current>>
vars == <<phase, waited, steering, reports, outputs, gap, armed, moved>>

Half == Encoder \div 2
Quarter == Encoder \div 4
Never == Timeout + MaxGap + MaxDelay + 1
Levels == {"zero", "drive"}

----------------------------------------------------------------------------
(* Angles.                                                                 *)

AbsOf(n) == IF n < 0 THEN -n ELSE n

Wrapped(a) == a % Encoder

(* from b to a the short way *)
Diff(a, b) ==
    LET d == a - b
    IN  IF d > Half THEN d - Encoder ELSE IF d < -Half THEN d + Encoder ELSE d

(* The stick in the front half, and whether it was turned round for that *)
Backwards(j) == AbsOf(j) > Quarter

Canonical(j) ==
    IF j > Quarter THEN j - Half ELSE IF j < -Quarter THEN j + Half ELSE j

(* The first module decides: is the angle nearer than its opposite? *)
Nearer(j) ==
    AbsOf(Diff(Wrapped(Initial[1] + Canonical(j)), steer_target_angles[1]))
      <= AbsOf(Diff(Wrapped(Initial[1] + Canonical(j) + Half), steer_target_angles[1]))

(* Mutant: the modules turn to the angle in front, near or not. *)
FinalAngle_Front(j) == Canonical(j)

FinalAngle(j) ==
    IF Nearer(j) THEN Canonical(j) ELSE Wrapped(Canonical(j) + Encoder) - Half

(* Mutant: the second reversal does not undo the first. *)
Direction_Or(j) == IF Backwards(j) \/ ~Nearer(j) THEN -1 ELSE 1

Direction(j) == IF Backwards(j) = Nearer(j) THEN -1 ELSE 1

(* SteerController_CascadeControl: angle_error *)
AngleError(target, raw) == Diff(target, raw)

----------------------------------------------------------------------------
(* ChassisController_Update and ChassisController_ComputeCurrents.         *)

Update(moves, j) ==
    IF moves
    THEN /\ steer_target_angles' =
              [i \in Steers |-> Wrapped(Initial[i] + FinalAngle(j))]
         /\ drive_direction' = Direction(j)
         /\ asked' = j
    ELSE drive_direction' = 0 /\ UNCHANGED <<steer_target_angles, asked>>

(* ComputeSingleMotorCurrent: a loop at rest with no measurement gives 0 *)
DriveCurrents(d, direction) ==
    IF age[d] > Timeout \/ (~seen[d] /\ direction = 0) THEN {"zero"} ELSE Levels

(* A module is not asked for its reports. *)
ComputeCurrents(direction) ==
    /\ current' \in {c \in [Drives -> Levels] :
                       \A d \in Drives : c[d] \in DriveCurrents(d, direction)}
    /\ steer_current' \in [Steers -> Levels]
    /\ gap' = 0

(* What the dispatch flushes: nothing but zeros while outputs are disarmed *)
Flush == moved' = IF armed THEN moved \cup {i \in Steers : steer_current[i] = "drive"}
                  ELSE moved

on_chassis_cmd(moves, j) ==
    /\ phase # "align"
    /\ phase' = "run"
    /\ Update(moves, j)
    /\ ComputeCurrents(drive_direction')
    /\ Flush
    /\ UNCHANGED <<waited, reports, armed>>

(* on_motor_feedback *)
DriveReport(d, delay) ==
    /\ delay <= age[d]
    /\ seen' = [seen EXCEPT ![d] = TRUE]
    /\ age' = [age EXCEPT ![d] = delay]
    /\ UNCHANGED <<phase, waited, steering, angle_raw, steer_age, outputs, gap, armed, moved>>

(* on_gm6020_feedback, with that of modules/motor/motor_driver.c *)
SteerReport(i, raw, delay) ==
    /\ delay <= steer_age[i]
    /\ angle_raw' = [angle_raw EXCEPT ![i] = raw]
    /\ steer_age' = [steer_age EXCEPT ![i] = delay]
    /\ UNCHANGED <<phase, waited, steering, seen, age, outputs, gap, armed, moved>>

----------------------------------------------------------------------------
(* Start-up and time.                                                      *)

Aligned == \A i \in Steers :
    AbsOf(Diff(steer_target_angles[i], angle_raw[i])) <= Threshold

(* One round of Sentry_WaitForSteerAlignment; the control task, and with   *)
(* it the sleep of main.c, follow when it ends.                            *)
WaitRound ==
    /\ phase = "align"
    /\ waited' = waited + 1
    /\ ComputeCurrents(drive_direction)
    /\ Flush
    /\ IF Aligned \/ waited' = Rounds
       THEN /\ phase' = "boot"
            /\ age' = [d \in Drives |-> Never]
            /\ steer_age' = [i \in Steers |-> Never]
       ELSE UNCHANGED <<phase, age, steer_age>>
    /\ UNCHANGED <<steering, angle_raw, seen, armed>>

(* CmdController arms and disarms, in the control task. *)
SetArmed ==
    /\ phase = "run"
    /\ armed' = ~armed
    /\ UNCHANGED <<phase, waited, steering, reports, outputs, gap, moved>>

Older(a) == IF a < Never THEN a + 1 ELSE a

Tick ==
    /\ gap < MaxGap
    /\ gap' = gap + 1
    /\ age' = [d \in Drives |-> Older(age[d])]
    /\ steer_age' = [i \in Steers |-> Older(steer_age[i])]
    /\ UNCHANGED <<phase, waited, steering, angle_raw, seen, outputs, armed, moved>>

Init ==
    /\ phase = "align" /\ waited = 0 /\ gap = 0
    /\ steer_target_angles = Initial /\ angle_raw = [i \in Steers |-> 0]
    /\ drive_direction = 0 /\ asked = 0
    /\ seen = [d \in Drives |-> FALSE]
    /\ \E a \in 0..Never :      \* the time since the reset
          age = [d \in Drives |-> a] /\ steer_age = [i \in Steers |-> a]
    /\ current = [d \in Drives |-> "zero"]
    /\ steer_current = [i \in Steers |-> "zero"]
    /\ armed = FALSE /\ moved = {}

Next ==
    \/ \E moves \in BOOLEAN, j \in StickAngles : on_chassis_cmd(moves, j)
    \/ \E d \in Drives, delay \in 0..MaxDelay : DriveReport(d, delay)
    \/ \E i \in Steers, raw \in Reported, delay \in 0..MaxDelay :
          SteerReport(i, raw, delay)
    \/ WaitRound \/ SetArmed \/ Tick

Spec == Init /\ [][Next]_vars

----------------------------------------------------------------------------
(* Properties.                                                             *)

(* Every variable has the shape the code gives it. *)
TypeOK ==
    /\ phase \in {"align", "boot", "run"} /\ waited \in 0..Rounds
    /\ {steer_target_angles, angle_raw} \subseteq [Steers -> Angles]
    /\ drive_direction \in -1..1 /\ asked \in -Half..Half
    /\ seen \in [Drives -> BOOLEAN]
    /\ age \in [Drives -> 0..Never] /\ steer_age \in [Steers -> 0..Never]
    /\ current \in [Drives -> Levels] /\ steer_current \in [Steers -> Levels]
    /\ gap \in 0..MaxGap /\ armed \in BOOLEAN /\ moved \subseteq Steers

(* When the wheels turn, every module with the direction of its wheel      *)
(* moves the robot where the stick points, whatever way the modules have   *)
(* turned to get there.                                                    *)
MovesWhereAsked ==
    drive_direction # 0 =>
        \A i \in Steers :
            Wrapped(steer_target_angles[i] - Initial[i]
                      + (IF drive_direction = -1 THEN Half ELSE 0)) = Wrapped(asked)

(* No command turns a module by more than a quarter. *)
TurnsAtMostQuarter ==
    \A i \in Steers :
        AbsOf(Diff(steer_target_angles'[i], steer_target_angles[i])) <= Quarter

(* The error the loop of a module works on leads to its target, never the  *)
(* long way, wherever the module stands.                                   *)
ErrorIsShort ==
    \A i \in Steers, raw \in Angles :
        LET e == AngleError(steer_target_angles[i], raw)
        IN  Wrapped(raw + e) = steer_target_angles[i] /\ AbsOf(e) <= Half

(* A drive motor has a current only when it has reported, at most the      *)
(* timeout and one period ago.                                             *)
DrivenWithReports ==
    phase = "run" => \A d \in Drives :
        current[d] = "drive" => seen[d] /\ age[d] <= Timeout + MaxGap

(* The sentry in every state: it moves where it was asked to, and only a    *)
(* drive motor that is heard is driven.                                    *)
SentryInv ==
    /\ TypeOK
    /\ MovesWhereAsked
    /\ ErrorIsShort
    /\ DrivenWithReports

(* Does not hold.  The same of a module: docs/architecture/rtos-migration.md wants a safe *)
(* zero when a sensor is offline.                                          *)
SteeredWithReports ==
    phase = "run" => \A i \in Steers :
        steer_current[i] = "drive" => steer_age[i] <= Timeout + MaxGap

(* Does not hold.  When the wait ran to its end, the modules were told to  *)
(* move.  A comment                                                        *)
(* in the wait says that they go to the initial angle.                     *)
WaitMovesSteers == (phase = "boot" /\ waited = Rounds /\ ~Aligned) => moved # {}

==============================================================================
