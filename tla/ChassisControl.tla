--------------------------- MODULE ChassisControl ----------------------------
(***************************************************************************)
(* The chassis controller of robots without steered wheels                 *)
(* (application/chassis/chassis_controller.c) with its two strategies      *)
(* (adapters/chassis/).  Start-up chooses which motor is which wheel; then *)
(* each chassis command is turned into one order per wheel in the handler  *)
(* that receives it.  An omni robot stops as a whole when a wheel is not   *)
(* heard; a mecanum robot stops that wheel.                                *)
(*                                                                         *)
(* Time.  One unit is part of the 100 ms a report stays valid.  Commands   *)
(* come at least every MaxGap units (the control task publishes one per    *)
(* period); a report is at most MaxDelay old when it is dispatched.        *)
(*                                                                         *)
(* Abstraction.  A computed current is one value whatever the PID gives;   *)
(* target speeds are zero unless the chassis runs and are left out.        *)
(***************************************************************************)
EXTENDS Integers, Sequences

CONSTANTS
    Omni,                \* chassis_type is CHASSIS_TYPE_OMNI
    Count,               \* CHASSIS_MOTOR_COUNT and OMNI_WHEEL_COUNT
    Motors,              \* every motor of the robot
    DriveMotors,         \* those with MOTOR_ROLE_CHASSIS_DRIVE
    Timeout,             \* MOTOR_FEEDBACK_TIMEOUT_MS, in units
    MaxGap, MaxDelay     \* bounds of the environment, in units

ASSUME ChassisAssumption ==
    /\ Omni \in BOOLEAN /\ DriveMotors \subseteq Motors
    /\ {Count, Timeout} \subseteq Nat \ {0}
    /\ {MaxGap, MaxDelay} \subseteq Nat

VARIABLES
    found,               \* the motors MotorService_FindByRole returned
    layout,              \* motor_id of each wheel of the omni geometry
    s_chassis_motor_ids, s_config_valid,
    running, seen, age,  \* ChassisController; age of last_update_time
    pid,                 \* per wheel: whether its loops hold memory
    order,               \* per motor: what the service was told last
    gap                  \* units since the last chassis command

setup == <<found, layout, s_chassis_motor_ids, s_config_valid>>

vars == <<setup, running, seen, age, pid, order, gap>>

Slots == 1..Count

(* the wheels that have a motor *)
Wheels == 1..Len(found)

Never == Timeout + MaxGap + MaxDelay + 1

----------------------------------------------------------------------------
(* Start-up: ChassisController_Init.                                       *)

Distinct(s) == \A i, j \in 1..Len(s) : s[i] = s[j] => i = j

Lists == UNION {{s \in [1..n -> DriveMotors] : Distinct(s)} : n \in 0..Count}

(* Each wheel up to the number of motors found names one of them, and no   *)
(* earlier wheel names the same.                                           *)
MappingValid(list, wheels) ==
    \A i \in 1..Len(list) :
        /\ \E j \in 1..Len(list) : list[j] = wheels[i]
        /\ \A j \in 1..i - 1 : wheels[j] # wheels[i]

MotorIds(list, wheels) ==
    IF Omni /\ MappingValid(list, wheels)
    THEN [i \in 1..Len(list) |-> wheels[i]]
    ELSE list

(* others: the geometry is configured and every motor's limits are valid *)
ConfigValid(list, wheels, others) ==
    /\ others
    /\ Omni => Len(list) = Count /\ MappingValid(list, wheels)

Init ==
    /\ found \in Lists
    /\ layout \in [Slots -> Motors]
    /\ s_chassis_motor_ids = MotorIds(found, layout)
    /\ \E others \in BOOLEAN : s_config_valid = ConfigValid(found, layout, others)
    /\ running = FALSE
    /\ seen = [w \in Slots |-> FALSE]
    /\ age = [w \in Slots |-> Never]
    /\ pid = [w \in Slots |-> "clear"]
    /\ order = [m \in Motors |-> "none"]
    /\ gap = 0

----------------------------------------------------------------------------
(* Commands and reports.                                                   *)

(* status of the strategy's compute: omni refuses numbers that are not      *)
(* finite and a geometry that is not right (OmniKinematics)                *)
StrategyOk(usable) == Omni => usable

(* ChassisController_Update: running *)
Runs(enabled, usable) ==
    /\ enabled /\ s_config_valid /\ StrategyOk(usable)
    /\ Len(found) = Count

Fresh(w) == seen[w] /\ age[w] <= Timeout

(* Mutant: an omni robot looks at each wheel alone. *)
AllowOutput_Own(runs) == runs /\ s_config_valid

AllowOutput(runs) ==
    /\ runs /\ s_config_valid
    /\ Omni => \A w \in Wheels : Fresh(w)

(* ChassisController_ComputeCurrents: the wheels that are given a current *)
Driven(runs) == {w \in Wheels : AllowOutput(runs) /\ Fresh(w)}

Orders(driven) ==
    [m \in Motors |->
        IF \E w \in Wheels : s_chassis_motor_ids[w] = m
        THEN IF \E w \in driven : s_chassis_motor_ids[w] = m
             THEN "current" ELSE "zero"
        ELSE order[m]]

Memory(driven) ==
    [w \in Slots |-> IF w \in driven THEN "used"
                     ELSE IF w \in Wheels THEN "clear" ELSE pid[w]]

on_chassis_cmd(enabled, usable) ==
    /\ running' = Runs(enabled, usable)
    /\ order' = Orders(Driven(running'))
    /\ pid' = Memory(Driven(running'))
    /\ gap' = 0
    /\ UNCHANGED <<setup, seen, age>>

(* a report of motor m that is d old and not older than the one before it *)
on_motor_feedback(m, d) ==
    /\ \E w \in Wheels :
          /\ s_chassis_motor_ids[w] = m
          /\ d <= age[w]
          /\ seen' = [seen EXCEPT ![w] = TRUE]
          /\ age' = [age EXCEPT ![w] = d]
    /\ UNCHANGED <<setup, running, pid, order, gap>>

Older(a) == IF a < Never THEN a + 1 ELSE a

Tick ==
    /\ gap < MaxGap
    /\ gap' = gap + 1
    /\ age' = [w \in Slots |-> Older(age[w])]
    /\ UNCHANGED <<setup, running, seen, pid, order>>

Next ==
    \/ \E enabled, usable \in BOOLEAN : on_chassis_cmd(enabled, usable)
    \/ \E m \in Motors, d \in 0..MaxDelay : on_motor_feedback(m, d)
    \/ Tick

Spec == Init /\ [][Next]_vars

----------------------------------------------------------------------------
(* Properties.                                                             *)

(* Every variable has the shape the code gives it. *)
TypeOK ==
    /\ found \in Lists
    /\ layout \in [Slots -> Motors]
    /\ s_chassis_motor_ids \in [Wheels -> Motors]
    /\ {s_config_valid, running} \subseteq BOOLEAN
    /\ seen \in [Slots -> BOOLEAN]
    /\ age \in [Slots -> 0..Never]
    /\ pid \in [Slots -> {"clear", "used"}]
    /\ order \in [Motors -> {"none", "zero", "current"}]
    /\ gap \in 0..MaxGap

HasCurrent(w) == order[s_chassis_motor_ids[w]] = "current"

(* No wheel has a current for longer than the timeout and one period after *)
(* its last report; on an omni robot, after the last report of any wheel.  *)
SilentWheelStops ==
    \A w \in Wheels : HasCurrent(w) =>
        \A v \in Wheels : (Omni \/ v = w) => age[v] <= Timeout + MaxGap

(* The wheels of an omni robot have currents all together or not at all:   *)
(* part of them would move the body in a direction nobody asked for.       *)
StopsTogether == Omni => \A v, w \in Wheels : HasCurrent(v) = HasCurrent(w)

(* Whatever the geometry says, only motors of the drive role are ever told *)
(* anything, and those of a robot that moves are the wheels of its layout, *)
(* each one motor.                                                         *)
OwnMotorsOnly ==
    /\ \A m \in Motors : order[m] # "none" => m \in DriveMotors
    /\ \A w \in Wheels : HasCurrent(w) =>
          /\ \A v \in Wheels : s_chassis_motor_ids[v] = s_chassis_motor_ids[w]
                                  => v = w
          /\ Omni => s_chassis_motor_ids[w] = layout[w]

(* A wheel that is stopped holds no loop memory, so what it is given when  *)
(* it starts again owes nothing to the time before.                        *)
RestartsClean ==
    \A w \in Wheels : order[s_chassis_motor_ids[w]] = "zero" => pid[w] = "clear"

(* The chassis in every state: only its own motors are told anything, and   *)
(* those that are not heard stop, of an omni robot all.                    *)
ChassisInv ==
    /\ TypeOK
    /\ SilentWheelStops
    /\ StopsTogether
    /\ OwnMotorsOnly
    /\ RestartsClean

==============================================================================
