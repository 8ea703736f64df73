----------------------------- MODULE MotorAlarm -----------------------------
(***************************************************************************)
(* The report of motors that stopped answering                             *)
(* (application/diagnostics/motor_offline_alarm.c).  One motor at a time   *)
(* is named by a group of beeps (its bus) and red flashes (its id); a blue *)
(* light separates the groups.  The main loop calls the task as often as   *)
(* it can, and a flash is as long as the calls make it: nothing here runs  *)
(* on a timer.                                                             *)
(*                                                                         *)
(* Abstraction.  A motor is its place in motor_configs.  Which motors are  *)
(* offline is read anew by every call and any set will do; a timestamp is  *)
(* the time since it was taken, and only the one of the phase is kept.     *)
(***************************************************************************)
EXTENDS Integers

CONSTANTS
    Count,               \* robot->total_motor_count
    OfflineAlarmId,      \* per motor: offline_alarm_id
    BusNumber,           \* per motor: bus_number(can_channel), 0 for none
    MaxAlarmId,          \* the largest id that can be flashed
    Pulse,               \* PULSE_MS
    MinGroup,            \* MIN_GROUP_MS
    Separator,           \* SEPARATOR_MS
    MaxGap,              \* longest time between two calls
    NoMotor              \* NO_MOTOR

Motors == 0..(Count - 1)

(* What MCMotors and MCProgress assume of each instance. *)
AlarmAssumption ==
    /\ {Count, Pulse, Separator} \subseteq Nat \ {0}
    /\ {MaxAlarmId, MaxGap} \subseteq Nat
    /\ OfflineAlarmId \in [Motors -> Nat]
    /\ BusNumber \in [Motors -> 0..2]
    /\ MinGroup \in Nat /\ MinGroup >= 4 * Pulse
    /\ NoMotor \notin Motors

VARIABLES
    offline,             \* offline_mask
    phase,               \* "quiet", "group", or "separator" (blue_separator)
    active_motor_id,
    s_next_index,
    since,               \* time since s_group_start or s_separator_start
    lamp,                \* what BspAlarm_Set shows
    flashes, beeps,      \* history: seen since the group began
    named,               \* history: the motor whose group was shown in full
    passed               \* history: per motor, groups of others since it was
                         \*   last named or online

vars == <<offline, phase, active_motor_id, s_next_index, since, lamp,
          flashes, beeps, named, passed>>

Dark == [red |-> FALSE, green |-> FALSE, blue |-> FALSE, beep |-> FALSE]
Green == [Dark EXCEPT !.green = TRUE]
Blue == [Dark EXCEPT !.blue = TRUE]

Unmapped(m) ==
    OfflineAlarmId[m] \notin 1..MaxAlarmId \/ BusNumber[m] = 0

(* The red flashes that name m; 0 is a steady red light. *)
HardwareId(m) == IF Unmapped(m) THEN 0 ELSE OfflineAlarmId[m]

RedDuration(m) == 2 * Pulse * HardwareId(m)

Duration(m) == IF RedDuration(m) > MinGroup THEN RedDuration(m) ELSE MinGroup

FirstHalf(t) == t % (2 * Pulse) < Pulse

(* The light and the sound of m's group, t after its start. *)
Shown(m, t) ==
    [Dark EXCEPT
        !.red = HardwareId(m) = 0 \/ (t < RedDuration(m) /\ FirstHalf(t)),
        !.beep = t < 2 * Pulse * BusNumber[m] /\ FirstHalf(t)]

----------------------------------------------------------------------------
Rises(before, after) == IF ~before /\ after THEN 1 ELSE 0

Show(l) ==
    /\ lamp' = l
    /\ flashes' = flashes + Rises(lamp.red, l.red)
    /\ beeps' = beeps + Rises(lamp.beep, l.beep)

(* The first motor of off from s_next_index on, around the end. *)
NextOffline(off) ==
    LET Distance(m) == (m + Count - s_next_index) % Count
    IN  CHOOSE m \in off : \A k \in off : Distance(m) <= Distance(k)

Following(m) == (m + 1) % Count

(* start_group, and the first light of the group *)
StartGroup(off) ==
    LET m == NextOffline(off)
    IN  /\ phase' = "group"
        /\ active_motor_id' = m
        /\ s_next_index' = Following(m)
        /\ since' = 0
        /\ lamp' = Shown(m, 0)
        /\ flashes' = Rises(FALSE, lamp'.red)
        /\ beeps' = Rises(FALSE, lamp'.beep)
        /\ named' = NoMotor
        /\ passed' = [k \in Motors |-> IF k \in off \ {m} THEN passed[k] + 1 ELSE 0]

(* How often a motor was passed counts while it is offline. *)
KeepPassed(off) ==
    passed' = [k \in Motors |-> IF k \in off THEN passed[k] ELSE 0]

StartSeparator(off) ==
    /\ phase' = "separator"
    /\ since' = 0
    /\ Show(Blue)
    /\ KeepPassed(off)
    /\ UNCHANGED <<active_motor_id, s_next_index>>

AllOnline(off) ==
    /\ off = {}
    /\ phase' = "quiet"
    /\ active_motor_id' = NoMotor
    /\ since' = 0
    /\ Show(Green)
    /\ named' = NoMotor
    /\ KeepPassed(off)
    /\ UNCHANGED s_next_index

(* Mutant: a group goes on after a call that came late. *)
Cut_Recovered(off, gap) == active_motor_id \notin off

(* Mutant: a call a pulse after the last one counts as late already. *)
Cut_Early(off, gap) == active_motor_id \notin off \/ gap + 1 >= Pulse

(* A group that must not be finished. *)
Cut(off, gap) == active_motor_id \notin off \/ gap >= Pulse

CutGroup(off, gap) ==
    /\ off # {} /\ phase = "group"
    /\ Cut(off, gap)
    /\ StartSeparator(off)
    /\ UNCHANGED named

EndGroup(off, gap) ==
    /\ off # {} /\ phase = "group"
    /\ ~Cut(off, gap)
    /\ since + gap >= Duration(active_motor_id)
    /\ StartSeparator(off)
    /\ named' = active_motor_id

GoOn(off, gap) ==
    /\ off # {} /\ phase = "group"
    /\ ~Cut(off, gap)
    /\ since + gap < Duration(active_motor_id)
    /\ since' = since + gap
    /\ Show(Shown(active_motor_id, since'))
    /\ KeepPassed(off)
    /\ UNCHANGED <<phase, active_motor_id, s_next_index, named>>

StayBlue(off, gap) ==
    /\ off # {} /\ phase = "separator"
    /\ since + gap < Separator
    /\ since' = since + gap
    /\ Show(Blue)
    /\ KeepPassed(off)
    /\ UNCHANGED <<phase, active_motor_id, s_next_index, named>>

NextGroup(off, gap) ==
    /\ off # {}
    /\ phase = "quiet" \/ (phase = "separator" /\ since + gap >= Separator)
    /\ StartGroup(off)

(* MotorOfflineAlarm_Task: off are offline, gap after the last call. *)
Task(off, gap) ==
    /\ offline' = off
    /\ \/ AllOnline(off)
       \/ CutGroup(off, gap)
       \/ EndGroup(off, gap)
       \/ GoOn(off, gap)
       \/ StayBlue(off, gap)
       \/ NextGroup(off, gap)

(* MotorOfflineAlarm_Init with a configuration that is valid *)
Init ==
    /\ offline = {}
    /\ phase = "quiet"
    /\ active_motor_id = NoMotor
    /\ s_next_index = 0
    /\ since = 0
    /\ lamp = Dark
    /\ flashes = 0
    /\ beeps = 0
    /\ named = NoMotor
    /\ passed = [m \in Motors |-> 0]

Next == \E off \in SUBSET Motors, gap \in 0..MaxGap : Task(off, gap)

Spec == Init /\ [][Next]_vars

(* A main loop that runs at its period: calls go on, none is late. *)
InTime == \E off \in SUBSET Motors, gap \in 1..(Pulse - 1) : Task(off, gap)

FairSpec == Init /\ [][InTime]_vars /\ WF_vars(InTime)

----------------------------------------------------------------------------
(* Also the search for the next motor never leaves the configuration       *)
(* (the modulus of motor_offline_alarm.c:82).                              *)
TypeOK ==
    /\ offline \subseteq Motors
    /\ phase \in {"quiet", "group", "separator"}
    /\ active_motor_id \in Motors \cup {NoMotor}
    /\ s_next_index \in Motors
    /\ since \in Nat
    /\ lamp \in [red : BOOLEAN, green : BOOLEAN, blue : BOOLEAN, beep : BOOLEAN]
    /\ flashes \in Nat /\ beeps \in Nat
    /\ named \in Motors \cup {NoMotor}
    /\ passed \in [Motors -> Nat]
    /\ phase = "group" => active_motor_id \in Motors

(* A group that is shown in full has as many red flashes as the motor's id *)
(* and as many beeps as its bus, however irregular the calls were: no      *)
(* flash is missed, joined with another one or added (the lengths of       *)
(* motor_offline_alarm.c:128 and the cut at :110 together).                *)
NamesRight ==
    named # NoMotor =>
        /\ flashes = IF Unmapped(named) THEN 1 ELSE OfflineAlarmId[named]
        /\ beeps = BusNumber[named]

(* Red or sound is about a motor that was offline at the last call: also   *)
(* one that comes back in the middle of its group is dropped at once.      *)
AboutOffline ==
    lamp.red \/ lamp.beep => active_motor_id \in offline

(* A motor that stays offline is passed over by at most one group of every *)
(* other motor, whatever the others do between: start_group goes around.   *)
TakesTurns == \A m \in Motors : passed[m] < Count

(* The alarm in every state: it names motors that are offline, rightly and  *)
(* in turn.                                                                 *)
AlarmInv ==
    /\ TypeOK
    /\ NamesRight
    /\ AboutOffline
    /\ TakesTurns

(* A motor that stays offline is named in full again and again, also when  *)
(* other motors come and go.                                               *)
NamedAgain ==
    \A m \in Motors : <>[](m \in offline) => []<>(named = m)
==============================================================================
