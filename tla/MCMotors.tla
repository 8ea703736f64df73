------------------------------- MODULE MCMotors --------------------------------
(* What is under the controllers, one component at a time: they share no    *)
(* state here.  `part` says which runs.  The motor services are VendorMotors *)
(* itself; the CAN manager, in two configurations, and the offline alarm,   *)
(* in one for each part in the domain of AlarmConf, run over variables of   *)
(* theirs.                                                                  *)
EXTENDS VendorMotors

CONSTANTS Parts, SharingConf, FaultyConf, AlarmConf, dm1, lk1, bm1, bm2, NoMotor

VARIABLES
    part,
    c_slot, c_pending, c_cycle, c_armed, c_services, c_mailbox, c_wire,
    a_offline, a_phase, a_active, a_index, a_since, a_lamp, a_flashes,
    a_beeps, a_named, a_passed

manager == <<c_slot, c_pending, c_cycle, c_armed, c_services, c_mailbox, c_wire>>
alarm == <<a_offline, a_phase, a_active, a_index, a_since, a_lamp, a_flashes,
           a_beeps, a_named, a_passed>>
allVars == <<part, vars, manager, alarm>>

OneGroup == [m \in Benmo |-> "group1"]
Loops == [m \in Motors |-> "loop"]
Currents == [m \in Motors |-> "current"]

----------------------------------------------------------------------------
(* Two motors of one frame, whose commands live for different times; two    *)
(* buses, for a fault between their flushes.                                *)
TwoMotors == [buses |-> 1, frames |-> 1, slots |-> {1, 2}, ttl |-> <<1, 2>>, slack |-> 1]
TwoBuses == [buses |-> 2, frames |-> 1, slots |-> {1}, ttl |-> <<1>>, slack |-> 0]

Sharing == INSTANCE CanManager WITH
    BusCount <- SharingConf.buses, FrameCount <- SharingConf.frames,
    Slots <- SharingConf.slots, Ttl <- SharingConf.ttl, Slack <- SharingConf.slack,
    slot <- c_slot, pending <- c_pending, cycle <- c_cycle, armed <- c_armed,
    services <- c_services, mailbox <- c_mailbox, wire <- c_wire

Faulty == INSTANCE CanManager WITH
    BusCount <- FaultyConf.buses, FrameCount <- FaultyConf.frames,
    Slots <- FaultyConf.slots, Ttl <- FaultyConf.ttl, Slack <- FaultyConf.slack,
    slot <- c_slot, pending <- c_pending, cycle <- c_cycle, armed <- c_armed,
    services <- c_services, mailbox <- c_mailbox, wire <- c_wire

(* The group of motor 0 outlasts the shortest one, the others fit in it,    *)
(* motor 2 has no id to be flashed.                                         *)
Alarms == [
    alarm |-> [count |-> 4,
               ids |-> [m \in 0..3 |-> CASE m = 0 -> 6 [] m = 1 -> 1 [] m = 2 -> 0
                                         [] m = 3 -> 4],
               bus |-> [m \in 0..3 |-> IF m \in {0, 2} THEN 2 ELSE 1],
               max_id |-> 16, pulse |-> 3, min_group |-> 30, separator |-> 12,
               max_gap |-> 4]]

Alarm(p) == INSTANCE MotorAlarm WITH
    Count <- AlarmConf[p].count, OfflineAlarmId <- AlarmConf[p].ids,
    BusNumber <- AlarmConf[p].bus, MaxAlarmId <- AlarmConf[p].max_id,
    Pulse <- AlarmConf[p].pulse, MinGroup <- AlarmConf[p].min_group,
    Separator <- AlarmConf[p].separator, MaxGap <- AlarmConf[p].max_gap,
    offline <- a_offline, phase <- a_phase, active_motor_id <- a_active,
    s_next_index <- a_index, since <- a_since, lamp <- a_lamp,
    flashes <- a_flashes, beeps <- a_beeps, named <- a_named,
    passed <- a_passed

ASSUME ManagersOK == Sharing!ManagerAssumption /\ Faulty!ManagerAssumption
ASSUME AlarmsOK == \A p \in DOMAIN AlarmConf : Alarm(p)!AlarmAssumption

-----------------------------------------------------------------------------
(* A component that does not run stays in an initial state. *)
AllInit ==
    /\ part \in Parts
    /\ Init
    /\ IF part = "faulty" THEN Faulty!Init ELSE Sharing!Init
    /\ \E p \in DOMAIN AlarmConf :
          /\ part \in DOMAIN AlarmConf => p = part
          /\ Alarm(p)!Init

AllNext ==
    \/ part = "vendor"  /\ Next         /\ UNCHANGED <<part, manager, alarm>>
    \/ part = "sharing" /\ Sharing!Next /\ UNCHANGED <<part, vars, alarm>>
    \/ part = "faulty"  /\ Faulty!Next  /\ UNCHANGED <<part, vars, alarm>>
    \/ /\ \E p \in DOMAIN AlarmConf : part = p /\ Alarm(p)!Next
       /\ UNCHANGED <<part, vars, manager>>

AllSpec == AllInit /\ [][AllNext]_allVars

(* CanManager!ManagerInv: nothing leaves late, nothing is kept over a fault. *)
ManagerInv ==
    /\ part = "sharing" => Sharing!ManagerInv
    /\ part = "faulty"  => Faulty!ManagerInv

(* CanPort!Next: the manager uses the driver as the driver's promise allows. *)
ManagerUsesPort ==
    [][part = "faulty" => [Faulty!Port!Next]_Faulty!Port!vars]_manager

(* MotorAlarm!AlarmInv: the motors that are offline are named rightly.      *)
AlarmInv == \A p \in DOMAIN AlarmConf : part = p => Alarm(p)!AlarmInv
================================================================================
