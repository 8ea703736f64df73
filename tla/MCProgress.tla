------------------------------ MODULE MCProgress -------------------------------
(* What must happen in the end, one component at a time: they share no      *)
(* state here, and a behaviour is of the component that `part` names.  The  *)
(* probe of the gimbal monitor is GimbalMonitor itself; the others have     *)
(* variables of their own, which mean nothing (0) while another runs.       *)
EXTENDS GimbalMonitor

CONSTANTS Parts, LineErrors, wheel1, NoMotor

VARIABLES
    part,
    f_last_cmd, f_handler, f_seen, f_age, f_current, f_recovery,
    f_turntable, f_shooter, f_output, f_threshold, f_armed, f_sinceControl,
    f_pressing, f_reversals, f_reversedFor,
    g_booting, g_age, g_inside, g_steady, g_captured, g_limitFault, g_ref,
    g_mode, g_stop, g_yaw, g_pitch, g_frame, g_taken, g_on, g_past,
    c_slot, c_pending, c_cycle, c_armed, c_services, c_mailbox, c_wire,
    a_offline, a_phase, a_active, a_index, a_since, a_lamp, a_flashes,
    a_beeps, a_named, a_passed,
    q_queue, q_head, q_tail, q_latest, q_latest_topic, q_diagnostics,
    q_dispatcher, q_hand, q_received, q_atStart,
    w_line, w_damage, w_errors, w_clean, w_on, w_rxbuf, w_parser, w_data

feed == <<f_last_cmd, f_handler, f_seen, f_age, f_current, f_recovery,
          f_turntable, f_shooter, f_output, f_threshold, f_armed,
          f_sinceControl, f_pressing, f_reversals, f_reversedFor>>
gimbal == <<g_booting, g_age, g_inside, g_steady, g_captured, g_limitFault,
            g_ref, g_mode, g_stop, g_yaw, g_pitch, g_frame, g_taken, g_on,
            g_past>>
manager == <<c_slot, c_pending, c_cycle, c_armed, c_services, c_mailbox,
             c_wire>>
alarm == <<a_offline, a_phase, a_active, a_index, a_since, a_lamp,
           a_flashes, a_beeps, a_named, a_passed>>
center == <<q_queue, q_head, q_tail, q_latest, q_latest_topic,
            q_diagnostics, q_dispatcher, q_hand, q_received, q_atStart>>
link == <<w_line, w_damage, w_errors, w_clean, w_on, w_rxbuf, w_parser,
          w_data>>

allVars == <<part, vars, feed, gimbal, manager, alarm,
             center, link>>

----------------------------------------------------------------------------
Feed == INSTANCE ShooterFeed WITH
    Wheels <- {wheel1}, Timeout <- 1, StallTime <- 2, ReverseTime <- 2,
    FeedSteps <- 2, WheelSteps <- 1, MaxGap <- 2, MaxDelay <- 1,
    s_last_cmd <- f_last_cmd, handler <- f_handler, seen <- f_seen,
    age <- f_age, current <- f_current, recovery <- f_recovery,
    ramped_turntable <- f_turntable, ramped_shooter <- f_shooter,
    output <- f_output, threshold <- f_threshold, armed <- f_armed,
    sinceControl <- f_sinceControl, pressing <- f_pressing,
    reversals <- f_reversals, reversedFor <- f_reversedFor

Hold == INSTANCE GimbalHold WITH
    FreshMs <- 2, StableMs <- 3, GapMs <- 1, SettleMs <- 1, MaxGap <- 2,
    Frames <- 2, Commands <- {"disabled", "rest"}, News <- {FALSE},
    Slows <- {TRUE},
    booting <- g_booting, age <- g_age, inside <- g_inside,
    steady <- g_steady, captured <- g_captured, limitFault <- g_limitFault,
    ref <- g_ref, mode <- g_mode, stop <- g_stop, yaw <- g_yaw,
    pitch <- g_pitch, frame <- g_frame, taken <- g_taken, on <- g_on,
    past <- g_past

(* Two motors of one frame, whose commands live for different times. *)
Manager == INSTANCE CanManager WITH
    BusCount <- 1, FrameCount <- 1, Slots <- {1, 2}, Ttl <- <<1, 2>>,
    Slack <- 0,
    slot <- c_slot, pending <- c_pending, cycle <- c_cycle, armed <- c_armed,
    services <- c_services, mailbox <- c_mailbox, wire <- c_wire

(* The group of motor 0 outlasts the shortest one; motor 2 has no id. *)
Alarm == INSTANCE MotorAlarm WITH
    Count <- 3, OfflineAlarmId <- [m \in 0..2 |-> <<6, 1, 0>>[m + 1]],
    BusNumber <- [m \in 0..2 |-> <<2, 1, 2>>[m + 1]], MaxAlarmId <- 16,
    Pulse <- 2, MinGroup <- 8, Separator <- 3, MaxGap <- 0,
    offline <- a_offline, phase <- a_phase, active_motor_id <- a_active,
    s_next_index <- a_index, since <- a_since, lamp <- a_lamp,
    flashes <- a_flashes, beeps <- a_beeps, named <- a_named,
    passed <- a_passed

(* Raw frames flood the ring while a command may be switched to a slot. *)
Flood == INSTANCE MessageCenter WITH
    PlainTopics <- {"can_rx", "gimbal_cmd"}, KeyedUse <- {},
    TopicUse <- {[topic |-> "gimbal_cmd", phase |-> "CONTROL"]},
    QueueLen <- 2, LatestCapacity <- 1, DispatchBudget <- 2,
    CounterModulus <- 2, MaxPublish <- 4,
    mc_queue <- q_queue, mc_head <- q_head, mc_tail <- q_tail,
    mc_latest <- q_latest, mc_latest_topic <- q_latest_topic,
    mc_diagnostics <- q_diagnostics, dispatcher <- q_dispatcher,
    hand <- q_hand, received <- q_received, atStart <- q_atStart

(* The payload and the sum of a frame of the chassis unit may read 0x55. *)
Line == INSTANCE WitLink WITH
    Kinds <- <<"gyro", "angle">>, FrameLen <- 4,
    Looks <- {<<1, 3>>, <<1, 4>>}, Bursts <- 2, MaxDamage <- 1,
    MaxErrors <- LineErrors,
    line <- w_line, damage <- w_damage, errors <- w_errors, clean <- w_clean,
    on <- w_on, wt61c_rxbuf <- w_rxbuf, s_parser <- w_parser, s_data <- w_data

ASSUME Hold!HoldAssumption
ASSUME Manager!ManagerAssumption
ASSUME Alarm!AlarmAssumption
ASSUME Line!LinkAssumption

----------------------------------------------------------------------------
(* A component that does not run stays in an initial state. *)
AllInit ==
    /\ part \in Parts
    /\ Init
    /\ part # "feed" => f_armed = TRUE
    /\ Feed!Init
    /\ Hold!Init
    /\ Manager!Init
    /\ Alarm!Init
    /\ Flood!Init
    /\ part # "line" => w_line = Line!Burst(1)
    /\ Line!Init

AllNext ==
    \/ /\ part = "monitor" /\ Next
       /\ UNCHANGED <<part, feed, gimbal, manager, alarm, center, link>>
    \/ /\ part = "feed" /\ Feed!Next
       /\ UNCHANGED <<part, vars, gimbal, manager, alarm, center, link>>
    \/ /\ part = "hold" /\ Hold!Next
       /\ UNCHANGED <<part, vars, feed, manager, alarm, center, link>>
    \/ /\ part = "manager" /\ Manager!Next
       /\ UNCHANGED <<part, vars, feed, gimbal, alarm, center, link>>
    \/ /\ part = "alarm" /\ Alarm!InTime
       /\ UNCHANGED <<part, vars, feed, gimbal, manager, center, link>>
    \/ /\ part = "flood" /\ Flood!Next
       /\ UNCHANGED <<part, vars, feed, gimbal, manager, alarm, link>>
    \/ /\ part = "line" /\ Line!Next
       /\ UNCHANGED <<part, vars, feed, gimbal, manager, alarm, center>>

(* The fairness of the components' own specifications. *)
AllSpec ==
    /\ AllInit /\ [][AllNext]_allVars
    /\ WF_feed(part = "feed" /\ Feed!Control) /\ WF_feed(part = "feed" /\ Feed!Tick)
    /\ WF_gimbal(part = "hold" /\ Hold!Next) /\ WF_gimbal(part = "hold" /\ Hold!Align)
    /\ WF_manager(part = "manager" /\ Manager!Control)
    /\ WF_manager(part = "manager" /\ Manager!Tick)
    /\ SF_manager(part = "manager" /\ Manager!FlushAccepted(1, 1))
    /\ WF_manager(part = "manager" /\ \E sent \in BOOLEAN : Manager!Leaves(1, 1, sent))
    /\ SF_manager(part = "manager" /\ Manager!Leaves(1, 1, TRUE))
    /\ WF_alarm(part = "alarm" /\ Alarm!InTime)
    /\ WF_center(part = "flood" /\ Flood!Dispatch)
    /\ WF_link(part = "line" /\ Line!Byte) /\ WF_link(part = "line" /\ Line!Event)

(* ShooterFeed!JamIsGivenUp: a lasting jam ends with the feed at rest.      *)
JamIsGivenUp == part = "feed" => Feed!JamIsGivenUp

(* GimbalHold!AlignsAgain: a gimbal that is heard is driven in the end.     *)
AlignsAgain == part = "hold" => Hold!AlignsAgain

(* CanManager!SilenceStops: a motor whose commands stop is sent zero.       *)
SilenceStops == part = "manager" => Manager!SilenceStops

(* MotorAlarm!NamedAgain: a motor that stays offline is named again.        *)
NamedAgain == part = "alarm" => Alarm!NamedAgain

(* MessageCenter!DispatchReturns, PendingServed: publications that do not   *)
(* end neither keep a dispatch from returning nor a command from its turn.  *)
FloodServed ==
    part = "flood" => Flood!DispatchReturns /\ Flood!PendingServed

(* WitLink!KeepsUp: the unit's data are all of one burst again and again.   *)
KeepsUp == part = "line" => Line!KeepsUp
================================================================================
