------------------------------- MODULE MCMotion --------------------------------
(* What moves the chassis and what measures the robot, one component at a   *)
(* time: they share no state here.  `part` says which runs.  The chassis    *)
(* controller is ChassisControl itself; the others have variables of their  *)
(* own, which mean nothing (0) while another component runs.  Their         *)
(* configurations are constants, so that MotionProofs speaks of all.        *)
EXTENDS ChassisControl

CONSTANTS
    Parts,              \* the parts a run looks at
    SentryConf,         \* the configurations of SentryChassis, by part
    OmniConf,           \* of OmniKinematics
    CalibrationConf,    \* of ImuCalibration
    LineConf,           \* the one of WitLink
    PassConf,           \* the one of ImuLink
    d1, d2, d3, g1

VARIABLES
    part,
    t_phase, t_waited, t_target, t_raw, t_steer_age, t_direction, t_seen,
    t_age, t_current, t_steer_current, t_gap, t_armed, t_asked, t_moved,
    o_geometry, o_configured, o_input, o_status, o_output,
    c_pc, c_count, c_elapsed, c_taken, c_g_norm, c_offset, c_norms, c_rates,
    c_calibrated, c_accel_scale,
    w_line, w_damage, w_errors, w_clean, w_on, w_rxbuf, w_parser, w_data,
    i_pc, i_initialized, i_copied, i_published, i_held

sentry == <<t_phase, t_waited, t_target, t_raw, t_steer_age, t_direction,
            t_seen, t_age, t_current, t_steer_current, t_gap, t_armed,
            t_asked, t_moved>>
omni == <<o_geometry, o_configured, o_input, o_status, o_output>>
calibration == <<c_pc, c_count, c_elapsed, c_taken, c_g_norm, c_offset,
                 c_norms, c_rates, c_calibrated, c_accel_scale>>
link == <<w_line, w_damage, w_errors, w_clean, w_on, w_rxbuf, w_parser,
          w_data>>
task == <<i_pc, i_initialized, i_copied, i_published, i_held>>
allVars == <<part, vars, sentry, omni, calibration, link, task>>

----------------------------------------------------------------------------
(* The sentry: its modules turn to every angle of the stick; its reports    *)
(* come late or not at all.                                                 *)
Sentries ==
    [turning |->
       [Encoder |-> 8, Initial |-> <<1, 6>>, Threshold |-> 0, Rounds |-> 2,
        Drives |-> {d1}, Timeout |-> 1, MaxGap |-> 0, MaxDelay |-> 0,
        StickAngles |-> -4..4, Reported |-> {0}],
     reporting |->
       [Encoder |-> 4, Initial |-> <<1, 2>>, Threshold |-> 0, Rounds |-> 2,
        Drives |-> {d1}, Timeout |-> 2, MaxGap |-> 1, MaxDelay |-> 1,
        StickAngles |-> {0}, Reported |-> {0}]]

Sentry(p) == INSTANCE SentryChassis WITH
    Encoder <- SentryConf[p].Encoder, Initial <- SentryConf[p].Initial,
    Threshold <- SentryConf[p].Threshold, Rounds <- SentryConf[p].Rounds,
    Drives <- SentryConf[p].Drives, Timeout <- SentryConf[p].Timeout,
    MaxGap <- SentryConf[p].MaxGap, MaxDelay <- SentryConf[p].MaxDelay,
    StickAngles <- SentryConf[p].StickAngles,
    Reported <- SentryConf[p].Reported,
    phase <- t_phase, waited <- t_waited, steer_target_angles <- t_target,
    angle_raw <- t_raw, steer_age <- t_steer_age,
    drive_direction <- t_direction, seen <- t_seen, age <- t_age,
    current <- t_current, steer_current <- t_steer_current, gap <- t_gap,
    armed <- t_armed, asked <- t_asked, moved <- t_moved

(* Wheels at the sides of a square, half of them driven along it, and one   *)
(* whose drive direction is not valid.                                      *)
Wheel(x, y, tx, ty, gear) ==
    [x |-> x, y |-> y, tx |-> tx, ty |-> ty, gear |-> gear]
SquareWheels ==
    {Wheel(1, 0, 0, 1, 1), Wheel(-1, 0, 0, 1, 2), Wheel(0, 1, -1, 0, 1),
     Wheel(0, -1, 1, 0, 1), Wheel(0, 0, 1, 0, 1), Wheel(1, 0, 1, 1, 1)}
Pairs == {<<0, 0>>, <<0, -5>>, <<-3, 4>>, <<-6, -8>>, <<8, -6>>}

Omnis ==
    [omni |->
       [Wheels |-> SquareWheels, DriveSquare |-> 1, One |-> 5,
        Translations |-> Pairs, Rotations |-> {0, -3, 40},
        MaxTranslation |-> 2, MaxRotation |-> 1, MaxDriveSpeed |-> 3]]

Kinematics(p) == INSTANCE OmniKinematics WITH
    Wheels <- OmniConf[p].Wheels, DriveSquare <- OmniConf[p].DriveSquare,
    One <- OmniConf[p].One, Translations <- OmniConf[p].Translations,
    Rotations <- OmniConf[p].Rotations,
    MaxTranslation <- OmniConf[p].MaxTranslation,
    MaxRotation <- OmniConf[p].MaxRotation,
    MaxDriveSpeed <- OmniConf[p].MaxDriveSpeed,
    geometry <- o_geometry, configured <- o_configured, input <- o_input,
    status <- o_status, output <- o_output

(* Gravity is 10: readings of a robot at rest, of one that is pushed, and   *)
(* of a sensor that does not answer (0).                                    *)
Calibrations ==
    [calibration |->
       [Samples |-> 4, CheckEvery |-> 2, MaxRetry |-> 3, Timeout |-> 6,
        MaxStep |-> 1, Gravity |-> 10, Norms |-> {0, 10, 12},
        Rates |-> {0, 1, 4}, NormDiff |-> 1, RateDiff |-> 2, NormError |-> 1,
        OffsetLimit |-> 1]]

Calibration(p) == INSTANCE ImuCalibration WITH
    Samples <- CalibrationConf[p].Samples,
    CheckEvery <- CalibrationConf[p].CheckEvery,
    MaxRetry <- CalibrationConf[p].MaxRetry,
    Timeout <- CalibrationConf[p].Timeout,
    MaxStep <- CalibrationConf[p].MaxStep,
    Gravity <- CalibrationConf[p].Gravity, Norms <- CalibrationConf[p].Norms,
    Rates <- CalibrationConf[p].Rates, NormDiff <- CalibrationConf[p].NormDiff,
    RateDiff <- CalibrationConf[p].RateDiff,
    NormError <- CalibrationConf[p].NormError,
    OffsetLimit <- CalibrationConf[p].OffsetLimit,
    pc <- c_pc, cali_count <- c_count, elapsed <- c_elapsed, taken <- c_taken,
    g_norm <- c_g_norm, gyro_offset <- c_offset, norms <- c_norms,
    rates <- c_rates, calibrated <- c_calibrated, accel_scale <- c_accel_scale

(* Frames of four bytes: header, id, one byte of payload, sum.  The line    *)
(* damages bytes; a burst of three frames is told from the two before it.   *)
OneLine ==
    [Kinds |-> <<"acc", "gyro", "angle">>, FrameLen |-> 4, Bursts |-> 3,
     MaxDamage |-> 2, MaxErrors |-> 1]

(* No byte of a payload reads 0x55.                                         *)
Line == INSTANCE WitLink WITH
    Kinds <- LineConf.Kinds, FrameLen <- LineConf.FrameLen, Looks <- {},
    Bursts <- LineConf.Bursts, MaxDamage <- LineConf.MaxDamage,
    MaxErrors <- LineConf.MaxErrors,
    line <- w_line, damage <- w_damage, errors <- w_errors, clean <- w_clean,
    on <- w_on, wt61c_rxbuf <- w_rxbuf, s_parser <- w_parser, s_data <- w_data

(* The pass that copies: two fields of one kind and one of the other.       *)
OnePass ==
    [Kinds |-> <<"gyro", "angle">>, FrameLen |-> 3, Looks |-> {},
     Bursts |-> 2, MaxDamage |-> 0, MaxErrors |-> 0,
     Fields |-> <<"angle", "angle", "gyro">>]

Pass == INSTANCE ImuLink WITH
    Kinds <- PassConf.Kinds, FrameLen <- PassConf.FrameLen,
    Looks <- PassConf.Looks, Bursts <- PassConf.Bursts,
    MaxDamage <- PassConf.MaxDamage, MaxErrors <- PassConf.MaxErrors,
    Fields <- PassConf.Fields,
    line <- w_line, damage <- w_damage, errors <- w_errors, clean <- w_clean,
    on <- w_on, wt61c_rxbuf <- w_rxbuf, s_parser <- w_parser, s_data <- w_data,
    pc <- i_pc, initialized <- i_initialized, s_sensor_data <- i_copied,
    published <- i_published, held <- i_held

ASSUME SentriesOK == \A p \in DOMAIN SentryConf : Sentry(p)!SentryAssumption
ASSUME OmnisOK == \A p \in DOMAIN OmniConf : Kinematics(p)!OmniAssumption
ASSUME CalibrationsOK ==
    \A p \in DOMAIN CalibrationConf : Calibration(p)!CalibrationAssumption
ASSUME LineOK == Line!LinkAssumption
ASSUME PassOK == Pass!LinkAssumption /\ Pass!FieldsAssumption

----------------------------------------------------------------------------
(* Each part starts in an initial state of its component. *)
SentryInit ==
    IF part \in DOMAIN SentryConf
    THEN \E p \in DOMAIN SentryConf : part = p /\ Sentry(p)!Init
    ELSE t_phase = 0 /\ t_waited = 0 /\ t_target = 0 /\ t_raw = 0 /\
         t_steer_age = 0 /\ t_direction = 0 /\ t_seen = 0 /\ t_age = 0 /\
         t_current = 0 /\ t_steer_current = 0 /\ t_gap = 0 /\ t_armed = 0
         /\ t_asked = 0 /\ t_moved = 0

OmniInit ==
    IF part \in DOMAIN OmniConf
    THEN \E p \in DOMAIN OmniConf : part = p /\ Kinematics(p)!Init
    ELSE o_geometry = 0 /\ o_configured = 0 /\ o_input = 0 /\ o_status = 0
         /\ o_output = 0

CalibrationInit ==
    IF part \in DOMAIN CalibrationConf
    THEN \E p \in DOMAIN CalibrationConf : part = p /\ Calibration(p)!Init
    ELSE c_pc = 0 /\ c_count = 0 /\ c_elapsed = 0 /\ c_taken = 0 /\
         c_g_norm = 0 /\ c_offset = 0 /\ c_norms = 0 /\ c_rates = 0 /\
         c_calibrated = 0 /\ c_accel_scale = 0

(* The pass starts with its link.                                           *)
LinkInit ==
    IF part = "line" THEN Line!Init
    ELSE part # "pass" =>
         w_line = 0 /\ w_damage = 0 /\ w_errors = 0 /\ w_clean = 0 /\
         w_on = 0 /\ w_rxbuf = 0 /\ w_parser = 0 /\ w_data = 0

PassInit ==
    IF part = "pass" THEN Pass!ImuInit
    ELSE i_pc = 0 /\ i_initialized = 0 /\ i_copied = 0 /\ i_published = 0
         /\ i_held = 0

AllInit ==
    /\ part \in Parts
    /\ part # "chassis" => found = <<>> /\ layout = [w \in Slots |-> d1]
    /\ Init
    /\ SentryInit /\ OmniInit /\ CalibrationInit /\ PassInit /\ LinkInit

AllNext ==
    \/ /\ part = "chassis" /\ Next
       /\ UNCHANGED <<part, sentry, omni, calibration, link, task>>
    \/ \E p \in DOMAIN SentryConf :
          /\ part = p /\ Sentry(p)!Next
          /\ UNCHANGED <<part, vars, omni, calibration, link, task>>
    \/ \E p \in DOMAIN OmniConf :
          /\ part = p /\ Kinematics(p)!Next
          /\ UNCHANGED <<part, vars, sentry, calibration, link, task>>
    \/ \E p \in DOMAIN CalibrationConf :
          /\ part = p /\ Calibration(p)!Next
          /\ UNCHANGED <<part, vars, sentry, omni, link, task>>
    \/ /\ part = "line" /\ Line!Next
       /\ UNCHANGED <<part, vars, sentry, omni, calibration, task>>
    \/ /\ part = "pass" /\ Pass!ImuNext
       /\ UNCHANGED <<part, vars, sentry, omni, calibration>>

AllSpec == AllInit /\ [][AllNext]_allVars

(* SentryChassis!SentryInv: the sentry goes where it is asked to go, with   *)
(* drive motors that are heard.                                             *)
SentryInv == \A p \in DOMAIN SentryConf : part = p => Sentry(p)!SentryInv

(* SentryChassis!TurnsAtMostQuarter: a module turns to the nearer of its    *)
(* two angles.                                                              *)
SentryTurns ==
    [][\A p \in DOMAIN SentryConf :
          part = p => Sentry(p)!TurnsAtMostQuarter]_sentry

(* OmniKinematics!OmniInv: the wheels serve the motion that was asked for.  *)
OmniInv == \A p \in DOMAIN OmniConf : part = p => Kinematics(p)!OmniInv

(* ImuCalibration!CalibrationInv: what is used was measured at rest.        *)
CalibrationInv ==
    \A p \in DOMAIN CalibrationConf : part = p => Calibration(p)!CalibrationInv

(* ImuLink!PublishedIsCurrent: what a pass publishes is of that pass.       *)
PassIsCurrent == part = "pass" => Pass!PublishedIsCurrent

(* WitLink!LinkInv, and the pass: the parser finds the frames again, and    *)
(* what a pass publishes is of that pass.                                   *)
ImuInv ==
    /\ part = "line" => Line!LinkInv
    /\ PassIsCurrent

----------------------------------------------------------------------------
(* What the repository says and these components do not do; none of it      *)
(* holds, and a configuration that checks one of them shows how.            *)

(* ImuCalibration!LastAttemptIsWhole: what is used is a mean of all samples. *)
LastAttemptIsWhole ==
    \A p \in DOMAIN CalibrationConf :
        part = p => Calibration(p)!LastAttemptIsWhole

(* ImuCalibration!SuccessIsCounted: a third attempt may succeed.            *)
SuccessIsCounted ==
    \A p \in DOMAIN CalibrationConf : part = p => Calibration(p)!SuccessIsCounted

(* SentryChassis!SteeredWithReports: a module that is driven has reported.  *)
SteeredWithReports ==
    part = "reporting" => Sentry("reporting")!SteeredWithReports

(* SentryChassis!WaitMovesSteers: the wait at start-up moves the modules.   *)
WaitMovesSteers == part = "reporting" => Sentry("reporting")!WaitMovesSteers

(* OmniKinematics!RotationIsLimited: the body turns no faster than it may.  *)
RotationIsLimited ==
    \A p \in DOMAIN OmniConf : part = p => Kinematics(p)!RotationIsLimited
================================================================================
