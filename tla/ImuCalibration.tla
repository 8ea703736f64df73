--------------------------- MODULE ImuCalibration ---------------------------
(***************************************************************************)
(* The calibration of the inertial unit of the gimbal at power-up          *)
(* (gyro_calibrate, modules/imu/gyro_data.c): up to MaxRetry attempts to   *)
(* average Samples readings of a robot that stands still.  The main        *)
(* program waits for its end before it starts anything else; what it       *)
(* leaves in gyro_offset and accel_scale every later pass uses.            *)
(*                                                                         *)
(* Abstraction.  One axis of the gyroscope and the norm of the             *)
(* acceleration, in whole units.  A reading takes as long as it takes:     *)
(* elapsed grows by any step up to MaxStep and is kept up to the timeout.  *)
(* An average is kept as the sum it is divided from.                       *)
(***************************************************************************)
EXTENDS Integers, FiniteSetsExt

CONSTANTS
    Samples,             \* CALIB_SAMPLES
    CheckEvery,          \* samples between two looks for movement (500)
    MaxRetry,            \* MAX_RETRY
    Timeout,             \* CALIB_TIMEOUT_MS
    MaxStep,             \* longest time of one sample
    Gravity,             \* GRAVITY_ACCEL
    Norms, Rates,        \* the readings
    NormDiff, RateDiff,  \* largest spread of a robot that stands still
    NormError,           \* largest distance of the mean norm from Gravity
    OffsetLimit          \* largest mean rate

(* What MCMotion assumes of each instance. *)
CalibrationAssumption ==
    /\ {Samples, CheckEvery, MaxRetry, Gravity} \subseteq Nat \ {0}
    /\ CheckEvery <= Samples
    /\ {Timeout, MaxStep, NormDiff, RateDiff, NormError, OffsetLimit} \subseteq Nat
    /\ Norms \subseteq Nat /\ Rates \subseteq Int

VARIABLES
    pc,                  \* "head" or "tail" of the loop, "sample", or "done"
    cali_count,
    elapsed,             \* time since start_time, kept up to Timeout + 1
    taken,               \* samples of this attempt
    g_norm, gyro_offset, \* sums of this attempt, or means times Samples
    norms, rates,        \* the smallest and largest value of this attempt
    calibrated,
    accel_scale          \* the divisor of GRAVITY_ACCEL, times Samples; for
                         \*   1.0f that is the true gravity

vars == <<pc, cali_count, elapsed, taken, g_norm, gyro_offset, norms, rates,
          calibrated, accel_scale>>

Magnitude(x) == IF x < 0 THEN -x ELSE x
Sum == Samples * Gravity               \* of a perfect attempt
Unset == [low |-> 0, high |-> 0]

Moved ==
    \/ norms.high - norms.low > NormDiff
    \/ rates.high - rates.low > RateDiff

(* gNorm_max and gNorm_min, gyro_max and gyro_min. *)
Widened(range, x) ==
    IF taken = 0 THEN [low |-> x, high |-> x]
    ELSE [low |-> Min({range.low, x}), high |-> Max({range.high, x})]

Waits(d) == elapsed' = Min({elapsed + d, Timeout + 1})

Init ==
    /\ pc = "head" /\ cali_count = 0 /\ elapsed = 0 /\ taken = 0
    /\ g_norm = Sum /\ gyro_offset = 0
    /\ norms = Unset /\ rates = Unset
    /\ calibrated = FALSE /\ accel_scale = Sum

(***************************************************************************)
(* The loop.                                                               *)
(***************************************************************************)
Attempt ==
    /\ pc = "head" /\ elapsed <= Timeout /\ cali_count < MaxRetry
    /\ pc' = "sample" /\ taken' = 0 /\ g_norm' = 0 /\ gyro_offset' = 0
    /\ \E d \in 0..MaxStep : Waits(IF cali_count > 0 THEN d ELSE 0)
    /\ UNCHANGED <<cali_count, norms, rates, calibrated, accel_scale>>

(* One reading; every CheckEvery of them a look whether the robot moved,   *)
(* which ends the attempt.                                                 *)
Sample ==
    /\ pc = "sample" /\ taken < Samples
    /\ \E n \in Norms, w \in Rates :
        /\ g_norm' = g_norm + n /\ gyro_offset' = gyro_offset + w
        /\ norms' = Widened(norms, n) /\ rates' = Widened(rates, w)
    /\ taken' = taken + 1
    /\ \E d \in 0..MaxStep : Waits(d)
    /\ pc' = IF taken' % CheckEvery = 0 /\ Moved' THEN "tail" ELSE "sample"
    /\ UNCHANGED <<cali_count, calibrated, accel_scale>>

(* The condition of the loop, with the attempt counted. *)
Rejected ==
    \/ Moved
    \/ Magnitude(g_norm - Sum) > NormError * Samples
    \/ Magnitude(gyro_offset) > OffsetLimit * Samples

(* What follows the loop: the attempt that ended it counts unless the      *)
(* attempts or the time were used up.                                      *)
Accepted == elapsed <= Timeout /\ cali_count' < MaxRetry

(* Mutant: an attempt that was cut short is counted as any other. *)
EndOfAttempt_Unchecked ==
    /\ pc = "tail" \/ (pc = "sample" /\ taken = Samples)
    /\ cali_count' = cali_count + 1
    /\ pc' = IF Magnitude(gyro_offset) > OffsetLimit * Samples THEN "head" ELSE "done"
    /\ calibrated' = (pc' = "done" /\ Accepted)
    /\ accel_scale' = IF calibrated' THEN g_norm ELSE accel_scale
    /\ UNCHANGED <<elapsed, taken, g_norm, gyro_offset, norms, rates>>

EndOfAttempt ==
    /\ pc = "tail" \/ (pc = "sample" /\ taken = Samples)
    /\ cali_count' = cali_count + 1
    /\ pc' = IF Rejected THEN "head" ELSE "done"
    /\ calibrated' = (pc' = "done" /\ Accepted)
    /\ accel_scale' = IF calibrated' THEN g_norm ELSE accel_scale
    /\ UNCHANGED <<elapsed, taken, g_norm, gyro_offset, norms, rates>>

(* The attempts are used up: what the last one left is used. *)
UseLast ==
    /\ pc = "head" /\ cali_count >= MaxRetry
    /\ pc' = "done" /\ calibrated' = TRUE /\ accel_scale' = g_norm
    /\ UNCHANGED <<cali_count, elapsed, taken, g_norm, gyro_offset, norms, rates>>

(* The time is used up. *)
UseDefaults ==
    /\ pc = "head" /\ elapsed > Timeout /\ cali_count < MaxRetry
    /\ pc' = "done" /\ calibrated' = FALSE
    /\ gyro_offset' = 0 /\ g_norm' = Sum /\ accel_scale' = Sum
    /\ UNCHANGED <<cali_count, elapsed, taken, norms, rates>>

Next == Attempt \/ Sample \/ EndOfAttempt \/ UseLast \/ UseDefaults

Spec == Init /\ [][Next]_vars

(***************************************************************************)
(* Properties.                                                             *)
(***************************************************************************)
(* The state has the shape its declarations give it. *)
TypeOK ==
    /\ pc \in {"head", "sample", "tail", "done"}
    /\ cali_count \in 0..MaxRetry /\ elapsed \in 0..(Timeout + 1)
    /\ taken \in 0..Samples
    /\ {g_norm, accel_scale} \subseteq Nat /\ gyro_offset \in Int
    /\ {norms.low, norms.high} \subseteq Norms \union {0}
    /\ {rates.low, rates.high} \subseteq Rates \union {0}
    /\ calibrated \in BOOLEAN

(* When attempts are left at the end, what is used is the mean of a whole  *)
(* attempt of a robot that stood still: no reading was far from the rate   *)
(* that is subtracted, nor from the norm that is divided by.               *)
UsedIsMeasured ==
    pc = "done" /\ calibrated /\ cali_count < MaxRetry =>
        /\ taken = Samples /\ accel_scale = g_norm
        /\ \A w \in {rates.low, rates.high} :
              Magnitude(w * Samples - gyro_offset) <= RateDiff * Samples
        /\ \A n \in {norms.low, norms.high} :
              Magnitude(n * Samples - g_norm) <= NormDiff * Samples

(* Without success before the time is used up, no value of a rejected      *)
(* attempt is left in use.                                                 *)
DefaultsAreWhole ==
    pc = "done" /\ ~calibrated =>
        \/ gyro_offset = 0 /\ accel_scale = Sum
        \/ ~Rejected /\ taken = Samples

(* The calibration in every state: what is used was measured at rest, or is *)
(* the default.                                                            *)
CalibrationInv ==
    /\ TypeOK
    /\ UsedIsMeasured
    /\ DefaultsAreWhole

(* Does not hold.  "Using last attempt values" (gyro_data.c:141): what is used is a mean   *)
(* of CALIB_SAMPLES readings (:102, "collects 2000 samples"), not the part *)
(* of the sum that was there when movement ended the attempt.              *)
LastAttemptIsWhole ==
    pc = "done" /\ calibrated => taken = Samples

(* Does not hold.  "If the loop was left with success, set the flag" (gyro_data.c:261): an *)
(* attempt in time that nothing rejects leaves calibrated set.             *)
SuccessIsCounted ==
    pc = "done" /\ elapsed <= Timeout /\ ~Rejected /\ taken = Samples
        => calibrated

=============================================================================
