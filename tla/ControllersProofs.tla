-------------------------- MODULE ControllersProofs --------------------------
(***************************************************************************)
(* Proofs about the controllers, for any constants.                        *)
(*                                                                         *)
(* The shooter: any wheels, times and speeds.  The inductive invariant     *)
(* relates the recovery to what the histories count: a request that has    *)
(* reversed has attempted, an observation is no longer than the feed has   *)
(* been pressing, and a feed that runs backwards does so because of a      *)
(* reversal that is not over.  The router and the gimbal: every            *)
(* configuration that satisfies their assumptions.                         *)
(***************************************************************************)
EXTENDS MCControllers, TLAPS

Recoveries == [state : {"monitoring", "reversing", "blocked"},
               attempted : BOOLEAN, active : BOOLEAN, since : 0 .. StallTime,
               check : 0 .. Timeout + 1, reverse : 0 .. ReverseTime]

Outputs == [feed : {"reverse", "zero", "forward"}, wheels : {"zero", "loop"}]

(* Without a request nothing is observed, reversed or counted. *)
RequestOver ==
    ~s_last_cmd.feed =>
        ~recovery.active /\ recovery.state = "monitoring" /\ reversals = 0

(* A reversal uses the attempt of its request. *)
Attempts == reversals = 0 \/ (reversals = 1 /\ recovery.attempted)

(* What is observed is a part of what was pressed, and the time of the     *)
(* last check is that of the last computation.                             *)
Observation ==
    /\ ~threshold => ~recovery.active
    /\ recovery.active =>
         /\ recovery.state = "monitoring"
         /\ recovery.since <= pressing
         /\ \/ recovery.check = sinceControl
            \/ recovery.check > Timeout /\ sinceControl > Timeout

(* The feed runs backwards in a reversal, from its start on at the longest. *)
Reversal ==
    /\ recovery.state # "reversing" => recovery.reverse = 0
    /\ ramped_turntable < 0 => recovery.state = "reversing"
    /\ output.feed = "reverse" /\ (handler = "idle" \/ s_last_cmd.feed) =>
         /\ recovery.state = "reversing"
         /\ reversedFor <= recovery.reverse \/ recovery.reverse = ReverseTime
    /\ output.feed # "reverse" => reversedFor = 0
    /\ reversedFor = 0 \/ reversedFor < ReverseTime + sinceControl

(* The motors had reported when the last outputs were computed. *)
Driven ==
    output.feed # "zero" \/ output.wheels # "zero" =>
        \A m \in Motors : seen[m] /\ age[m] <= Timeout + sinceControl

BlockedIsStill == recovery.state = "blocked" => output.feed = "zero"

IInv ==
    /\ TypeOK
    /\ RequestOver
    /\ Attempts
    /\ Observation
    /\ Reversal
    /\ Driven
    /\ BlockedIsStill

(* The constants, as far as arithmetic needs them. *)
LEMMA Numbers ==
    /\ Timeout \in Nat /\ FeedSteps \in Nat /\ WheelSteps \in Nat /\ MaxDelay \in Nat
    /\ StallTime \in Nat \ {0} /\ ReverseTime \in Nat \ {0} /\ MaxGap \in Nat \ {0}
  BY ShooterAssumption

----------------------------------------------------------------------------
(* What the helpers do with a recovery.                                    *)

LEMMA QuietFields ==
    ASSUME NEW r \in Recoveries
    PROVE  /\ Quiet(r) \in Recoveries
           /\ Quiet(r).state = r.state /\ Quiet(r).reverse = r.reverse
           /\ r.attempted => Quiet(r).attempted
           /\ ~Quiet(r).active
<1>1. 0 \in 0 .. StallTime /\ 0 \in 0 .. Timeout + 1
  BY Numbers
<1>2. Quiet(r) \in Recoveries
  BY <1>1 DEF Quiet, Recoveries
<1>3. Quiet(r).state = r.state /\ Quiet(r).reverse = r.reverse
  BY DEF Quiet, Recoveries
<1>4. Quiet(r).attempted = r.attempted /\ Quiet(r).active = FALSE
  BY DEF Quiet, Recoveries
<1> QED
  BY <1>2, <1>3, <1>4

LEMMA CancelledFields ==
    /\ Cancelled \in Recoveries
    /\ Cancelled.state = "monitoring" /\ ~Cancelled.active /\ Cancelled.reverse = 0
  BY Numbers DEF Cancelled, Recoveries

LEMMA StoppedFields ==
    ASSUME NEW r \in Recoveries, r.state # "reversing" => r.reverse = 0
    PROVE  /\ StoppedRecovery(r) \in Recoveries
           /\ StoppedRecovery(r).state # "reversing"
           /\ r.state = "blocked" => StoppedRecovery(r).state = "blocked"
           /\ r.state = "monitoring" => StoppedRecovery(r).state = "monitoring"
           /\ StoppedRecovery(r).reverse = 0
           /\ r.attempted => StoppedRecovery(r).attempted
           /\ ~StoppedRecovery(r).active
<1> DEFINE q == Quiet(r)
<1>1. /\ q \in Recoveries /\ q.state = r.state /\ q.reverse = r.reverse
      /\ r.attempted => q.attempted
      /\ ~q.active
  BY QuietFields
<1>2. StoppedRecovery(r) =
        [q EXCEPT !.state = IF @ = "reversing" THEN "monitoring" ELSE @, !.reverse = 0]
  BY DEF StoppedRecovery
<1> DEFINE s == StoppedRecovery(r)
<1> HIDE DEF q
<1>3. 0 \in 0 .. ReverseTime
  BY Numbers
<1>4. s \in Recoveries /\ s.reverse = 0
  BY <1>1, <1>2, <1>3 DEF Recoveries
<1>5. s.state = IF q.state = "reversing" THEN "monitoring" ELSE q.state
  BY <1>1, <1>2 DEF Recoveries
<1>6. s.attempted = q.attempted /\ s.active = q.active
  BY <1>1, <1>2 DEF Recoveries
<1> HIDE DEF s
<1>7. /\ s.state # "reversing"
      /\ r.state = "blocked" => s.state = "blocked"
      /\ r.state = "monitoring" => s.state = "monitoring"
  BY <1>1, <1>5
<1>8. (r.attempted => s.attempted) /\ ~s.active
  BY <1>1, <1>6
<1> QED
  BY <1>4, <1>7, <1>8 DEF s

LEMMA RampTowardsBound ==
    ASSUME NEW low \in Int, NEW high \in Int,
           NEW speed \in low .. high, NEW target \in low .. high
    PROVE  RampTowards(speed, target) \in low .. high
  BY DEF RampTowards

LEMMA InitIInv == Init => IInv
<1> SUFFICES ASSUME Init PROVE IInv
  OBVIOUS
<1>0. recovery \in Recoveries
  BY CancelledFields DEF Init
<1>1. TypeOK
  <2>1. s_last_cmd \in Commands /\ output \in Outputs
    BY DEF Init, Commands, Outputs
  <2>2. seen \in [Motors -> BOOLEAN] /\ age \in [Motors -> 0 .. MaxAge + MaxDelay]
    BY Numbers DEF Init, MaxAge
  <2>3. /\ ramped_turntable \in Backwards .. FeedSteps
        /\ ramped_shooter \in 0 .. WheelSteps
        /\ sinceControl \in 0 .. MaxGap /\ pressing \in 0 .. StallTime
        /\ reversals \in 0 .. 2 /\ reversedFor \in 0 .. ReverseTime + MaxGap
    BY Numbers DEF Init, Backwards
  <2> QED
    BY <1>0, <2>1, <2>2, <2>3 DEF Init, TypeOK, Recoveries, Outputs
<1>2. RequestOver /\ Attempts /\ Observation /\ Reversal /\ Driven /\ BlockedIsStill
  BY CancelledFields
     DEF Init, RequestOver, Attempts, Observation, Reversal, Driven, BlockedIsStill
<1> QED
  BY <1>1, <1>2 DEF IInv

----------------------------------------------------------------------------
(* The facts of IInv that every action starts from. *)
LEMMA Now ==
    ASSUME IInv
    PROVE  /\ recovery \in Recoveries /\ output \in Outputs
           /\ s_last_cmd \in Commands /\ s_last_cmd.feed \in BOOLEAN
           /\ ramped_turntable \in Backwards .. FeedSteps
           /\ ramped_shooter \in 0 .. WheelSteps
           /\ sinceControl \in 0 .. MaxGap /\ pressing \in 0 .. StallTime
           /\ reversals \in 0 .. 2 /\ reversedFor \in 0 .. ReverseTime + MaxGap
  BY DEF IInv, TypeOK, Recoveries, Outputs, Commands

LEMMA UpdateIInv ==
    ASSUME IInv, NEW cmd \in Commands, Update(cmd)
    PROVE  IInv'
<1> DEFINE r == Requested(cmd)
<1>0. /\ cmd.feed \in BOOLEAN
      /\ s_last_cmd' = cmd /\ handler' = "compute" /\ handler = "idle"
      /\ reversals' = IF cmd.feed THEN reversals ELSE 0
      /\ reversedFor' = IF output'.feed = "reverse" THEN reversedFor ELSE 0
      /\ UNCHANGED <<seen, age, current, threshold, armed, sinceControl>>
  BY DEF Update, Commands, reports
<1>1. /\ r \in Recoveries
      /\ cmd.feed => r = recovery
      /\ ~cmd.feed => r = Cancelled
  BY Now, CancelledFields DEF Requested
<1>2. r.state # "reversing" => r.reverse = 0
  BY <1>1, CancelledFields DEF IInv, Reversal
<1>3. \/ /\ recovery' = StoppedRecovery(r) /\ pressing' = 0
         /\ ramped_turntable' = 0 /\ ramped_shooter' = 0
         /\ output' = [feed |-> "zero", wheels |-> "zero"]
      \/ /\ recovery' = r /\ output' = output
         /\ pressing' = IF cmd.feed THEN pressing ELSE 0
         /\ ramped_turntable' \in Backwards .. FeedSteps
         /\ ramped_turntable' < 0 => cmd.feed /\ ramped_turntable < 0
         /\ ramped_shooter' \in 0 .. WheelSteps
  <2>1. CASE ~Healthy \/ ~armed
    BY <2>1 DEF Update, Stop
  <2>2. CASE ~(~Healthy \/ ~armed)
    <3>1. /\ RampTowards(ramped_turntable, FeedSteps) \in Backwards .. FeedSteps
          /\ RampTowards(ramped_shooter, 0) \in 0 .. WheelSteps
          /\ RampTowards(ramped_shooter, WheelSteps) \in 0 .. WheelSteps
      <4>1. /\ Backwards \in Int /\ FeedSteps \in Int /\ FeedSteps \in Backwards .. FeedSteps
            /\ 0 \in Int /\ WheelSteps \in Int
            /\ 0 \in 0 .. WheelSteps /\ WheelSteps \in 0 .. WheelSteps
        BY Numbers DEF Backwards
      <4> QED
        BY <4>1, Now, RampTowardsBound
    <3>2. ramped_shooter' \in 0 .. WheelSteps
      BY <2>2, <3>1 DEF Update
    <3>3. ramped_turntable' \in Backwards .. FeedSteps
      BY <2>2, <3>1, Now, Numbers DEF Update, Backwards
    <3>4. ramped_turntable' < 0 => cmd.feed /\ ramped_turntable < 0
      <4>1. ramped_turntable >= 0 => RampTowards(ramped_turntable, FeedSteps) >= 0
        BY Now, Numbers DEF RampTowards, Backwards
      <4>2. recovery.state = "monitoring" => ramped_turntable >= 0
        BY Now, Numbers DEF IInv, Reversal, Backwards
      <4> QED
        BY <2>2, <4>1, <4>2, <3>1, Numbers DEF Update, Backwards
    <3> QED
      BY <2>2, <3>2, <3>3, <3>4 DEF Update
  <2> QED
    BY <2>1, <2>2
<1> HIDE DEF r
<1>4. CASE /\ recovery' = StoppedRecovery(r) /\ pressing' = 0
           /\ ramped_turntable' = 0 /\ ramped_shooter' = 0
           /\ output' = [feed |-> "zero", wheels |-> "zero"]
  <2>1. /\ recovery' \in Recoveries /\ output' \in Outputs
        /\ output'.feed = "zero" /\ output'.wheels = "zero"
        /\ recovery'.state # "reversing" /\ recovery'.reverse = 0
        /\ ~recovery'.active
        /\ r.state = "monitoring" => recovery'.state = "monitoring"
        /\ r.attempted => recovery'.attempted
    BY <1>1, <1>2, <1>4, StoppedFields DEF Outputs
  <2>2. TypeOK'
    BY <1>0, <1>4, <2>1, Numbers DEF IInv, TypeOK, Recoveries, Outputs, Backwards
  <2>3. RequestOver'
    BY <1>0, <1>1, <2>1, CancelledFields DEF RequestOver
  <2>4. Attempts'
    BY <1>0, <1>1, <2>1 DEF IInv, Attempts
  <2>5. (Observation /\ Reversal /\ Driven /\ BlockedIsStill)'
    BY <1>0, <1>4, <2>1 DEF Observation, Reversal, Driven, BlockedIsStill
  <2> QED
    BY <2>2, <2>3, <2>4, <2>5 DEF IInv
<1>5. CASE /\ recovery' = r /\ output' = output
           /\ pressing' = IF cmd.feed THEN pressing ELSE 0
           /\ ramped_turntable' \in Backwards .. FeedSteps
           /\ ramped_turntable' < 0 => cmd.feed /\ ramped_turntable < 0
           /\ ramped_shooter' \in 0 .. WheelSteps
  <2>2. TypeOK'
    BY <1>0, <1>1, <1>5, Now, Numbers DEF IInv, TypeOK, Recoveries, Outputs
  <2>3. RequestOver'
    BY <1>0, <1>1, <1>5, CancelledFields DEF RequestOver
  <2>4. Attempts'
    BY <1>0, <1>1, <1>5 DEF IInv, Attempts
  <2>5. Observation'
    BY <1>0, <1>1, <1>5, CancelledFields DEF IInv, Observation
  <2>6. Reversal'
    BY <1>0, <1>1, <1>5, CancelledFields DEF IInv, Reversal
  <2>7. Driven'
    BY <1>0, <1>5 DEF IInv, Driven
  <2>8. BlockedIsStill'
    BY <1>0, <1>1, <1>5, CancelledFields DEF IInv, BlockedIsStill
  <2> QED
    BY <2>2, <2>3, <2>4, <2>5, <2>6, <2>7, <2>8 DEF IInv
<1> QED
  BY <1>3, <1>4, <1>5

(* The outcomes of UpdateFeedRecovery: the feed is blocked, goes on or     *)
(* starts to run backwards, is let go, or is watched.                      *)
LEMMA RecoveryStep ==
    ASSUME IInv, s_last_cmd.feed, UpdateFeedRecovery
    PROVE  /\ recovery' \in Recoveries
           /\ ramped_turntable' \in Backwards .. FeedSteps
           /\ recovery.attempted => recovery'.attempted
           /\ recovery'.state # "reversing" => recovery'.reverse = 0
           /\ recovery'.state = "blocked" => ramped_turntable' = 0
           /\ recovery.state = "blocked" => recovery'.state = "blocked"
           /\ ramped_turntable' < 0 => recovery'.state = "reversing"
           /\ recovery'.state = "reversing" =>
                \/ recovery.state = "reversing" /\ ~ReversalOver /\ recovery' = recovery
                \/ /\ recovery.state = "monitoring" /\ ~recovery.attempted
                   /\ recovery'.attempted /\ recovery'.reverse = 0
                   /\ pressing >= StallTime /\ sinceControl <= Timeout
           /\ recovery'.active =>
                /\ threshold /\ recovery'.state = "monitoring" /\ recovery'.check = 0
                /\ recovery'.since = 0 \/ (recovery'.since <= pressing /\ sinceControl <= Timeout)
<1> DEFINE q == Quiet(recovery)
<1>0. recovery \in Recoveries /\ ramped_turntable \in Backwards .. FeedSteps
  BY Now
<1>1. /\ q \in Recoveries /\ q.state = recovery.state /\ q.reverse = recovery.reverse
      /\ recovery.attempted => q.attempted
      /\ ~q.active
  BY <1>0, QuietFields
<1>2. /\ 0 \in Backwards .. FeedSteps /\ Backwards \in Backwards .. FeedSteps
      /\ Backwards < 0 /\ 0 \in 0 .. ReverseTime
      /\ 0 \in 0 .. Timeout + 1 /\ 0 \in 0 .. StallTime
  BY Numbers DEF Backwards
<1>3. /\ recovery.state # "reversing" => recovery.reverse = 0
      /\ ~threshold => ~recovery.active
      /\ ramped_turntable < 0 => recovery.state = "reversing"
      /\ recovery.active =>
           /\ recovery.state = "monitoring"
           /\ recovery.since <= pressing
           /\ \/ recovery.check = sinceControl
              \/ recovery.check > Timeout /\ sinceControl > Timeout
  BY DEF IInv, Reversal, Observation
<1> HIDE DEF q
<1>4. CASE ~threshold
  <2>1. /\ recovery' = [q EXCEPT !.state = "blocked", !.reverse = 0]
        /\ ramped_turntable' = 0
    BY <1>4 DEF UpdateFeedRecovery, q
  <2>2. /\ recovery' \in Recoveries
        /\ recovery'.state = "blocked" /\ recovery'.reverse = 0
        /\ recovery'.attempted = q.attempted /\ recovery'.active = q.active
    BY <1>1, <1>2, <2>1 DEF Recoveries
  <2> QED
    BY <1>1, <1>2, <2>1, <2>2
<1>5. CASE threshold /\ recovery.state = "reversing" /\ ~ReversalOver
  <2>1. recovery' = recovery /\ ramped_turntable' = Backwards
    BY <1>5 DEF UpdateFeedRecovery
  <2> QED
    BY <1>0, <1>2, <1>5, <2>1, <1>3
<1>6. CASE threshold /\ recovery.state = "reversing" /\ ReversalOver
  <2>1. /\ recovery' = [q EXCEPT !.state = "monitoring", !.reverse = 0]
        /\ ramped_turntable' = 0
    BY <1>6 DEF UpdateFeedRecovery, q
  <2>2. /\ recovery' \in Recoveries
        /\ recovery'.state = "monitoring" /\ recovery'.reverse = 0
        /\ recovery'.attempted = q.attempted /\ recovery'.active = q.active
    BY <1>1, <1>2, <2>1 DEF Recoveries
  <2> QED
    BY <1>1, <1>2, <1>6, <2>1, <2>2
<1>7. CASE threshold /\ recovery.state = "blocked"
  <2>1. recovery' = recovery /\ ramped_turntable' = 0
    BY <1>7 DEF UpdateFeedRecovery
  <2> QED
    BY <1>0, <1>2, <1>3, <1>7, <2>1
<1>8. CASE threshold /\ recovery.state = "monitoring"
  <2>1. CASE current = "low" \/ ramped_turntable <= 0
    <3>1. recovery' = q /\ ramped_turntable' = ramped_turntable
      BY <1>8, <2>1 DEF UpdateFeedRecovery, q
    <3> QED
      BY <1>0, <1>1, <1>3, <1>8, <3>1
  <2>2. CASE ~(current = "low" \/ ramped_turntable <= 0)
    <3>1. /\ Observed \in Recoveries
          /\ Observed.state = recovery.state /\ Observed.reverse = recovery.reverse
          /\ Observed.attempted = recovery.attempted /\ Observed.check = 0
          /\ Observed.since = 0 \/ (/\ recovery.active /\ recovery.check <= Timeout
                                    /\ Observed.since = recovery.since)
      BY <1>0, <1>2 DEF Observed, Recoveries
    <3>2. Observed.since = 0 \/ (Observed.since <= pressing /\ sinceControl <= Timeout)
      BY <1>3, <3>1, <1>0, Now, Numbers DEF Recoveries
    <3>3. CASE Observed.since < StallTime
      <4>1. recovery' = Observed /\ ramped_turntable' = ramped_turntable
        BY <1>8, <2>2, <3>3 DEF UpdateFeedRecovery
      <4> QED
        BY <1>0, <1>3, <1>8, <2>2, <3>1, <3>2, <4>1
    <3>4. CASE ~(Observed.since < StallTime)
      <4>0. pressing >= StallTime /\ sinceControl <= Timeout
        BY <3>1, <3>2, <3>4, Now, Numbers DEF Recoveries
      <4>1. recovery' = AfterStall
            /\ ramped_turntable' = IF recovery.attempted THEN 0 ELSE Backwards
        BY <1>8, <2>2, <3>4 DEF UpdateFeedRecovery
      <4>2. CASE recovery.attempted
        <5>1. recovery' = [q EXCEPT !.state = "blocked"] /\ ramped_turntable' = 0
          BY <4>1, <4>2 DEF AfterStall, q
        <5> QED
          BY <1>1, <1>2, <1>3, <1>8, <5>1 DEF Recoveries
      <4>3. CASE ~recovery.attempted
        <5>1. /\ recovery' = [q EXCEPT !.state = "reversing", !.attempted = TRUE]
              /\ ramped_turntable' = Backwards
          BY <4>1, <4>3 DEF AfterStall, q
        <5> QED
          BY <1>1, <1>2, <1>3, <1>8, <4>0, <4>3, <5>1 DEF Recoveries
      <4> QED
        BY <4>2, <4>3
    <3> QED
      BY <3>3, <3>4
  <2> QED
    BY <2>1, <2>2
<1> QED
  BY <1>0, <1>4, <1>5, <1>6, <1>7, <1>8 DEF Recoveries

(* A stop clears what is observed, reversed and put out. *)
LEMMA ComputeIInv ==
    ASSUME IInv, ComputeCurrents
    PROVE  IInv'
<1> DEFINE feed == s_last_cmd.feed
<1>0. /\ handler = "compute" /\ handler' = "idle" /\ sinceControl' = 0
      /\ reversals' = IF recovery'.state = "reversing" /\ recovery.state # "reversing"
                         /\ reversals < 2
                      THEN reversals + 1 ELSE reversals
      /\ reversedFor' = IF output'.feed = "reverse" THEN reversedFor ELSE 0
      /\ UNCHANGED <<s_last_cmd, seen, age, current, threshold, armed>>
  BY DEF ComputeCurrents, reports
<1>1. CASE ~Healthy \/ ~armed
  <2> DEFINE r == Requested(s_last_cmd)
  <2>1. /\ r \in Recoveries
        /\ feed => r = recovery
        /\ ~feed => r = Cancelled
    BY Now, CancelledFields DEF Requested
  <2>2. r.state # "reversing" => r.reverse = 0
    BY <2>1, CancelledFields DEF IInv, Reversal
  <2>3. /\ recovery' = StoppedRecovery(r) /\ pressing' = 0
        /\ ramped_turntable' = 0 /\ ramped_shooter' = 0
        /\ output' = [feed |-> "zero", wheels |-> "zero"]
    BY <1>1 DEF ComputeCurrents, Stop
  <2> HIDE DEF r
  <2>4. /\ recovery' \in Recoveries /\ output' \in Outputs
        /\ output'.feed = "zero" /\ output'.wheels = "zero"
        /\ recovery'.state # "reversing" /\ recovery'.reverse = 0
        /\ ~recovery'.active
        /\ r.state = "monitoring" => recovery'.state = "monitoring"
        /\ r.attempted => recovery'.attempted
    BY <2>1, <2>2, <2>3, StoppedFields DEF Outputs
  <2>5. reversals' = reversals
    BY <1>0, <2>4
  <2>6. TypeOK'
    BY <1>0, <2>3, <2>4, <2>5, Numbers
       DEF IInv, TypeOK, Recoveries, Outputs, Backwards
  <2>7. RequestOver'
    BY <1>0, <2>1, <2>4, <2>5, CancelledFields DEF IInv, RequestOver
  <2>8. Attempts'
    BY <1>0, <2>1, <2>4, <2>5 DEF IInv, Attempts, RequestOver
  <2>9. (Observation /\ Reversal /\ Driven /\ BlockedIsStill)'
    BY <1>0, <2>3, <2>4 DEF Observation, Reversal, Driven, BlockedIsStill
  <2> QED
    BY <2>6, <2>7, <2>8, <2>9 DEF IInv
<1>2. CASE ~(~Healthy \/ ~armed)
  <2>1. /\ output' = [feed |-> IF feed THEN Direction(ramped_turntable') ELSE "zero",
                      wheels |-> "loop"]
        /\ pressing' = IF feed /\ sinceControl <= Timeout THEN pressing ELSE 0
        /\ ramped_shooter' = ramped_shooter
    BY <1>2 DEF ComputeCurrents
  <2>2. output' \in Outputs /\ output'.feed = IF feed THEN Direction(ramped_turntable') ELSE "zero"
    BY <2>1 DEF Outputs, Direction
  <2>3. \A m \in Motors : seen[m] /\ age[m] <= Timeout + 0
    BY <1>2, Numbers DEF Healthy, IInv, TypeOK, MaxAge
  <2>4. Driven'
    BY <1>0, <2>3 DEF Driven
  <2>5. CASE ~feed
    <3>1. recovery' = Cancelled /\ ramped_turntable' = 0 /\ output'.feed = "zero"
      BY <1>2, <2>2, <2>5 DEF ComputeCurrents
    <3>2. reversals' = reversals /\ recovery' \in Recoveries /\ pressing' = 0
      BY <1>0, <2>1, <2>5, <3>1, CancelledFields
    <3>3. TypeOK'
      BY <1>0, <2>1, <2>2, <3>1, <3>2, Numbers
         DEF IInv, TypeOK, Recoveries, Outputs, Backwards
    <3>4. (RequestOver /\ Attempts)'
      BY <1>0, <2>5, <3>1, <3>2, CancelledFields DEF IInv, RequestOver, Attempts
    <3>5. (Observation /\ Reversal /\ BlockedIsStill)'
      BY <1>0, <3>1, CancelledFields DEF Observation, Reversal, BlockedIsStill
    <3> QED
      BY <2>4, <3>3, <3>4, <3>5 DEF IInv
  <2>6. CASE feed
    <3>0. UpdateFeedRecovery
      BY <1>2, <2>6 DEF ComputeCurrents
    <3>1. /\ recovery' \in Recoveries
          /\ ramped_turntable' \in Backwards .. FeedSteps
          /\ recovery.attempted => recovery'.attempted
          /\ recovery'.state # "reversing" => recovery'.reverse = 0
          /\ recovery'.state = "blocked" => ramped_turntable' = 0
          /\ ramped_turntable' < 0 => recovery'.state = "reversing"
          /\ recovery'.state = "reversing" =>
               \/ recovery.state = "reversing" /\ ~ReversalOver /\ recovery' = recovery
               \/ /\ recovery.state = "monitoring" /\ ~recovery.attempted
                  /\ recovery'.attempted /\ recovery'.reverse = 0
          /\ recovery'.active =>
               /\ threshold /\ recovery'.state = "monitoring" /\ recovery'.check = 0
               /\ recovery'.since = 0 \/ (recovery'.since <= pressing /\ sinceControl <= Timeout)
      BY <2>6, <3>0, RecoveryStep
    <3>2. reversals' \in 0 .. 2 /\ Attempts'
      BY <1>0, <3>1, Now DEF IInv, Attempts
    <3>3. TypeOK'
      BY <1>0, <2>1, <2>2, <3>1, <3>2, Now, Numbers
         DEF IInv, TypeOK, Recoveries, Outputs
    <3>4. RequestOver'
      BY <1>0, <2>6 DEF RequestOver
    <3>5. Observation'
      BY <1>0, <2>1, <2>6, <3>1, Now, Numbers DEF Observation
    <3>6. BlockedIsStill'
      BY <2>2, <2>6, <3>1 DEF BlockedIsStill, Direction
    <3>7. Reversal'
      <4>1. output'.feed = "reverse" <=> ramped_turntable' < 0
        BY <2>2, <2>6, <3>1, Numbers DEF Direction, Backwards
      <4>2. /\ output.feed = "reverse" =>
                 /\ recovery.state = "reversing"
                 /\ reversedFor <= recovery.reverse \/ recovery.reverse = ReverseTime
            /\ output.feed # "reverse" => reversedFor = 0
        BY <2>6 DEF IInv, Reversal
      <4>3. CASE output'.feed # "reverse"
        BY <1>0, <3>1, <4>1, <4>3 DEF Reversal
      <4>4. CASE output'.feed = "reverse"
        <5>1. /\ recovery'.state = "reversing"
              /\ reversedFor' = reversedFor /\ reversedFor \in Nat
          BY <1>0, <3>1, <4>1, <4>4, Now, Numbers
        <5>2. CASE recovery.state = "reversing" /\ ~ReversalOver /\ recovery' = recovery
          <6>1. recovery.reverse < ReverseTime /\ recovery.reverse \in Nat
            BY <5>2, Now, Numbers DEF ReversalOver, Recoveries
          <6>2. reversedFor <= recovery.reverse
            BY <4>2, <6>1
          <6> QED
            BY <1>0, <5>1, <5>2, <6>1, <6>2, Numbers DEF Reversal
        <5>3. CASE recovery.state = "monitoring" /\ recovery'.reverse = 0
          <6>1. reversedFor = 0
            BY <4>2, <5>3
          <6> QED
            BY <1>0, <4>4, <5>1, <5>3, <6>1 DEF Reversal
        <5> QED
          BY <3>1, <5>1, <5>2, <5>3
      <4> QED
        BY <4>3, <4>4
    <3> QED
      BY <2>4, <3>2, <3>3, <3>4, <3>5, <3>6, <3>7 DEF IInv
  <2> QED
    BY <2>5, <2>6
<1> QED
  BY <1>1, <1>2

LEMMA FeedbackIInv ==
    ASSUME IInv, NEW m \in Motors, NEW reading \in {"high", "low"},
           NEW d \in 0 .. MaxDelay, UpdateMotorFeedback(m, reading, d)
    PROVE  IInv'
<1>0. /\ seen[m] => d <= age[m]
      /\ seen' = [seen EXCEPT ![m] = TRUE]
      /\ age' = [age EXCEPT ![m] = d]
      /\ current' = IF m = "feed" THEN reading ELSE current
      /\ recovery' = IF Interrupts(m, reading) THEN Quiet(recovery) ELSE recovery
      /\ pressing' = IF m = "feed" /\ reading = "low" THEN 0 ELSE pressing
      /\ UNCHANGED <<s_last_cmd, handler, ramped_turntable, ramped_shooter, output,
                     threshold, armed, sinceControl, reversals, reversedFor>>
  BY DEF UpdateMotorFeedback
<1>1. /\ recovery' \in Recoveries
      /\ recovery'.state = recovery.state /\ recovery'.reverse = recovery.reverse
      /\ recovery.attempted => recovery'.attempted
      /\ ~recovery'.active \/ recovery' = recovery
  BY <1>0, Now, QuietFields
<1>2. TypeOK'
  <2>1. age' \in [Motors -> 0 .. MaxAge + MaxDelay] /\ seen' \in [Motors -> BOOLEAN]
    BY <1>0, Numbers DEF IInv, TypeOK, MaxAge
  <2>2. current' \in {"high", "low"} /\ pressing' \in 0 .. StallTime
    BY <1>0, Numbers DEF IInv, TypeOK
  <2> QED
    BY <1>0, <1>1, <2>1, <2>2 DEF IInv, TypeOK, Recoveries
<1>3. (RequestOver /\ Attempts /\ Reversal /\ BlockedIsStill)'
  BY <1>0, <1>1 DEF IInv, RequestOver, Attempts, Reversal, BlockedIsStill
<1>4. Observation'
  <2>1. CASE ~recovery'.active
    BY <2>1 DEF Observation
  <2>2. CASE recovery'.active
    <3>1. recovery' = recovery /\ recovery.active /\ threshold
      BY <1>1, <2>2 DEF IInv, Observation
    <3>2. ~Interrupts(m, reading)
      BY <1>0, <2>2, Now, QuietFields
    <3>3. pressing' = pressing
      BY <1>0, <3>1, <3>2 DEF Interrupts
    <3> QED
      BY <1>0, <3>1, <3>3 DEF IInv, Observation
  <2> QED
    BY <2>1, <2>2
<1>5. Driven'
  <2> SUFFICES ASSUME output.feed # "zero" \/ output.wheels # "zero", NEW k \in Motors
               PROVE  seen'[k] /\ age'[k] <= Timeout + sinceControl
    BY <1>0 DEF Driven
  <2>1. seen[k] /\ age[k] <= Timeout + sinceControl
    BY DEF IInv, Driven
  <2>2. /\ age \in [Motors -> 0 .. MaxAge + MaxDelay] /\ seen \in [Motors -> BOOLEAN]
        /\ d \in Nat /\ sinceControl \in Nat
    BY Numbers, Now DEF IInv, TypeOK
  <2>3. CASE k = m
    BY <1>0, <2>1, <2>2, <2>3, Numbers DEF MaxAge
  <2>4. CASE k # m
    BY <1>0, <2>1, <2>2, <2>4
  <2> QED
    BY <2>3, <2>4
<1> QED
  BY <1>2, <1>3, <1>4, <1>5 DEF IInv

LEMMA SettingIInv ==
    ASSUME IInv, SetThreshold \/ SetArmed
    PROVE  IInv'
<1>1. CASE SetThreshold
  <2>1. TypeOK'
    BY <1>1 DEF SetThreshold, reports, speeds, history, IInv, TypeOK
  <2>2. ~recovery.active
    BY <1>1 DEF SetThreshold, IInv, RequestOver
  <2> QED
    BY <1>1, <2>1, <2>2
       DEF SetThreshold, reports, speeds, history, IInv, RequestOver, Attempts,
           Observation, Reversal, Driven, BlockedIsStill
<1>2. CASE SetArmed
  <2>1. TypeOK'
    BY <1>2 DEF SetArmed, reports, speeds, history, IInv, TypeOK
  <2> QED
    BY <1>2, <2>1
       DEF SetArmed, reports, speeds, history, IInv, RequestOver, Attempts,
           Observation, Reversal, Driven, BlockedIsStill
<1> QED
  BY <1>1, <1>2

LEMMA TickIInv ==
    ASSUME IInv, Tick
    PROVE  IInv'
<1>0. /\ sinceControl < MaxGap /\ sinceControl' = sinceControl + 1
      /\ age' = [m \in Motors |-> Older(age[m], MaxAge)]
      /\ pressing' = Older(pressing, StallTime)
      /\ reversedFor' = IF output.feed = "reverse"
                        THEN Older(reversedFor, ReverseTime + MaxGap) ELSE 0
      /\ UNCHANGED <<s_last_cmd, handler, seen, current, ramped_turntable,
                     ramped_shooter, output, threshold, armed, reversals>>
  BY DEF Tick
<1>1. /\ recovery' \in Recoveries
      /\ recovery'.state = recovery.state
      /\ recovery'.attempted = recovery.attempted
      /\ recovery'.active = recovery.active
      /\ recovery'.since = IF recovery.active THEN Older(recovery.since, StallTime)
                           ELSE recovery.since
      /\ recovery'.check = IF recovery.active THEN Older(recovery.check, Timeout + 1)
                           ELSE recovery.check
      /\ recovery'.reverse = IF recovery.state = "reversing"
                             THEN Older(recovery.reverse, ReverseTime)
                             ELSE recovery.reverse
  <2> DEFINE since == IF recovery.active THEN Older(recovery.since, StallTime)
                      ELSE recovery.since
             check == IF recovery.active THEN Older(recovery.check, Timeout + 1)
                      ELSE recovery.check
             reverse == IF recovery.state = "reversing"
                        THEN Older(recovery.reverse, ReverseTime)
                        ELSE recovery.reverse
  <2>1. recovery' = [recovery EXCEPT !.since = since, !.check = check, !.reverse = reverse]
    BY DEF Tick
  <2>2. /\ since \in 0 .. StallTime /\ check \in 0 .. Timeout + 1
        /\ reverse \in 0 .. ReverseTime
    BY Now, Numbers DEF Recoveries, Older
  <2> HIDE DEF since, check, reverse
  <2>3. /\ recovery' \in Recoveries
        /\ recovery'.state = recovery.state
        /\ recovery'.attempted = recovery.attempted
        /\ recovery'.active = recovery.active
        /\ recovery'.since = since /\ recovery'.check = check
        /\ recovery'.reverse = reverse
    BY <2>1, <2>2, Now DEF Recoveries
  <2> QED
    BY <2>3 DEF since, check, reverse
<1>2. TypeOK'
  <2>1. age' \in [Motors -> 0 .. MaxAge + MaxDelay]
    BY <1>0, Numbers DEF IInv, TypeOK, MaxAge, Older
  <2>2. /\ sinceControl' \in 0 .. MaxGap /\ pressing' \in 0 .. StallTime
        /\ reversedFor' \in 0 .. ReverseTime + MaxGap
    BY <1>0, Numbers, Now DEF Older
  <2> QED
    BY <1>0, <1>1, <2>1, <2>2 DEF IInv, TypeOK, Recoveries
<1>3. (RequestOver /\ Attempts /\ BlockedIsStill)'
  BY <1>0, <1>1 DEF IInv, RequestOver, Attempts, BlockedIsStill
<1>4. Observation'
  <2>1. CASE ~recovery.active
    BY <1>1, <2>1 DEF Observation
  <2>2. CASE recovery.active
    <3>1. /\ threshold /\ recovery.state = "monitoring"
          /\ recovery.since <= pressing
          /\ \/ recovery.check = sinceControl
             \/ recovery.check > Timeout /\ sinceControl > Timeout
      BY <2>2 DEF IInv, Observation
    <3>2. /\ recovery.since \in 0 .. StallTime /\ recovery.check \in 0 .. Timeout + 1
          /\ pressing \in 0 .. StallTime /\ sinceControl \in 0 .. MaxGap
      BY Now DEF Recoveries
    <3>3. recovery'.since <= pressing'
      BY <1>0, <1>1, <2>2, <3>1, <3>2, Numbers DEF Older
    <3>4. \/ recovery'.check = sinceControl'
          \/ recovery'.check > Timeout /\ sinceControl' > Timeout
      BY <1>0, <1>1, <2>2, <3>1, <3>2, Numbers DEF Older
    <3> QED
      BY <1>0, <1>1, <3>1, <3>3, <3>4 DEF Observation
  <2> QED
    BY <2>1, <2>2
<1>5. Reversal'
  <2>1. /\ recovery.state # "reversing" => recovery'.reverse = 0
        /\ ramped_turntable' < 0 => recovery'.state = "reversing"
        /\ output'.feed # "reverse" => reversedFor' = 0
    BY <1>0, <1>1 DEF IInv, Reversal
  <2>2. /\ recovery.reverse \in 0 .. ReverseTime
        /\ reversedFor \in 0 .. ReverseTime + MaxGap /\ sinceControl \in 0 .. MaxGap
    BY Now DEF Recoveries
  <2>3. output'.feed = "reverse" /\ (handler' = "idle" \/ s_last_cmd'.feed) =>
          /\ recovery'.state = "reversing"
          /\ reversedFor' <= recovery'.reverse \/ recovery'.reverse = ReverseTime
    <3> SUFFICES ASSUME output.feed = "reverse", handler = "idle" \/ s_last_cmd.feed
                 PROVE  /\ recovery'.state = "reversing"
                        /\ reversedFor' <= recovery'.reverse \/ recovery'.reverse = ReverseTime
      BY <1>0
    <3>1. /\ recovery.state = "reversing"
          /\ reversedFor <= recovery.reverse \/ recovery.reverse = ReverseTime
      BY DEF IInv, Reversal
    <3> QED
      BY <1>0, <1>1, <2>2, <3>1, Numbers DEF Older
  <2>4. reversedFor' = 0 \/ reversedFor' < ReverseTime + sinceControl'
    <3>1. reversedFor = 0 \/ reversedFor < ReverseTime + sinceControl
      BY DEF IInv, Reversal
    <3> QED
      BY <1>0, <2>2, <3>1, Numbers DEF Older
  <2> QED
    BY <1>1, <2>1, <2>3, <2>4 DEF Reversal
<1>6. Driven'
  <2> SUFFICES ASSUME output.feed # "zero" \/ output.wheels # "zero", NEW k \in Motors
               PROVE  seen'[k] /\ age'[k] <= Timeout + sinceControl'
    BY <1>0 DEF Driven
  <2>1. seen[k] /\ age[k] <= Timeout + sinceControl
    BY DEF IInv, Driven
  <2>2. age[k] \in Nat /\ sinceControl \in Nat
    BY Now, Numbers DEF IInv, TypeOK, MaxAge
  <2> QED
    BY <1>0, <2>1, <2>2, Numbers DEF Older
<1> QED
  BY <1>2, <1>3, <1>4, <1>5, <1>6 DEF IInv

LEMMA NextIInv == IInv /\ [Next]_vars => IInv'
<1> SUFFICES ASSUME IInv, [Next]_vars PROVE IInv'
  OBVIOUS
<1>1. CASE Control
  BY <1>1, UpdateIInv, ComputeIInv DEF Control
<1>2. CASE \E m \in Motors, reading \in {"high", "low"}, d \in 0 .. MaxDelay :
              UpdateMotorFeedback(m, reading, d)
  BY <1>2, FeedbackIInv
<1>3. CASE SetThreshold \/ SetArmed
  BY <1>3, SettingIInv
<1>4. CASE Tick
  BY <1>4, TickIInv
<1>5. CASE UNCHANGED vars
  BY <1>5 DEF vars, IInv, TypeOK, RequestOver, Attempts, Observation, Reversal,
              Driven, BlockedIsStill, Healthy
<1> QED
  BY <1>1, <1>2, <1>3, <1>4, <1>5 DEF Next

LEMMA Induction == Spec => []IInv
  BY InitIInv, NextIInv, PTL DEF Spec

(* The state of the shooter is well-formed: in particular the ramps stop   *)
(* at their targets.                                                       *)
THEOREM TypeCorrect == Spec => []TypeOK
<1>1. IInv => TypeOK
  BY DEF IInv
<1> QED
  BY <1>1, Induction, PTL

(* One request to feed is given one reversal. *)
THEOREM OneReversalHolds == Spec => []OneReversal
<1>1. IInv => OneReversal
  BY DEF IInv, Attempts, OneReversal
<1> QED
  BY <1>1, Induction, PTL

(* A reversal ends one control gap after its time at the latest. *)
THEOREM ReversalEndsHolds == Spec => []ReversalEnds
<1>1. IInv => ReversalEnds
  BY Now, Numbers DEF IInv, Reversal, ReversalEnds
<1> QED
  BY <1>1, Induction, PTL

(* No motor is driven while one of them has been silent for too long. *)
THEOREM DrivenHolds == Spec => []DrivenWithReports
<1>1. IInv => DrivenWithReports
  <2> SUFFICES ASSUME IInv, output.feed # "zero" \/ output.wheels # "zero",
                      NEW m \in Motors
               PROVE  seen[m] /\ age[m] <= Timeout + MaxGap
    BY DEF DrivenWithReports
  <2>1. seen[m] /\ age[m] <= Timeout + sinceControl
    BY DEF IInv, Driven
  <2>2. age[m] \in Nat /\ sinceControl \in 0 .. MaxGap
    BY Now, Numbers DEF IInv, TypeOK, MaxAge
  <2> QED
    BY <2>1, <2>2, Numbers
<1> QED
  BY <1>1, Induction, PTL

----------------------------------------------------------------------------
(* A reversal starts in ComputeCurrents only. *)
LEMMA ReversalStarts ==
    ASSUME IInv, [Next]_vars, recovery'.state = "reversing",
           recovery.state # "reversing"
    PROVE  pressing >= StallTime
<1>1. ASSUME NEW cmd \in Commands, Update(cmd) PROVE FALSE
  <2> DEFINE r == Requested(cmd)
  <2>1. r \in Recoveries /\ r.state # "reversing" /\ r.reverse = 0
    BY Now, CancelledFields DEF Requested, IInv, Reversal
  <2>2. recovery' = r \/ recovery' = StoppedRecovery(r)
    BY <1>1 DEF Update, Stop
  <2> QED
    BY <2>1, <2>2, StoppedFields
<1>2. CASE ComputeCurrents
  <2>1. CASE ~Healthy \/ ~armed
    <3> DEFINE r == Requested(s_last_cmd)
    <3>1. r \in Recoveries /\ r.state # "reversing" /\ r.reverse = 0
      BY Now, CancelledFields DEF Requested, IInv, Reversal
    <3>2. recovery' = StoppedRecovery(r)
      BY <1>2, <2>1 DEF ComputeCurrents, Stop
    <3> QED
      BY <3>1, <3>2, StoppedFields
  <2>2. CASE ~(~Healthy \/ ~armed) /\ ~s_last_cmd.feed
    BY <1>2, <2>2, CancelledFields DEF ComputeCurrents
  <2>3. CASE ~(~Healthy \/ ~armed) /\ s_last_cmd.feed
    BY <1>2, <2>3, RecoveryStep DEF ComputeCurrents
  <2> QED
    BY <2>1, <2>2, <2>3
<1>3. ASSUME NEW m \in Motors, NEW reading \in {"high", "low"},
             NEW d \in 0 .. MaxDelay, UpdateMotorFeedback(m, reading, d)
      PROVE  FALSE
  BY <1>3, Now, QuietFields DEF UpdateMotorFeedback
<1>4. CASE SetThreshold \/ SetArmed \/ UNCHANGED vars
  BY <1>4 DEF SetThreshold, SetArmed, speeds, vars
<1>5. CASE Tick
  BY <1>5, Now DEF Tick, Recoveries
<1> QED
  BY <1>1, <1>2, <1>3, <1>4, <1>5 DEF Next, Control

(* The feed is reversed only after a jam of the whole stall time. *)
THEOREM StallHolds == Spec => ReversalNeedsStall
<1>1. IInv /\ [Next]_vars =>
        [recovery'.state = "reversing" /\ recovery.state # "reversing"
           => pressing >= StallTime]_vars
  BY ReversalStarts
<1> QED
  BY <1>1, Induction, PTL DEF Spec, ReversalNeedsStall

(* What happens to a feed that is blocked while it is requested. *)
LEMMA BlockedStep ==
    ASSUME IInv, [Next]_vars, recovery.state = "blocked", s_last_cmd'.feed
    PROVE  recovery'.state = "blocked" /\ output'.feed = "zero"
<1>0. output.feed = "zero" /\ recovery \in Recoveries /\ recovery.reverse = 0
  BY Now DEF IInv, BlockedIsStill, Reversal
<1>s. StoppedRecovery(recovery).state = "blocked"
  BY <1>0, StoppedFields
<1>1. ASSUME NEW cmd \in Commands, Update(cmd)
      PROVE  recovery'.state = "blocked" /\ output'.feed = "zero"
  <2>1. Requested(cmd) = recovery
    BY <1>1 DEF Update, Requested
  <2> QED
    BY <1>0, <1>s, <1>1, <2>1 DEF Update, Stop
<1>2. CASE ComputeCurrents
  <2>1. s_last_cmd.feed /\ Requested(s_last_cmd) = recovery
    BY <1>2 DEF ComputeCurrents, Requested
  <2>2. CASE ~Healthy \/ ~armed
    BY <1>2, <1>s, <2>1, <2>2 DEF ComputeCurrents, Stop
  <2>3. CASE ~(~Healthy \/ ~armed)
    <3>1. recovery'.state = "blocked" /\ ramped_turntable' = 0
      BY <1>2, <2>1, <2>3, RecoveryStep DEF ComputeCurrents
    <3> QED
      BY <1>2, <2>1, <2>3, <3>1 DEF ComputeCurrents, Direction
  <2> QED
    BY <2>2, <2>3
<1>3. ASSUME NEW m \in Motors, NEW reading \in {"high", "low"},
             NEW d \in 0 .. MaxDelay, UpdateMotorFeedback(m, reading, d)
      PROVE  recovery'.state = "blocked" /\ output'.feed = "zero"
  BY <1>0, <1>3, QuietFields DEF UpdateMotorFeedback
<1>4. CASE SetThreshold \/ SetArmed \/ UNCHANGED vars
  BY <1>0, <1>4 DEF SetThreshold, SetArmed, speeds, vars
<1>5. CASE Tick
  BY <1>0, <1>5 DEF Tick, Recoveries
<1> QED
  BY <1>1, <1>2, <1>3, <1>4, <1>5 DEF Next, Control

(* A blocked feed stays so until the operator lets go. *)
THEOREM BlockedHolds == Spec => BlockedUntilReleased
<1>1. IInv /\ [Next]_vars =>
        [recovery.state = "blocked" /\ s_last_cmd'.feed =>
           recovery'.state = "blocked" /\ output'.feed = "zero"]_vars
  BY BlockedStep
<1> QED
  BY <1>1, Induction, PTL DEF Spec, BlockedUntilReleased

(* The recovery in every state, whatever stops, reports and pauses come:    *)
(* one reversal that ends, and no motor driven without reports.             *)
THEOREM FeedHolds == Spec => []FeedInv
  BY TypeCorrect, OneReversalHolds, ReversalEndsHolds, DrivenHolds, PTL DEF FeedInv

(* What a step of the recovery may do: reverse after a whole stall only,    *)
(* and leave the block with the request only.                               *)
THEOREM FeedChangesHold == Spec => FeedChanges
  BY StallHolds, BlockedHolds, PTL DEF FeedChanges

----------------------------------------------------------------------------
(***************************************************************************)
(* The router.  What works on, a yaw hold, a friction wheel, a rotation,   *)
(* rests on something the operator did since the remote was there; the end *)
(* of the brake and the time since spin was left show the same moment on   *)
(* the clock, until the clock has gone round; and a vision message that is *)
(* valid is the last one and no older than its time stamp says.            *)
(***************************************************************************)
Acted(p) ==
    /\ r_downSeen => "down" \in r_past.acts
    /\ r_brake # 0 \/ r_mode = "spin" => "spun" \in r_past.acts
    /\ r_dial.active \/ r_dial.wz # 0 => "turned" \in r_past.acts

BrakeSince(p) ==
    /\ r_past.exit \in 0 .. RouterConf[p].W
    /\ r_brake # 0 /\ r_mode # "spin" => r_hold = r_past.exitAngle
    /\ r_brake # 0 /\ r_past.exit < RouterConf[p].W =>
         (r_brake - r_now) + (r_past.exit - RouterConf[p].BrakeMs)
             \in {-RouterConf[p].W, 0, RouterConf[p].W}

(* How long ago the clock showed `time`, if it has not gone round. *)
Ago(p, time, at) == IF time <= at THEN at - time ELSE (at - time) + RouterConf[p].W

MessageAge(p) ==
    /\ r_inbox.updated => r_inbox.age = 0
    /\ r_memory.valid => Ago(p, r_memory.ts, r_now) <= RouterConf[p].VisionMs
    /\ r_memory.valid /\ ~r_inbox.updated =>
         /\ r_inbox.usable
         /\ r_inbox.age <= Ago(p, r_memory.ts, r_now) + RouterConf[p].MaxGap

TurnIsShown(p) == r_out.frame # "off" /\ r_mode # "spin" => r_out.wz = r_dial.wz

RouterIInv(p) ==
    /\ Router(p)!RouterInv
    /\ Acted(p)
    /\ BrakeSince(p)
    /\ MessageAge(p)
    /\ TurnIsShown(p)

(* A number within one turn of the clock of its range. *)
LEMMA Unique ==
    ASSUME NEW d \in Nat \ {0}, NEW q \in Int, NEW r \in 0 .. d - 1,
           NEW k \in Int, NEW s \in 0 .. d - 1, d * q + r = d * k + s
    PROVE  r = s
<1>1. ASSUME NEW a \in Int, NEW b \in Int, a < b
      PROVE  d * a + d <= d * b
  <2>1. PICK e \in Nat : b = a + 1 + e
    <3>1. b - a - 1 \in Nat /\ b = a + 1 + (b - a - 1)
      BY <1>1
    <3>2. QED BY <3>1
  <2>2. d * b = d * a + d + d * e
    BY <2>1
  <2>3. d * e >= 0
    OBVIOUS
  <2>4. QED BY <2>2, <2>3
<1>2. ~(q < k)
  BY <1>1
<1>3. ~(k < q)
  BY <1>1
<1>4. QED BY <1>2, <1>3

LEMMA Wraps ==
    ASSUME NEW d \in Nat \ {0}, NEW x \in -d .. 2 * d - 1
    PROVE  x % d = CASE x < 0 -> x + d [] x >= d -> x - d [] OTHER -> x
<1> DEFINE y == CASE x < 0 -> x + d [] x >= d -> x - d [] OTHER -> x
           k == CASE x < 0 -> -1 [] x >= d -> 1 [] OTHER -> 0
<1>1. x % d \in 0 .. d - 1 /\ x \div d \in Int /\ x = d * (x \div d) + (x % d)
  OBVIOUS
<1>2. y \in 0 .. d - 1 /\ k \in Int
  OBVIOUS
<1>3. x = d * k + y
  OBVIOUS
<1> HIDE DEF y, k
<1>4. d * k + y = d * (x \div d) + (x % d)
  BY <1>1, <1>3
<1>5. y = x % d
  <2> DEFINE q == x \div d
             r == x % d
  <2>1. q \in Int /\ r \in 0 .. d - 1 /\ d * q + r = d * k + y
    BY <1>1, <1>4
  <2> HIDE DEF q, r
  <2>2. r = y
    BY <2>1, <1>2, Unique
  <2>3. QED BY <2>2 DEF r
<1>6. QED BY <1>5 DEF y

LEMMA RouterNumbers ==
    ASSUME NEW p \in DOMAIN RouterConf
    PROVE  /\ RouterConf[p].W \in Nat \ {0} /\ RouterConf[p].MaxGap \in Nat \ {0}
           /\ RouterConf[p].MaxDt \in Nat \ {0} /\ RouterConf[p].BrakeMs \in Nat \ {0}
           /\ RouterConf[p].VisionMs \in Nat \ {0} /\ RouterConf[p].DialEnter \in Nat \ {0}
           /\ RouterConf[p].DialExit \in Nat /\ RouterConf[p].Slew \in Nat \ {0}
           /\ RouterConf[p].Angles \in Nat \ {0}
           /\ 2 * (RouterConf[p].BrakeMs + RouterConf[p].MaxGap) < RouterConf[p].W
           /\ RouterConf[p].VisionMs + RouterConf[p].MaxGap < RouterConf[p].W
           /\ RouterConf[p].Messages \subseteq BOOLEAN
           /\ \A in \in RouterConf[p].Inputs : Router(p)!IsInput(in)
<1>1. Router(p)!RouterAssumption
  BY RoutersOK
<1>2. QED BY <1>1 DEF Router!RouterAssumption

LEMMA RouterStarts ==
    ASSUME NEW p \in DOMAIN RouterConf, Router(p)!Init
    PROVE  RouterIInv(p)
<1>1. Router(p)!TypeOK
  <2>1. 0 \in Router(p)!Angle /\ Router(p)!MessageMax \in 0 .. Router(p)!MessageMax
        /\ 0 \in 0 .. RouterConf[p].W - 1
    BY RouterNumbers DEF Router!Angle, Router!MessageMax
  <2>2. r_now \in 0 .. RouterConf[p].W - 1 /\ r_brake = 0 /\ r_hold = 0 /\ r_entry = 0
    BY DEF Router!Init
  <2>3. /\ r_memory \in [valid : BOOLEAN, ts : 0 .. RouterConf[p].W - 1]
        /\ r_dial \in [active : BOOLEAN, wz : Int]
        /\ r_inbox \in [usable : BOOLEAN, updated : BOOLEAN, age : 0 .. Router(p)!MessageMax]
    BY <2>1 DEF Router!Init
  <2>4. /\ r_mode = "free" /\ r_routed \in BOOLEAN /\ r_downSeen \in BOOLEAN
        /\ r_out.frame = "off"
    BY DEF Router!Init, Router!Off
  <2>5. QED BY <2>1, <2>2, <2>3, <2>4 DEF Router!TypeOK
<1>2. Router(p)!ForgetsAtLoss /\ Router(p)!HoldsAfterSpin
  BY DEF Router!Init, Router!ForgetsAtLoss, Router!HoldsAfterSpin, Router!Off
<1>3. Acted(p) /\ MessageAge(p) /\ TurnIsShown(p)
  BY DEF Router!Init, Acted, MessageAge, TurnIsShown, Router!Off
<1>4. BrakeSince(p)
  BY RouterNumbers DEF Router!Init, BrakeSince, Router!NoPast
<1>5. QED BY <1>1, <1>2, <1>3, <1>4 DEF RouterIInv, Router!RouterInv

LEMMA RouterRests ==
    ASSUME NEW p \in DOMAIN RouterConf, RouterIInv(p), UNCHANGED router
    PROVE  RouterIInv(p)'
<1>1. UNCHANGED <<r_now, r_mode, r_routed, r_hold, r_brake, r_entry, r_downSeen,
                  r_dial, r_memory, r_inbox, r_out, r_past>>
  BY DEF router
<1>2. Router(p)!RouterInv'
  BY <1>1 DEF RouterIInv, Router!RouterInv, Router!TypeOK, Router!ForgetsAtLoss,
     Router!HoldsAfterSpin
<1>3. Acted(p)' /\ MessageAge(p)' /\ TurnIsShown(p)' /\ BrakeSince(p)'
  BY <1>1 DEF RouterIInv, Acted, MessageAge, TurnIsShown, BrakeSince, Ago
<1>4. QED BY <1>2, <1>3 DEF RouterIInv

(* A message only changes what the next cycle takes. *)
LEMMA VisionMessage ==
    ASSUME NEW p \in DOMAIN RouterConf, RouterIInv(p),
           NEW usable \in RouterConf[p].Messages, Router(p)!VisionArrives(usable)
    PROVE  RouterIInv(p)'
<1>1. /\ UNCHANGED <<r_now, r_mode, r_routed, r_hold, r_brake, r_entry, r_downSeen,
                     r_dial, r_memory, r_out, r_past>>
      /\ r_inbox' = [usable |-> usable, updated |-> TRUE, age |-> 0]
  BY DEF Router!VisionArrives
<1>2. usable \in BOOLEAN /\ 0 \in 0 .. Router(p)!MessageMax
  BY RouterNumbers DEF Router!MessageMax
<1>3. Router(p)!RouterInv'
  BY <1>1, <1>2 DEF RouterIInv, Router!RouterInv, Router!TypeOK, Router!ForgetsAtLoss,
     Router!HoldsAfterSpin
<1>4. Acted(p)' /\ MessageAge(p)' /\ TurnIsShown(p)' /\ BrakeSince(p)'
  BY <1>1 DEF RouterIInv, Acted, MessageAge, TurnIsShown, BrakeSince, Ago
<1>5. QED BY <1>3, <1>4 DEF RouterIInv

(* What a route takes from its inbox, and what it leaves there. *)
LEMMA Inbox ==
    ASSUME NEW p \in DOMAIN RouterConf, Router(p)!TypeOK,
           NEW gap \in 1 .. RouterConf[p].MaxGap
    PROVE  LET aged == Router(p)!Aged(r_inbox, gap)
               kept == Router(p)!Consumed(aged)
               max == Router(p)!MessageMax
           IN  /\ aged.updated = r_inbox.updated /\ aged.usable = r_inbox.usable
               /\ kept \in [usable : BOOLEAN, updated : BOOLEAN, age : 0 .. max]
               /\ ~kept.updated /\ kept.usable = r_inbox.usable
               /\ kept.age <= r_inbox.age + gap
<1> DEFINE max == Router(p)!MessageMax
<1>1. max \in Nat
  BY RouterNumbers DEF Router!MessageMax
<1>2. /\ r_inbox \in [usable : BOOLEAN, updated : BOOLEAN, age : 0 .. max]
      /\ gap \in Nat
  BY RouterNumbers DEF Router!TypeOK
<1> HIDE DEF max
<1> DEFINE new == IF r_inbox.age + gap < max THEN r_inbox.age + gap ELSE max
<1>3. Router(p)!Aged(r_inbox, gap) = [r_inbox EXCEPT !.age = new]
  BY DEF Router!Aged, max
<1>4. new \in 0 .. max /\ new <= r_inbox.age + gap
  BY <1>1, <1>2
<1> HIDE DEF new
<1>5. QED BY <1>2, <1>3, <1>4 DEF Router!Consumed, max

(* The clock at the next route. *)
LEMMA Clock ==
    ASSUME NEW p \in DOMAIN RouterConf, Router(p)!TypeOK,
           NEW gap \in 1 .. RouterConf[p].MaxGap
    PROVE  LET time == (r_now + gap) % RouterConf[p].W
           IN  /\ time \in 0 .. RouterConf[p].W - 1 /\ time # r_now
               /\ time = r_now + gap \/ time = r_now + gap - RouterConf[p].W
<1>1. /\ RouterConf[p].W \in Nat \ {0} /\ r_now \in 0 .. RouterConf[p].W - 1
      /\ gap \in 1 .. RouterConf[p].W - 1
  BY RouterNumbers DEF Router!TypeOK
<1>2. r_now + gap \in -RouterConf[p].W .. 2 * RouterConf[p].W - 1
  BY <1>1
<1>3. QED BY <1>1, <1>2, Wraps

LEMMA RouteWithoutRemote ==
    ASSUME NEW p \in DOMAIN RouterConf, RouterIInv(p),
           NEW gap \in 1 .. RouterConf[p].MaxGap,
           r_now' = (r_now + gap) % RouterConf[p].W,
           r_inbox' = Router(p)!Consumed(Router(p)!Aged(r_inbox, gap)),
           Router(p)!RouteOffline
    PROVE  RouterIInv(p)'
<1>1. /\ r_mode' = "free" /\ r_brake' = 0 /\ r_downSeen' = FALSE
      /\ r_dial' = [active |-> FALSE, wz |-> 0]
      /\ r_memory' = [valid |-> FALSE, ts |-> 0] /\ r_routed' = FALSE
      /\ r_out' = Router(p)!Off /\ r_past' = Router(p)!NoPast
      /\ UNCHANGED <<r_hold, r_entry>>
  BY DEF Router!RouteOffline, Router!Forgotten
<1>2. Router(p)!TypeOK
  BY DEF RouterIInv, Router!RouterInv
<1>3. Router(p)!TypeOK'
  <2>1. 0 \in 0 .. RouterConf[p].W - 1
    BY RouterNumbers
  <2>2. r_now' \in 0 .. RouterConf[p].W - 1
    BY <1>2, Clock
  <2>3. r_inbox' \in [usable : BOOLEAN, updated : BOOLEAN, age : 0 .. Router(p)!MessageMax]
    BY <1>2, Inbox
  <2>4. r_memory' \in [valid : BOOLEAN, ts : 0 .. RouterConf[p].W - 1]
        /\ r_dial' \in [active : BOOLEAN, wz : Int]
    BY <1>1, <2>1
  <2>5. QED BY <1>1, <1>2, <2>1, <2>2, <2>3, <2>4 DEF Router!TypeOK, Router!Off
<1>4. Router(p)!ForgetsAtLoss' /\ Router(p)!HoldsAfterSpin'
  BY <1>1 DEF Router!ForgetsAtLoss, Router!HoldsAfterSpin, Router!Off
<1>5. Acted(p)' /\ TurnIsShown(p)'
  BY <1>1 DEF Acted, TurnIsShown, Router!Off
<1>6. MessageAge(p)'
  <2>1. ~r_inbox'.updated
    BY <1>2, Inbox
  <2>2. QED BY <1>1, <2>1 DEF MessageAge
<1>7. BrakeSince(p)'
  BY <1>1, RouterNumbers DEF BrakeSince, Router!NoPast
<1>8. QED BY <1>3, <1>4, <1>5, <1>6, <1>7 DEF RouterIInv, Router!RouterInv

----------------------------------------------------------------------------
(* A route with the remote: what is new, by field. *)
LEMMA ModeNow ==
    ASSUME NEW p \in DOMAIN RouterConf, NEW in \in RouterConf[p].Inputs
    PROVE  /\ Router(p)!ModeOf(in.s1) \in {"free", "follow", "spin"}
           /\ Router(p)!ModeOf(in.s1) = "spin" <=> in.s1 = "up"
<1>1. in.s1 \in {"down", "mid", "up"}
  BY RouterNumbers DEF Router!IsInput, Router!Switch
<1>2. QED BY <1>1 DEF Router!ModeOf

LEMMA RestFields ==
    ASSUME NEW p \in DOMAIN RouterConf, NEW in \in RouterConf[p].Inputs
    PROVE  /\ in.s0 \in {"down", "mid"} /\ in.dial \in Int
           /\ in.yaw \in Router(p)!Angle /\ in.heading.angle \in Router(p)!Angle
<1>1. Router(p)!IsInput(in) /\ 0 \in Router(p)!Angle
  BY RouterNumbers DEF Router!Angle
<1>2. \/ in.heading = Router(p)!NoHeading
      \/ in.heading \in [valid : {TRUE}, recent : BOOLEAN, angle : Router(p)!Angle]
  BY <1>1 DEF Router!IsInput, Router!Headings
<1>3. in.heading.angle \in Router(p)!Angle
  <2>1. CASE in.heading = Router(p)!NoHeading
    <3>1. in.heading.angle = 0
      BY <2>1 DEF Router!NoHeading
    <3>2. QED BY <1>1, <3>1
  <2>2. CASE in.heading \in [valid : {TRUE}, recent : BOOLEAN, angle : Router(p)!Angle]
    BY <2>2
  <2>3. QED BY <1>2, <2>1, <2>2
<1>4. QED BY <1>1, <1>3 DEF Router!IsInput

(* The yaw hold: the end of the brake is BrakeMs after spin was left, and   *)
(* the clock tells it from the times after it for half a turn.             *)
LEMMA HoldNow ==
    ASSUME NEW p \in DOMAIN RouterConf, RouterIInv(p),
           NEW gap \in 1 .. RouterConf[p].MaxGap, NEW in \in RouterConf[p].Inputs,
           r_now' = (r_now + gap) % RouterConf[p].W,
           r_mode' = Router(p)!ModeOf(in.s1),
           Router(p)!HoldYaw(in.s1 = "up", in.yaw, in.adjust, r_now'),
           Router(p)!Remember(in.s1 = "up", in.s0, in.dial, in.yaw, in.heading, gap)
    PROVE  /\ r_hold' \in Router(p)!Angle /\ r_brake' \in 0 .. RouterConf[p].W - 1
           /\ BrakeSince(p)'
           /\ in.s1 # "up" /\ Router(p)!Braking(r_brake', r_now') =>
                /\ r_hold' = r_past'.exitAngle
                /\ \/ r_past'.exit < RouterConf[p].BrakeMs
                   \/ r_past'.exit >= RouterConf[p].W \div 2
<1> DEFINE W == RouterConf[p].W
           B == RouterConf[p].BrakeMs
           left == in.s1 # "up" /\ r_mode = "spin"
<1>0. /\ W \in Nat \ {0} /\ B \in Nat \ {0} /\ RouterConf[p].MaxGap \in Nat \ {0}
      /\ 2 * (B + RouterConf[p].MaxGap) < W /\ RouterConf[p].Angles \in Nat \ {0}
      /\ gap \in 1 .. RouterConf[p].MaxGap
  BY RouterNumbers
<1>1. Router(p)!TypeOK
  BY DEF RouterIInv, Router!RouterInv
<1>2. /\ r_now \in 0 .. W - 1 /\ r_brake \in 0 .. W - 1 /\ r_hold \in Router(p)!Angle
      /\ r_past.exit \in 0 .. W
      /\ r_brake # 0 /\ r_mode # "spin" => r_hold = r_past.exitAngle
      /\ r_brake # 0 /\ r_past.exit < W =>
           (r_brake - r_now) + (r_past.exit - B) \in {-W, 0, W}
  BY <1>1 DEF RouterIInv, BrakeSince, Router!TypeOK
<1>3. r_now' \in 0 .. W - 1 /\ (r_now' = r_now + gap \/ r_now' = r_now + gap - W)
  BY <1>1, Clock
<1>4. /\ r_brake' = IF left THEN (r_now' + B) % W ELSE r_brake
      /\ r_past'.exit = IF left THEN 0
                        ELSE IF r_past.exit + gap < W THEN r_past.exit + gap ELSE W
      /\ r_past'.exitAngle = IF left THEN in.yaw ELSE r_past.exitAngle
  <2>1. r_brake' = IF left THEN (r_now' + B) % W ELSE r_brake
    BY DEF Router!HoldYaw, Router!Until
  <2>2. r_past'.exit = IF left THEN 0
                       ELSE IF r_past.exit + gap < W THEN r_past.exit + gap ELSE W
    BY DEF Router!Remember
  <2>3. r_past'.exitAngle = IF left THEN in.yaw ELSE r_past.exitAngle
    BY DEF Router!Remember
  <2>4. QED BY <2>1, <2>2, <2>3
<1>5. (r_now' + B) % W = r_now' + B \/ (r_now' + B) % W = r_now' + B - W
  <2>1. r_now' + B \in -W .. 2 * W - 1
    BY <1>0, <1>3
  <2> HIDE DEF W, B
  <2>2. QED BY <1>0, <1>3, <2>1, Wraps
<1>6. (r_now' + B) % W \in 0 .. W - 1
  BY <1>0, <1>3
<1>7. r_hold' \in Router(p)!Angle
  <2> DEFINE base == IF (in.s1 = "up" /\ r_mode # "spin") \/ left THEN in.yaw ELSE r_hold
  <2>1. base \in Router(p)!Angle
    BY <1>2, RestFields
  <2>2. r_hold' = base \/ r_hold' = (base + 1) % RouterConf[p].Angles
    BY DEF Router!HoldYaw
  <2> HIDE DEF base
  <2>3. (base + 1) % RouterConf[p].Angles \in Router(p)!Angle
    BY <1>0, <2>1 DEF Router!Angle
  <2>4. QED BY <2>1, <2>2, <2>3
<1>8. in.s1 # "up" => r_hold' = IF left THEN in.yaw ELSE r_hold
  BY DEF Router!HoldYaw
<1>9. r_mode' = "spin" <=> in.s1 = "up"
  BY ModeNow
<1>10. r_brake' \in 0 .. W - 1 /\ r_past'.exit \in 0 .. W
  BY <1>0, <1>2, <1>4, <1>6
<1>11. r_brake' # 0 /\ r_past'.exit < W =>
         (r_brake' - r_now') + (r_past'.exit - B) \in {-W, 0, W}
  <2> HIDE DEF W, B
  <2>1. CASE left
    BY <1>0, <1>3, <1>4, <1>5, <2>1
  <2>2. CASE ~left
    <3> SUFFICES ASSUME r_brake # 0, r_past'.exit < W, r_past.exit + gap < W
                 PROVE  (r_brake - r_now') + (r_past.exit + gap - B) \in {-W, 0, W}
      BY <1>0, <1>2, <1>4, <2>2
    <3>1. (r_brake - r_now) + (r_past.exit - B) \in {-W, 0, W}
      BY <1>0, <1>2
    <3>2. (r_brake - r_now') + (r_past.exit + gap - B) < 2 * W
      BY <1>0, <1>2, <1>3
    <3>3. QED BY <1>0, <1>2, <1>3, <3>1, <3>2
  <2>3. QED BY <2>1, <2>2
<1>12. r_brake' # 0 /\ in.s1 # "up" => r_hold' = r_past'.exitAngle
  BY <1>2, <1>4, <1>8
<1>13. BrakeSince(p)'
  BY <1>9, <1>10, <1>11, <1>12 DEF BrakeSince
<1>14. in.s1 # "up" /\ Router(p)!Braking(r_brake', r_now') =>
         r_past'.exit < B \/ r_past'.exit >= W \div 2
  <2> SUFFICES ASSUME Router(p)!Braking(r_brake', r_now'),
                      B <= r_past'.exit, r_past'.exit < W \div 2
               PROVE  FALSE
    BY <1>0, <1>10
  <2>1. r_brake' # 0 /\ (r_brake' - r_now') % W \in 1 .. W \div 2 - 1
    BY DEF Router!Braking
  <2> DEFINE e == r_past'.exit
             x == r_brake' - r_now'
  <2>2. W \div 2 < W /\ 2 * (W \div 2) <= W /\ W \div 2 \in Nat
    BY <1>0
  <2>3. x + (e - B) \in {-W, 0, W} /\ x \in -(W - 1) .. W - 1 /\ e \in 0 .. W
    BY <1>0, <1>3, <1>10, <1>11, <2>1, <2>2
  <2>4. x % W = IF x < 0 THEN x + W ELSE x
    <3> HIDE DEF x, W
    <3>1. x \in -W .. 2 * W - 1
      BY <1>0, <2>3
    <3>2. x % W = CASE x < 0 -> x + W [] x >= W -> x - W [] OTHER -> x
      BY <1>0, <3>1, Wraps
    <3>3. QED BY <1>0, <2>3, <3>2
  <2>5. x % W \in 1 .. W \div 2 - 1
    BY <2>1
  <2>6. B <= e /\ e < W \div 2
    OBVIOUS
  <2> HIDE DEF x, e, W, B
  <2>7. QED BY <1>0, <2>2, <2>3, <2>4, <2>5, <2>6
<1>15. Router(p)!Braking(r_brake', r_now') => r_brake' # 0
  BY DEF Router!Braking
<1>16. QED BY <1>7, <1>10, <1>12, <1>13, <1>14, <1>15

(* What the operator did explains what is remembered of it. *)
LEMMA DialNow ==
    ASSUME NEW p \in DOMAIN RouterConf, RouterIInv(p),
           NEW gap \in 1 .. RouterConf[p].MaxGap, NEW in \in RouterConf[p].Inputs,
           NEW spin \in BOOLEAN, Router(p)!TurnDial(in.dial, gap, spin)
    PROVE  /\ r_dial' \in [active : BOOLEAN, wz : Int]
           /\ r_dial'.active \/ r_dial'.wz # 0 =>
                \/ Router(p)!Abs(in.dial) >= RouterConf[p].DialEnter
                \/ ~spin /\ (r_dial.active \/ r_dial.wz # 0)
           /\ ~spin => Router(p)!Abs(r_dial'.wz - r_dial.wz)
                         <= RouterConf[p].Slew * RouterConf[p].MaxDt
<1> DEFINE before == IF spin THEN [active |-> FALSE, wz |-> 0] ELSE r_dial
           enters == Router(p)!Abs(in.dial) >= RouterConf[p].DialEnter
           active == IF before.active THEN Router(p)!Abs(in.dial) > RouterConf[p].DialExit
                                      ELSE enters
           to == IF active THEN in.dial ELSE 0
           step == RouterConf[p].Slew * Router(p)!Dt(gap)
           most == RouterConf[p].Slew * RouterConf[p].MaxDt
<1>1. Router(p)!TypeOK /\ in.dial \in Int
  BY RestFields DEF RouterIInv, Router!RouterInv
<1>2. r_dial \in [active : BOOLEAN, wz : Int]
  BY <1>1 DEF Router!TypeOK
<1>3. before \in [active : BOOLEAN, wz : Int]
  BY <1>2
<1>4. step \in Nat /\ step <= most /\ most \in Nat
  <2>1. /\ Router(p)!Dt(gap) \in Nat /\ Router(p)!Dt(gap) <= RouterConf[p].MaxDt
        /\ RouterConf[p].Slew \in Nat /\ RouterConf[p].MaxDt \in Nat
    BY RouterNumbers DEF Router!Dt
  <2>2. ASSUME NEW a \in Nat, NEW b \in Nat, NEW c \in Nat, b <= c
        PROVE  a * b \in Nat /\ a * c \in Nat /\ a * b <= a * c
    <3>1. a * c = a * b + a * (c - b) /\ c - b \in Nat
      BY <2>2
    <3>2. a * (c - b) \in Nat /\ a * b \in Nat
      BY <3>1
    <3>3. QED BY <3>1, <3>2
  <2> HIDE DEF before
  <2>3. QED BY <2>1, <2>2
<1>5. r_dial' = [active |-> active, wz |-> Router(p)!Slewed(before.wz, to, step)]
  BY DEF Router!TurnDial
<1>6. active \in BOOLEAN /\ to \in Int /\ (active => enters \/ before.active)
  <2>1. to \in Int /\ (active => enters \/ before.active)
    BY <1>1
  <2>2. active = TRUE \/ active = FALSE
    <3>1. CASE before.active
      BY <3>1
    <3>2. CASE ~before.active
      BY <3>2
    <3>3. QED BY <3>1, <3>2
  <2>3. QED BY <2>1, <2>2
<1>7. /\ r_dial'.active = active
      /\ r_dial'.wz = CASE to - before.wz > step  -> before.wz + step
                        [] to - before.wz < -step -> before.wz - step
                        [] OTHER                  -> to
  BY <1>5 DEF Router!Slewed
<1>8. ~active => to = 0
  OBVIOUS
<1>9. /\ ~spin => before = r_dial
      /\ spin => before.wz = 0 /\ ~before.active
  OBVIOUS
<1> HIDE DEF before, active, to, step, most, enters
<1>10. r_dial' \in [active : BOOLEAN, wz : Int]
  <2>1. r_dial'.wz \in Int
    BY <1>3, <1>4, <1>6, <1>7
  <2>2. QED BY <1>5, <1>6, <1>7, <2>1
<1>11. r_dial'.active \/ r_dial'.wz # 0 => enters \/ before.active \/ before.wz # 0
  BY <1>3, <1>4, <1>6, <1>7, <1>8
<1>12. Router(p)!Abs(r_dial'.wz - before.wz) <= most
  BY <1>3, <1>4, <1>6, <1>7 DEF Router!Abs
<1>13. QED BY <1>9, <1>10, <1>11, <1>12 DEF enters, most

(* The vision message that counts, and what is shown. *)
LEMMA VisionNow ==
    ASSUME NEW p \in DOMAIN RouterConf, RouterIInv(p),
           NEW gap \in 1 .. RouterConf[p].MaxGap,
           r_now' = (r_now + gap) % RouterConf[p].W,
           r_inbox' = Router(p)!Consumed(Router(p)!Aged(r_inbox, gap)),
           Router(p)!SeeVision(Router(p)!Aged(r_inbox, gap), r_now')
    PROVE  /\ r_memory' \in [valid : BOOLEAN, ts : 0 .. RouterConf[p].W - 1]
           /\ MessageAge(p)'
           /\ r_memory'.valid =>
                /\ r_inbox.usable
                /\ r_inbox'.age <= RouterConf[p].VisionMs + RouterConf[p].MaxGap
<1> DEFINE W == RouterConf[p].W
           V == RouterConf[p].VisionMs
           G == RouterConf[p].MaxGap
           message == Router(p)!Aged(r_inbox, gap)
           M == Router(p)!MessageMax
<1>0. /\ W \in Nat \ {0} /\ V \in Nat \ {0} /\ G \in Nat \ {0} /\ V + G < W
      /\ gap \in 1 .. G /\ M \in Nat
  BY RouterNumbers DEF Router!MessageMax
<1>1. Router(p)!TypeOK
  BY DEF RouterIInv, Router!RouterInv
<1>2. /\ r_now \in 0 .. W - 1 /\ r_memory \in [valid : BOOLEAN, ts : 0 .. W - 1]
      /\ r_inbox \in [usable : BOOLEAN, updated : BOOLEAN, age : 0 .. M]
  BY <1>1 DEF Router!TypeOK
<1>3. /\ r_inbox.updated => r_inbox.age = 0
      /\ r_memory.valid => Ago(p, r_memory.ts, r_now) <= V
      /\ r_memory.valid /\ ~r_inbox.updated =>
           r_inbox.usable /\ r_inbox.age <= Ago(p, r_memory.ts, r_now) + G
  BY DEF RouterIInv, MessageAge
<1>4. r_now' \in 0 .. W - 1 /\ (r_now' = r_now + gap \/ r_now' = r_now + gap - W)
  BY <1>1, Clock
<1>5. /\ message.updated = r_inbox.updated /\ message.usable = r_inbox.usable
      /\ r_inbox' \in [usable : BOOLEAN, updated : BOOLEAN, age : 0 .. M]
      /\ ~r_inbox'.updated /\ r_inbox'.usable = r_inbox.usable
      /\ r_inbox'.age <= r_inbox.age + gap
  BY <1>1, Inbox
<1>6. ASSUME NEW ts \in 0 .. W - 1
      PROVE  (r_now' - ts) % W = Ago(p, ts, r_now')
  <2>1. r_now' - ts \in -W .. 2 * W - 1
    BY <1>0, <1>4
  <2> DEFINE x == r_now' - ts
  <2>2. x \in -W .. 2 * W - 1 /\ x < W /\ (ts <= r_now' <=> ~(x < 0))
    BY <1>0, <1>4, <2>1
  <2> HIDE DEF x, W
  <2>3. x % W = IF x < 0 THEN x + W ELSE x
    BY <1>0, <2>2, Wraps
  <2>4. QED BY <2>2, <2>3 DEF Ago, x, W
<1>7. CASE r_inbox.updated
  <2>1. r_memory' = [valid |-> r_inbox.usable, ts |-> r_now']
    BY <1>5, <1>7 DEF Router!SeeVision
  <2>2. Ago(p, r_memory'.ts, r_now') = 0
    BY <1>4, <2>1 DEF Ago
  <2>3. r_inbox'.age <= G
    BY <1>0, <1>2, <1>3, <1>5, <1>7
  <2>4. r_memory' \in [valid : BOOLEAN, ts : 0 .. W - 1]
    BY <1>2, <1>4, <2>1
  <2>5. (Ago(p, r_memory.ts, r_now))' = 0
    BY <2>2 DEF Ago
  <2>6. MessageAge(p)'
    BY <1>0, <1>5, <2>1, <2>3, <2>5 DEF MessageAge
  <2>7. r_inbox'.age <= V + G
    BY <1>0, <1>5, <2>3
  <2>8. QED BY <1>5, <2>1, <2>4, <2>6, <2>7
<1>8. CASE ~r_inbox.updated
  <2> DEFINE stays == r_memory.valid /\ (r_now' - r_memory.ts) % W <= V
  <2>1. r_memory' = [r_memory EXCEPT !.valid = stays]
    BY <1>5, <1>8 DEF Router!SeeVision
  <2>2. r_memory'.ts = r_memory.ts /\ r_memory'.valid = stays
    BY <1>2, <2>1
  <2>3. stays \in BOOLEAN
    BY <1>2
  <2>4. r_memory' \in [valid : BOOLEAN, ts : 0 .. W - 1]
    BY <1>2, <2>1, <2>3
  <2>5. ASSUME stays
        PROVE  /\ Ago(p, r_memory.ts, r_now') <= V
               /\ Ago(p, r_memory.ts, r_now') = Ago(p, r_memory.ts, r_now) + gap
               /\ r_inbox.usable
               /\ r_inbox'.age <= Ago(p, r_memory.ts, r_now') + G
    <3>0. r_memory.ts \in 0 .. W - 1
      BY <1>2
    <3>1. Ago(p, r_memory.ts, r_now') <= V
      BY <1>6, <2>5, <3>0
    <3>2. r_memory.valid /\ r_inbox.usable
      BY <1>3, <1>8, <2>5
    <3>3. /\ Ago(p, r_memory.ts, r_now) <= V
          /\ r_inbox.age <= Ago(p, r_memory.ts, r_now) + G
      BY <1>3, <1>8, <3>2
    <3>4. Ago(p, r_memory.ts, r_now') = Ago(p, r_memory.ts, r_now) + gap
      BY <1>0, <1>2, <1>4, <3>0, <3>3 DEF Ago
    <3>5. Ago(p, r_memory.ts, r_now) \in Int
      BY <1>0, <1>2, <3>0 DEF Ago
    <3>6. QED BY <1>0, <1>2, <1>5, <3>1, <3>2, <3>3, <3>4, <3>5
  <2>6. (Ago(p, r_memory.ts, r_now))' = Ago(p, r_memory.ts, r_now')
    BY <2>2 DEF Ago
  <2>7. MessageAge(p)'
    BY <1>5, <2>2, <2>5, <2>6 DEF MessageAge
  <2>8. r_memory'.valid => r_inbox'.age <= V + G
    <3>1. Ago(p, r_memory.ts, r_now') \in Int /\ r_inbox'.age \in Int
      BY <1>0, <1>2, <1>4, <1>5 DEF Ago
    <3>2. r_memory'.valid => stays
      BY <2>2
    <3> HIDE DEF stays
    <3>3. QED BY <1>0, <2>5, <3>1, <3>2
  <2>9. QED BY <2>2, <2>4, <2>5, <2>7, <2>8
<1>9. QED BY <1>7, <1>8

LEMMA RouteWithRemote ==
    ASSUME NEW p \in DOMAIN RouterConf, RouterIInv(p),
           NEW gap \in 1 .. RouterConf[p].MaxGap, NEW in \in RouterConf[p].Inputs,
           r_now' = (r_now + gap) % RouterConf[p].W,
           r_inbox' = Router(p)!Consumed(Router(p)!Aged(r_inbox, gap)),
           Router(p)!RouteOnline(r_now', gap, in)
    PROVE  RouterIInv(p)' /\ Router(p)!RouterStep
<1> DEFINE spin == in.s1 = "up"
           dials == spin \/ r_mode = "spin"
           chassis == Router(p)!Chassis(in.moved, in.heading)
           held == spin \/ Router(p)!Braking(r_brake', r_now')
<1>1. /\ r_mode' = Router(p)!ModeOf(in.s1) /\ r_routed' = TRUE
      /\ Router(p)!HoldYaw(spin, in.yaw, in.adjust, r_now')
      /\ r_entry' = IF spin /\ r_mode # "spin" THEN in.heading.angle ELSE r_entry
      /\ Router(p)!TurnDial(in.dial, gap, dials)
      /\ r_downSeen' = (r_downSeen \/ in.s0 = "down")
      /\ Router(p)!SeeVision(Router(p)!Aged(r_inbox, gap), r_now')
      /\ Router(p)!Remember(spin, in.s0, in.dial, in.yaw, in.heading, gap)
  BY DEF Router!RouteOnline
<1>2. r_out' = [frame |-> chassis.frame, angle |-> chassis.angle, wz |-> chassis.wz,
                friction |-> r_downSeen' /\ in.s0 # "down",
                held |-> held, target |-> IF held THEN r_hold' ELSE 0,
                vision |-> r_memory'.valid]
  BY DEF Router!RouteOnline
<1>3. Router(p)!TypeOK /\ Acted(p) /\ TurnIsShown(p)
  BY DEF RouterIInv, Router!RouterInv
<1>4. r_mode' \in {"free", "follow", "spin"} /\ (r_mode' = "spin" <=> spin)
  BY <1>1, ModeNow
<1>5. /\ r_hold' \in Router(p)!Angle /\ r_brake' \in 0 .. RouterConf[p].W - 1
      /\ BrakeSince(p)'
      /\ ~spin /\ Router(p)!Braking(r_brake', r_now') =>
           /\ r_hold' = r_past'.exitAngle
           /\ \/ r_past'.exit < RouterConf[p].BrakeMs
              \/ r_past'.exit >= RouterConf[p].W \div 2
  BY <1>1, HoldNow
<1>6. /\ r_dial' \in [active : BOOLEAN, wz : Int]
      /\ r_dial'.active \/ r_dial'.wz # 0 =>
           \/ Router(p)!Abs(in.dial) >= RouterConf[p].DialEnter
           \/ ~dials /\ (r_dial.active \/ r_dial.wz # 0)
      /\ ~dials => Router(p)!Abs(r_dial'.wz - r_dial.wz)
                     <= RouterConf[p].Slew * RouterConf[p].MaxDt
  <2>1. dials \in BOOLEAN
    OBVIOUS
  <2> HIDE DEF dials
  <2>2. QED BY <1>1, <2>1, DialNow
<1>7. /\ r_memory' \in [valid : BOOLEAN, ts : 0 .. RouterConf[p].W - 1]
      /\ MessageAge(p)'
      /\ r_memory'.valid =>
           /\ r_inbox.usable
           /\ r_inbox'.age <= RouterConf[p].VisionMs + RouterConf[p].MaxGap
  BY <1>1, VisionNow
<1>8. /\ chassis.frame \in {"off", "robot", "imu", "encoder", "spin"}
      /\ chassis.wz # 0 => chassis.wz = r_dial'.wz
      /\ ~spin /\ chassis.frame # "off" => chassis.wz = r_dial'.wz
  <2>1. CASE r_mode' = "spin"
    <3>1. chassis.frame = "spin" /\ chassis.wz = 0
      BY <2>1 DEF Router!Chassis
    <3>2. QED BY <1>4, <2>1, <3>1
  <2>2. CASE r_mode' = "follow" /\ RouterConf[p].Encoder
    <3>1. \/ chassis.frame = "encoder" /\ chassis.wz = r_dial'.wz
          \/ chassis.frame = "off" /\ chassis.wz = 0
      BY <2>2 DEF Router!Chassis
    <3>2. QED BY <3>1
  <2>3. CASE r_mode' # "spin" /\ ~(r_mode' = "follow" /\ RouterConf[p].Encoder)
    <3>1. \/ chassis.frame \in {"imu", "robot"} /\ chassis.wz = r_dial'.wz
          \/ chassis.frame = "off" /\ chassis.wz = 0
      BY <2>3 DEF Router!Chassis
    <3>2. QED BY <3>1
  <2>4. QED BY <2>1, <2>2, <2>3
<1>9. /\ r_out'.frame = chassis.frame /\ r_out'.wz = chassis.wz
      /\ r_out'.friction <=> r_downSeen' /\ in.s0 # "down"
      /\ r_out'.held <=> held
      /\ r_out'.target = IF held THEN r_hold' ELSE 0
      /\ r_out'.vision = r_memory'.valid
  <2> HIDE DEF chassis, held
  <2>1. QED BY <1>2
<1>10. r_past'.acts = (IF dials THEN r_past.acts \ {"turned"} ELSE r_past.acts)
                        \cup {a \in {"down"} : in.s0 = "down"}
                        \cup {a \in {"turned"} : Router(p)!Abs(in.dial) >= RouterConf[p].DialEnter}
                        \cup {a \in {"spun"} : spin}
  BY <1>1 DEF Router!Remember
<1>11. r_brake' # 0 => r_brake # 0 \/ r_mode = "spin"
  BY <1>1 DEF Router!HoldYaw
<1> HIDE DEF chassis
<1>12. Acted(p)'
  <2>1. r_downSeen' => "down" \in r_past'.acts
    BY <1>1, <1>3, <1>10 DEF Acted
  <2>2. r_brake' # 0 \/ r_mode' = "spin" => "spun" \in r_past'.acts
    BY <1>3, <1>4, <1>10, <1>11 DEF Acted
  <2>3. r_dial'.active \/ r_dial'.wz # 0 => "turned" \in r_past'.acts
    BY <1>3, <1>6, <1>10 DEF Acted
  <2>4. QED BY <2>1, <2>2, <2>3 DEF Acted
<1>13. TurnIsShown(p)'
  BY <1>4, <1>8, <1>9 DEF TurnIsShown
<1>14. Router(p)!TypeOK'
  <2>1. r_now' \in 0 .. RouterConf[p].W - 1
    BY <1>3, Clock
  <2>2. r_inbox' \in [usable : BOOLEAN, updated : BOOLEAN, age : 0 .. Router(p)!MessageMax]
    BY <1>3, Inbox
  <2>3. r_entry' \in Router(p)!Angle
    BY <1>1, <1>3, RestFields DEF Router!TypeOK
  <2>4. r_downSeen' \in BOOLEAN /\ r_routed' \in BOOLEAN
    BY <1>1, <1>3 DEF Router!TypeOK
  <2>5. r_out'.frame \in {"off", "robot", "imu", "encoder", "spin"}
    BY <1>8, <1>9
  <2>6. QED BY <1>4, <1>5, <1>6, <1>7, <2>1, <2>2, <2>3, <2>4, <2>5 DEF Router!TypeOK
<1>15. Router(p)!ForgetsAtLoss'
  <2>1. r_out'.held => r_brake' # 0 \/ r_mode' = "spin"
    BY <1>4, <1>9 DEF Router!Braking
  <2>2. QED BY <1>8, <1>9, <1>12, <2>1 DEF Router!ForgetsAtLoss, Acted
<1>16. Router(p)!HoldsAfterSpin'
  BY <1>4, <1>5, <1>9 DEF Router!HoldsAfterSpin
<1>17. RouterIInv(p)'
  BY <1>5, <1>7, <1>12, <1>13, <1>14, <1>15, <1>16 DEF RouterIInv, Router!RouterInv
<1>18. Router(p)!VisionIsFresh
  BY <1>7, <1>9 DEF Router!VisionIsFresh
<1>19. Router(p)!TurnsSmoothly
  <2> SUFFICES ASSUME r_out.frame # "off", r_out'.frame # "off",
                      "spin" \notin {r_mode, r_mode'}
               PROVE  Router(p)!Abs(r_out'.wz - r_out.wz)
                        <= RouterConf[p].Slew * RouterConf[p].MaxDt
    BY DEF Router!TurnsSmoothly
  <2>1. r_out.wz = r_dial.wz /\ r_out'.wz = r_dial'.wz
    BY <1>3, <1>4, <1>8, <1>9 DEF TurnIsShown
  <2>2. ~dials
    BY <1>4
  <2>3. QED BY <1>6, <2>1, <2>2
<1>20. QED BY <1>17, <1>18, <1>19 DEF Router!RouterStep

LEMMA RouterNext ==
    ASSUME NEW p \in DOMAIN RouterConf, RouterIInv(p), Router(p)!Next
    PROVE  RouterIInv(p)' /\ Router(p)!RouterStep
<1>1. ASSUME NEW usable \in RouterConf[p].Messages, Router(p)!VisionArrives(usable)
      PROVE  RouterIInv(p)' /\ Router(p)!RouterStep
  <2>1. RouterIInv(p)'
    BY <1>1, VisionMessage
  <2>2. r_now' = r_now /\ r_out' = r_out
    BY <1>1 DEF Router!VisionArrives
  <2>3. Router(p)!TurnsSmoothly
    <3>1. r_out.frame # "off" /\ r_mode # "spin" =>
            Router(p)!Abs(r_out.wz - r_out.wz) = 0
      <4>1. r_out.frame # "off" /\ r_mode # "spin" => r_out.wz \in Int
        BY DEF RouterIInv, Router!RouterInv, TurnIsShown, Router!TypeOK
      <4>2. QED BY <4>1 DEF Router!Abs
    <3>2. 0 <= RouterConf[p].Slew * RouterConf[p].MaxDt
      <4>1. ASSUME NEW a \in Nat, NEW b \in Nat PROVE 0 <= a * b
        OBVIOUS
      <4>2. QED BY <4>1, RouterNumbers
    <3>3. QED BY <2>2, <3>1, <3>2 DEF Router!TurnsSmoothly
  <2>4. QED BY <2>1, <2>2, <2>3 DEF Router!RouterStep, Router!VisionIsFresh
<1>2. ASSUME NEW gap \in 1 .. RouterConf[p].MaxGap,
             r_now' = (r_now + gap) % RouterConf[p].W,
             r_inbox' = Router(p)!Consumed(Router(p)!Aged(r_inbox, gap)),
             Router(p)!RouteOffline
      PROVE  RouterIInv(p)' /\ Router(p)!RouterStep
  <2>1. RouterIInv(p)'
    BY <1>2, RouteWithoutRemote
  <2>2. r_out'.frame = "off" /\ r_out'.vision = FALSE
    BY <1>2 DEF Router!RouteOffline, Router!Off
  <2>3. QED BY <2>1, <2>2
            DEF Router!RouterStep, Router!VisionIsFresh, Router!TurnsSmoothly
<1>3. CASE Router(p)!Route
  <2>1. PICK gap \in 1 .. RouterConf[p].MaxGap :
           LET time == (r_now + gap) % RouterConf[p].W IN
           /\ r_now' = time
           /\ r_inbox' = Router(p)!Consumed(Router(p)!Aged(r_inbox, gap))
           /\ \/ Router(p)!RouteOffline
              \/ \E in \in RouterConf[p].Inputs : Router(p)!RouteOnline(time, gap, in)
    BY <1>3 DEF Router!Route
  <2>2. CASE Router(p)!RouteOffline
    BY <1>2, <2>1, <2>2
  <2>3. CASE \E in \in RouterConf[p].Inputs : Router(p)!RouteOnline(r_now', gap, in)
    <3>1. PICK in \in RouterConf[p].Inputs : Router(p)!RouteOnline(r_now', gap, in)
      BY <2>3
    <3>2. QED BY <2>1, <3>1, RouteWithRemote
  <2>4. QED BY <2>1, <2>2, <2>3
<1>4. QED BY <1>1, <1>3 DEF Router!Next

RoutersSound == \A p \in DOMAIN RouterConf : part = p => RouterIInv(p)

LEMMA RoutersStart == AllInit => RoutersSound
<1> SUFFICES ASSUME AllInit, NEW p \in DOMAIN RouterConf, part = p
             PROVE  RouterIInv(p)
  BY DEF RoutersSound
<1>1. Router(p)!Init
  BY DEF AllInit, RouterInit
<1>2. QED BY <1>1, RouterStarts

LEMMA RoutersGoOn == RoutersSound /\ [AllNext]_allVars => RoutersSound'
<1> SUFFICES ASSUME RoutersSound, [AllNext]_allVars,
                    NEW p \in DOMAIN RouterConf, part' = p
             PROVE  RouterIInv(p)'
  BY DEF RoutersSound
<1>1. part = p /\ (UNCHANGED router \/ Router(p)!Next)
  BY DEF AllNext, allVars
<1>2. RouterIInv(p)
  BY <1>1 DEF RoutersSound
<1>3. QED BY <1>1, <1>2, RouterNext, RouterRests

(* CommandRouter_Route forgets what came before a loss of the remote, and   *)
(* its brake after spin ends although the clock wraps: in every             *)
(* configuration, for every clock, time-out and input of the operator.      *)
THEOREM RouterHolds == AllSpec => []RouterInv
<1>1. RoutersSound => RouterInv
  BY DEF RoutersSound, RouterInv, RouterIInv
<1>2. QED BY <1>1, RoutersStart, RoutersGoOn, PTL DEF AllSpec

(* update_vision and slew_dial: an error of vision is that of the last      *)
(* message and fresh, and rotation never jumps.                             *)
THEOREM RouterChangesHold == AllSpec => RouterChanges
<1> DEFINE Change == \A p \in DOMAIN RouterConf : part = p => Router(p)!RouterStep
<1>1. RoutersSound /\ [AllNext]_allVars => [Change]_router
  <2> SUFFICES ASSUME RoutersSound, [AllNext]_allVars, ~UNCHANGED router,
                      NEW p \in DOMAIN RouterConf, part = p
               PROVE  Router(p)!RouterStep
    OBVIOUS
  <2>1. Router(p)!Next
    BY DEF AllNext, allVars
  <2>2. QED BY <2>1, RouterNext DEF RoutersSound
<1>2. QED BY <1>1, RoutersStart, RoutersGoOn, PTL DEF AllSpec, RouterChanges

----------------------------------------------------------------------------
(***************************************************************************)
(* The gimbal.  The controller waits as long as everything was well; while *)
(* a capture has a reference, its targets are of now; a mode is only kept  *)
(* while the axes are driven; what vision aims at was made from the frame  *)
(* of the last command; and a brake counts the slow time at its end.       *)
(***************************************************************************)
NoTime == -1

YawTargets == [from : {"taken", "stick", "released", "rest", "spin", "vision"},
               old : BOOLEAN, current : BOOLEAN]
PitchTargets == [from : {"initial", "measured", "vision"},
                 old : BOOLEAN, current : BOOLEAN, vision : BOOLEAN]
Stops(p) == [stick : BOOLEAN, braking : BOOLEAN,
             low : NoTime .. GimbalConf[p].SettleMs - 1]

WaitIsCounted(p) ==
    /\ g_steady = g_past.good
    /\ g_past.slow \in NoTime .. GimbalConf[p].SettleMs

TargetsAreNew(p) ==
    /\ g_pitch \in PitchTargets
    /\ g_captured /\ g_ref.valid => ~g_yaw.old /\ ~g_pitch.old

ModeIsDriven(p) ==
    /\ g_on <=> g_mode # "none"
    /\ g_on => g_captured /\ ~g_booting

VisionIsTaken(p) ==
    /\ g_pitch.vision <=> g_mode = "vision"
    /\ g_mode = "vision" => g_taken = [yaw |-> g_frame, pitch |-> g_frame]

BrakeIsCounted(p) ==
    g_mode = "manual" =>
      /\ ~g_stop.stick /\ ~g_stop.braking => g_yaw.from \in {"taken", "rest"}
      /\ g_stop.low # NoTime => g_past.slow >= g_stop.low

GimbalIInv(p) ==
    /\ Gimbal(p)!HoldInv
    /\ WaitIsCounted(p)
    /\ TargetsAreNew(p)
    /\ ModeIsDriven(p)
    /\ VisionIsTaken(p)
    /\ BrakeIsCounted(p)

LEMMA GimbalNumbers ==
    ASSUME NEW p \in DOMAIN GimbalConf
    PROVE  /\ GimbalConf[p].FreshMs \in Nat \ {0} /\ GimbalConf[p].StableMs \in Nat \ {0}
           /\ GimbalConf[p].GapMs \in Nat \ {0} /\ GimbalConf[p].SettleMs \in Nat \ {0}
           /\ GimbalConf[p].MaxGap \in Nat \ {0} /\ GimbalConf[p].Frames \in Nat
           /\ GimbalConf[p].Frames > 1
           /\ GimbalConf[p].Commands \subseteq {"disabled", "vision", "spin", "stick", "rest"}
           /\ GimbalConf[p].News \subseteq BOOLEAN /\ GimbalConf[p].Slows \subseteq BOOLEAN
           /\ Gimbal(p)!Never = GimbalConf[p].FreshMs + 2
           /\ Gimbal(p)!NoTime = NoTime
<1>1. Gimbal(p)!HoldAssumption
  BY GimbalsOK
<1>2. QED BY <1>1 DEF Gimbal!HoldAssumption, Gimbal!Never, Gimbal!NoTime, NoTime

LEMMA GimbalStarts ==
    ASSUME NEW p \in DOMAIN GimbalConf, Gimbal(p)!Init
    PROVE  GimbalIInv(p)
<1>1. /\ g_booting = TRUE /\ g_age = [a \in Gimbal(p)!Axes |-> Gimbal(p)!Never]
      /\ g_inside = FALSE /\ g_steady = NoTime /\ g_captured = FALSE
      /\ g_limitFault = FALSE /\ g_ref = [valid |-> FALSE, age |-> 0]
      /\ g_mode = "none"
      /\ g_stop = [stick |-> FALSE, braking |-> FALSE, low |-> NoTime]
      /\ g_yaw = [from |-> "taken", old |-> TRUE, current |-> FALSE]
      /\ g_pitch = [from |-> "measured", old |-> TRUE, current |-> FALSE, vision |-> FALSE]
      /\ g_frame = 0 /\ g_on = FALSE
      /\ g_past.good = NoTime /\ g_past.slow = NoTime
  BY GimbalNumbers DEF Gimbal!Init, Gimbal!NoStop, Gimbal!TakenYaw, Gimbal!NoPast
<1>2. Gimbal(p)!TypeOK
  <2>1. g_age \in [Gimbal(p)!Axes -> 0 .. Gimbal(p)!Never]
    <3>1. Gimbal(p)!Never \in 0 .. Gimbal(p)!Never
      BY GimbalNumbers
    <3>2. QED BY <1>1, <3>1
  <2>2. g_steady \in NoTime .. GimbalConf[p].StableMs
        /\ g_ref \in [valid : BOOLEAN, age : 0 .. GimbalConf[p].FreshMs]
        /\ g_frame \in 0 .. GimbalConf[p].Frames - 1
        /\ g_stop \in [stick : BOOLEAN, braking : BOOLEAN,
                       low : NoTime .. GimbalConf[p].SettleMs - 1]
    BY <1>1, GimbalNumbers DEF NoTime
  <2>3. g_yaw \in Gimbal(p)!Target({"taken", "stick", "released", "rest", "spin", "vision"})
    BY <1>1 DEF Gimbal!Target
  <2>4. QED BY <1>1, <2>1, <2>2, <2>3, GimbalNumbers DEF Gimbal!TypeOK
<1>3. Gimbal(p)!HoldInv
  BY <1>1, <1>2 DEF Gimbal!HoldInv, Gimbal!DrivesWhenStable, Gimbal!ForgetsTargets,
     Gimbal!AimsAtLastMessage
<1>4. WaitIsCounted(p) /\ TargetsAreNew(p) /\ ModeIsDriven(p) /\ VisionIsTaken(p)
      /\ BrakeIsCounted(p)
  BY <1>1, GimbalNumbers DEF WaitIsCounted, TargetsAreNew, ModeIsDriven, VisionIsTaken,
     BrakeIsCounted, NoTime, PitchTargets
<1>5. QED BY <1>3, <1>4 DEF GimbalIInv

LEMMA GimbalRests ==
    ASSUME NEW p \in DOMAIN GimbalConf, GimbalIInv(p), UNCHANGED gimbal
    PROVE  GimbalIInv(p)'
<1>1. UNCHANGED <<g_booting, g_age, g_inside, g_steady, g_captured, g_limitFault, g_ref,
                  g_mode, g_stop, g_yaw, g_pitch, g_frame, g_taken, g_on, g_past>>
  BY DEF gimbal
<1>2. Gimbal(p)!HoldInv'
  BY <1>1 DEF GimbalIInv, Gimbal!HoldInv, Gimbal!TypeOK, Gimbal!DrivesWhenStable,
     Gimbal!ForgetsTargets, Gimbal!AimsAtLastMessage
<1>3. WaitIsCounted(p)' /\ TargetsAreNew(p)' /\ ModeIsDriven(p)' /\ VisionIsTaken(p)'
      /\ BrakeIsCounted(p)'
  BY <1>1 DEF GimbalIInv, WaitIsCounted, TargetsAreNew, ModeIsDriven, VisionIsTaken,
     BrakeIsCounted
<1>4. QED BY <1>2, <1>3 DEF GimbalIInv

LEMMA Feedback ==
    ASSUME NEW p \in DOMAIN GimbalConf, Gimbal(p)!TypeOK, NEW gap \in Nat,
           Gimbal(p)!Receive(gap)
    PROVE  g_age' \in [Gimbal(p)!Axes -> 0 .. Gimbal(p)!Never] /\ g_inside' \in BOOLEAN
<1> DEFINE F == GimbalConf[p].FreshMs
           Axes == Gimbal(p)!Axes
           Never == Gimbal(p)!Never
<1>1. PICK answered \in SUBSET Axes :
        /\ \E new \in [answered -> 0 .. gap] :
             g_age' = [a \in Axes |->
                         IF a \in answered THEN Gimbal(p)!Capped(new[a], F + 1)
                         ELSE IF g_age[a] = Never THEN Never
                         ELSE Gimbal(p)!Capped(g_age[a] + gap, F + 1)]
        /\ g_inside' \in IF "pitch" \in answered THEN BOOLEAN ELSE {g_inside}
  BY DEF Gimbal!Receive
<1>2. PICK new \in [answered -> 0 .. gap] :
        g_age' = [a \in Axes |->
                    IF a \in answered THEN Gimbal(p)!Capped(new[a], F + 1)
                    ELSE IF g_age[a] = Never THEN Never
                    ELSE Gimbal(p)!Capped(g_age[a] + gap, F + 1)]
  BY <1>1
<1>3. F \in Nat /\ Never = F + 2
  BY GimbalNumbers
<1>4. g_inside' \in BOOLEAN
  BY <1>1 DEF Gimbal!TypeOK
<1>5. ASSUME NEW t \in Nat PROVE Gimbal(p)!Capped(t, F + 1) \in 0 .. Never
  BY <1>3 DEF Gimbal!Capped
<1>6. ASSUME NEW a \in Axes PROVE g_age[a] \in Nat /\ (a \in answered => new[a] \in Nat)
  <2>1. g_age \in [Axes -> 0 .. Never]
    BY DEF Gimbal!TypeOK
  <2>2. QED BY <1>2, <1>3, <2>1
<1>7. Never \in 0 .. Never
  BY <1>3
<1> HIDE DEF F, Axes, Never
<1>8. ASSUME NEW a \in Axes PROVE g_age[a] + gap \in Nat
  BY <1>6
<1>9. g_age' \in [Axes -> 0 .. Never]
  BY <1>2, <1>5, <1>6, <1>7, <1>8
<1>10. QED BY <1>4, <1>9 DEF Axes, Never

(* The start-up: a capture of measured angles, with a reference. *)
LEMMA Aligns ==
    ASSUME NEW p \in DOMAIN GimbalConf, GimbalIInv(p), Gimbal(p)!Align
    PROVE  GimbalIInv(p)'
<1>1. /\ g_booting /\ g_booting' = FALSE
      /\ UNCHANGED <<g_age, g_inside, g_steady, g_limitFault, g_mode, g_stop, g_frame,
                     g_taken, g_on, g_past>>
  BY DEF Gimbal!Align, Gimbal!feedback
<1>2. \/ /\ g_captured' = TRUE
         /\ g_ref' = [valid |-> TRUE,
                      age |-> Gimbal(p)!Capped(g_age["yaw"], GimbalConf[p].FreshMs)]
         /\ g_yaw' = [from |-> "taken", old |-> FALSE, current |-> FALSE]
         /\ g_pitch' = [from |-> "initial", old |-> FALSE, current |-> FALSE, vision |-> FALSE]
      \/ UNCHANGED <<g_captured, g_ref, g_yaw, g_pitch>>
  BY DEF Gimbal!Align, Gimbal!TakenYaw, Gimbal!TakenPitch
<1>3. ~g_on /\ g_mode = "none"
  BY <1>1 DEF GimbalIInv, ModeIsDriven
<1>4. Gimbal(p)!TypeOK
  BY DEF GimbalIInv, Gimbal!HoldInv
<1>5. Gimbal(p)!Capped(g_age["yaw"], GimbalConf[p].FreshMs) \in 0 .. GimbalConf[p].FreshMs
  <2>1. g_age["yaw"] \in Nat
    BY <1>4, GimbalNumbers DEF Gimbal!TypeOK, Gimbal!Axes
  <2>2. QED BY <2>1, GimbalNumbers DEF Gimbal!Capped
<1>6. Gimbal(p)!TypeOK'
  <2>1. /\ g_captured' \in BOOLEAN
        /\ g_ref' \in [valid : BOOLEAN, age : 0 .. GimbalConf[p].FreshMs]
        /\ g_yaw' \in Gimbal(p)!Target({"taken", "stick", "released", "rest", "spin", "vision"})
        /\ g_pitch'.from \in {"initial", "measured", "vision"}
    <3>1. g_captured' = TRUE \/ g_captured' = g_captured
      BY <1>2
    <3>2. \/ g_ref' = [valid |-> TRUE,
                      age |-> Gimbal(p)!Capped(g_age["yaw"], GimbalConf[p].FreshMs)]
          \/ g_ref' = g_ref
      BY <1>2
    <3>3. \/ g_yaw' = [from |-> "taken", old |-> FALSE, current |-> FALSE]
          \/ g_yaw' = g_yaw
      BY <1>2
    <3>4. g_pitch'.from = "initial" \/ g_pitch' = g_pitch
      BY <1>2
    <3>5. g_ref' \in [valid : BOOLEAN, age : 0 .. GimbalConf[p].FreshMs]
      <4>1. CASE g_ref' = [valid |-> TRUE,
                           age |-> Gimbal(p)!Capped(g_age["yaw"], GimbalConf[p].FreshMs)]
        BY <1>5, <4>1
      <4>2. CASE g_ref' = g_ref
        BY <1>4, <4>2 DEF Gimbal!TypeOK
      <4>3. QED BY <3>2, <4>1, <4>2
    <3>6. g_yaw' \in Gimbal(p)!Target({"taken", "stick", "released", "rest", "spin", "vision"})
      <4>1. CASE g_yaw' = [from |-> "taken", old |-> FALSE, current |-> FALSE]
        BY <4>1 DEF Gimbal!Target
      <4>2. CASE g_yaw' = g_yaw
        BY <1>4, <4>2 DEF Gimbal!TypeOK
      <4>3. QED BY <3>3, <4>1, <4>2
    <3>7. g_captured' \in BOOLEAN /\ g_pitch'.from \in {"initial", "measured", "vision"}
      BY <1>4, <3>1, <3>4 DEF Gimbal!TypeOK
    <3>8. QED BY <3>5, <3>6, <3>7
  <2>2. QED BY <1>1, <1>4, <2>1 DEF Gimbal!TypeOK
<1>7. Gimbal(p)!HoldInv'
  BY <1>1, <1>3, <1>6 DEF Gimbal!HoldInv, Gimbal!DrivesWhenStable, Gimbal!ForgetsTargets,
     Gimbal!AimsAtLastMessage
<1>8. WaitIsCounted(p)' /\ ModeIsDriven(p)' /\ BrakeIsCounted(p)'
  BY <1>1, <1>3 DEF GimbalIInv, WaitIsCounted, ModeIsDriven, BrakeIsCounted
<1>9. TargetsAreNew(p)' /\ VisionIsTaken(p)'
  <2>1. g_pitch' \in PitchTargets /\ ~g_pitch'.vision
    <3>1. \/ g_pitch' = [from |-> "initial", old |-> FALSE, current |-> FALSE, vision |-> FALSE]
          \/ g_pitch' = g_pitch
      BY <1>2
    <3>2. g_pitch \in PitchTargets /\ ~g_pitch.vision
      BY <1>3 DEF GimbalIInv, TargetsAreNew, VisionIsTaken
    <3>3. CASE g_pitch' = [from |-> "initial", old |-> FALSE, current |-> FALSE,
                           vision |-> FALSE]
      BY <3>3 DEF PitchTargets
    <3>4. CASE g_pitch' = g_pitch
      BY <3>2, <3>4
    <3>5. QED BY <3>1, <3>3, <3>4
  <2>2. g_captured' /\ g_ref'.valid => ~g_yaw'.old /\ ~g_pitch'.old
    <3>1. \/ ~g_yaw'.old /\ ~g_pitch'.old
          \/ UNCHANGED <<g_captured, g_ref, g_yaw, g_pitch>>
      BY <1>2
    <3>2. QED BY <3>1 DEF GimbalIInv, TargetsAreNew
  <2>3. QED BY <1>1, <1>3, <2>1, <2>2 DEF TargetsAreNew, VisionIsTaken
<1>10. QED BY <1>7, <1>8, <1>9 DEF GimbalIInv

LEMMA Answers ==
    ASSUME NEW p \in DOMAIN GimbalConf, GimbalIInv(p), Gimbal(p)!Answer
    PROVE  GimbalIInv(p)'
<1>1. UNCHANGED <<g_booting, g_steady, g_captured, g_limitFault, g_ref,
                  g_mode, g_stop, g_yaw, g_pitch, g_frame, g_taken, g_on, g_past>>
  BY DEF Gimbal!Answer, Gimbal!start, Gimbal!targets
<1>2. Gimbal(p)!TypeOK
  BY DEF GimbalIInv, Gimbal!HoldInv
<1>3. g_age' \in [Gimbal(p)!Axes -> 0 .. Gimbal(p)!Never] /\ g_inside' \in BOOLEAN
  BY <1>2, Feedback DEF Gimbal!Answer
<1>4. Gimbal(p)!HoldInv'
  BY <1>1, <1>3 DEF GimbalIInv, Gimbal!HoldInv, Gimbal!TypeOK, Gimbal!DrivesWhenStable,
     Gimbal!ForgetsTargets, Gimbal!AimsAtLastMessage
<1>5. WaitIsCounted(p)' /\ TargetsAreNew(p)' /\ ModeIsDriven(p)' /\ VisionIsTaken(p)'
      /\ BrakeIsCounted(p)'
  BY <1>1 DEF GimbalIInv, WaitIsCounted, TargetsAreNew, ModeIsDriven, VisionIsTaken,
     BrakeIsCounted
<1>6. QED BY <1>4, <1>5 DEF GimbalIInv

----------------------------------------------------------------------------
(* A command: how long all was well, and the number of its frame. *)
LEMMA WaitsOn ==
    ASSUME NEW p \in DOMAIN GimbalConf, NEW time \in Int, NEW max \in Nat,
           time \in NoTime .. max, NEW gap \in Nat
    PROVE  LET since == Gimbal(p)!Since(time, gap, max)
           IN  /\ since \in 0 .. max
               /\ time # NoTime => since = IF time + gap < max THEN time + gap ELSE max
  BY GimbalNumbers DEF Gimbal!Since, Gimbal!Capped, NoTime

LEMMA WaitNow ==
    ASSUME NEW p \in DOMAIN GimbalConf, GimbalIInv(p), NEW command, NEW gap \in Nat,
           NEW plausible, NEW slow,
           Gimbal(p)!Remember(command, gap, plausible, slow),
           g_on' \in BOOLEAN,
           g_steady' = IF Gimbal(p)!Ready(command, gap) /\ ~g_on' THEN NoTime
                       ELSE Gimbal(p)!StableFor(command, gap)
    PROVE  /\ WaitIsCounted(p)'
           /\ g_steady' \in NoTime .. GimbalConf[p].StableMs
           /\ g_past'.slow = IF g_on' /\ slow
                             THEN Gimbal(p)!Since(g_past.slow, gap, GimbalConf[p].SettleMs)
                             ELSE NoTime
           /\ Gimbal(p)!Ready(command, gap) /\ g_on' =>
                g_past'.good >= GimbalConf[p].StableMs
<1>1. /\ GimbalConf[p].StableMs \in Nat /\ GimbalConf[p].SettleMs \in Nat
      /\ Gimbal(p)!NoTime = NoTime
  BY GimbalNumbers
<1>2. /\ g_steady = g_past.good /\ g_steady \in NoTime .. GimbalConf[p].StableMs
      /\ g_past.slow \in NoTime .. GimbalConf[p].SettleMs
  BY <1>1 DEF GimbalIInv, WaitIsCounted, Gimbal!HoldInv, Gimbal!TypeOK
<1> DEFINE usable == Gimbal(p)!Usable(command)
           ready == Gimbal(p)!Ready(command, gap)
           since == Gimbal(p)!Since(g_steady, gap, GimbalConf[p].StableMs)
           settled == Gimbal(p)!Since(g_past.slow, gap, GimbalConf[p].SettleMs)
<1>3. g_past'.good = IF usable /\ (ready => g_on') THEN since ELSE NoTime
  BY <1>1, <1>2 DEF Gimbal!Remember
<1>4. g_past'.slow = IF g_on' /\ slow THEN settled ELSE NoTime
  BY <1>1 DEF Gimbal!Remember
<1>5. Gimbal(p)!StableFor(command, gap) = IF usable THEN since ELSE NoTime
  BY <1>1 DEF Gimbal!StableFor
<1>6. ready => usable /\ since >= GimbalConf[p].StableMs
  BY <1>5 DEF Gimbal!Ready
<1>7. since \in 0 .. GimbalConf[p].StableMs /\ settled \in 0 .. GimbalConf[p].SettleMs
  <2>1. g_steady \in Int /\ g_past.slow \in Int
    BY <1>2, <1>1 DEF NoTime
  <2>2. QED BY <1>1, <1>2, <2>1, WaitsOn
<1>8. g_steady' = IF ready /\ ~g_on' THEN NoTime ELSE IF usable THEN since ELSE NoTime
  BY <1>5
<1> HIDE DEF usable, ready, since, settled
<1>9. g_steady' = g_past'.good
  BY <1>3, <1>6, <1>8
<1>10. g_past'.slow \in NoTime .. GimbalConf[p].SettleMs
       /\ g_steady' \in NoTime .. GimbalConf[p].StableMs
  BY <1>1, <1>4, <1>7, <1>8 DEF NoTime
<1>11. ready /\ g_on' => g_past'.good >= GimbalConf[p].StableMs
  BY <1>3, <1>6
<1>12. QED BY <1>4, <1>9, <1>10, <1>11 DEF WaitIsCounted, ready, settled

LEMMA FrameNow ==
    ASSUME NEW p \in DOMAIN GimbalConf, Gimbal(p)!TypeOK,
           NEW command, NEW new, Gimbal(p)!NewFrame(command, new)
    PROVE  /\ g_frame' \in 0 .. GimbalConf[p].Frames - 1
           /\ command # "disabled" => (new <=> g_frame' # g_frame)
<1>1. /\ GimbalConf[p].Frames \in Nat \ {0} /\ GimbalConf[p].Frames > 1
      /\ g_frame \in 0 .. GimbalConf[p].Frames - 1
  BY GimbalNumbers DEF Gimbal!TypeOK
<1>2. (g_frame + 1) % GimbalConf[p].Frames \in 0 .. GimbalConf[p].Frames - 1
  BY <1>1
<1>3. (g_frame + 1) % GimbalConf[p].Frames # g_frame
  <2> DEFINE d == GimbalConf[p].Frames
             x == g_frame + 1
  <2>1. x \in -d .. 2 * d - 1
    BY <1>1
  <2> HIDE DEF d
  <2>2. QED BY <1>1, <2>1, Wraps DEF d
<1>4. g_frame' = IF command = "disabled" THEN 0
                 ELSE IF new THEN (g_frame + 1) % GimbalConf[p].Frames ELSE g_frame
  BY DEF Gimbal!NewFrame
<1>5. QED BY <1>1, <1>2, <1>3, <1>4

(* Axes that are sent zero forget their mode and their targets. *)
LEMMA Releases ==
    ASSUME NEW p \in DOMAIN GimbalConf, GimbalIInv(p), NEW command, NEW gap \in Nat,
           NEW plausible, NEW slow, NEW new,
           Gimbal(p)!Receive(gap), Gimbal(p)!NewFrame(command, new),
           \/ Gimbal(p)!Idle(command, gap)
           \/ Gimbal(p)!Fail(command, gap, plausible),
           Gimbal(p)!Remember(command, gap, plausible, slow), UNCHANGED g_booting
    PROVE  GimbalIInv(p)' /\ ~g_on'
<1>1. /\ g_ref' = [valid |-> FALSE, age |-> 0] /\ g_mode' = "none"
      /\ g_stop' = [stick |-> FALSE, braking |-> FALSE, low |-> NoTime]
      /\ g_yaw' = Gimbal(p)!Old([g_yaw EXCEPT !.from = "taken"])
      /\ g_pitch' = [Gimbal(p)!Old(g_pitch) EXCEPT !.from = "measured", !.vision = FALSE]
      /\ g_taken' = g_taken /\ g_on' = FALSE
  BY GimbalNumbers DEF Gimbal!Idle, Gimbal!Fail, Gimbal!Release, Gimbal!NoStop
<1>2. Gimbal(p)!TypeOK /\ TargetsAreNew(p)
  BY DEF GimbalIInv, Gimbal!HoldInv
<1>3. g_yaw' \in YawTargets
  <2>1. g_yaw \in YawTargets
    BY <1>2 DEF Gimbal!TypeOK, Gimbal!Target, YawTargets
  <2>2. QED BY <1>1, <2>1 DEF Gimbal!Old, YawTargets
<1>4. g_pitch' \in PitchTargets /\ ~g_pitch'.vision
  <2>1. g_pitch \in PitchTargets
    BY <1>2 DEF TargetsAreNew
  <2>2. QED BY <1>1, <2>1 DEF Gimbal!Old, PitchTargets
<1>5. g_steady' = IF Gimbal(p)!Ready(command, gap) /\ ~g_on' THEN NoTime
                  ELSE Gimbal(p)!StableFor(command, gap)
  BY <1>1, GimbalNumbers DEF Gimbal!Idle, Gimbal!Fail, Gimbal!Invalid
<1>6. WaitIsCounted(p)' /\ g_steady' \in NoTime .. GimbalConf[p].StableMs
  <2>1. g_on' \in BOOLEAN
    BY <1>1
  <2>2. QED BY <1>5, <2>1, WaitNow
<1>7. g_captured' \in BOOLEAN /\ g_limitFault' \in BOOLEAN
  <2>1. g_captured \in BOOLEAN /\ g_limitFault \in BOOLEAN
    BY <1>2 DEF Gimbal!TypeOK
  <2>2. \/ g_captured' = (g_captured /\ Gimbal(p)!Usable(command))
        \/ g_captured' = FALSE
    BY DEF Gimbal!Idle, Gimbal!Fail, Gimbal!Invalid
  <2>3. g_captured' \in BOOLEAN
    BY <2>2
  <2>4. g_limitFault' = Gimbal(p)!LimitFault(command)
        \/ g_limitFault' = (Gimbal(p)!LimitFault(command) /\ ~Gimbal(p)!Captures(command, gap))
    BY DEF Gimbal!Idle, Gimbal!Fail
  <2>5. Gimbal(p)!LimitFault(command) \in BOOLEAN
    BY <2>1 DEF Gimbal!LimitFault
  <2>6. g_limitFault' \in BOOLEAN
    BY <2>4, <2>5
  <2>7. QED BY <2>3, <2>6
<1>8. Gimbal(p)!TypeOK'
  <2>1. g_age' \in [Gimbal(p)!Axes -> 0 .. Gimbal(p)!Never] /\ g_inside' \in BOOLEAN
    BY <1>2, Feedback
  <2>2. g_frame' \in 0 .. GimbalConf[p].Frames - 1
    BY <1>2, FrameNow
  <2>3. /\ g_ref' \in [valid : BOOLEAN, age : 0 .. GimbalConf[p].FreshMs]
        /\ g_stop' \in [stick : BOOLEAN, braking : BOOLEAN,
                        low : NoTime .. GimbalConf[p].SettleMs - 1]
    BY <1>1, GimbalNumbers DEF NoTime
  <2>4. g_yaw' \in Gimbal(p)!Target({"taken", "stick", "released", "rest", "spin", "vision"})
    BY <1>3 DEF Gimbal!Target, YawTargets
  <2>5. g_pitch'.from \in {"initial", "measured", "vision"}
    BY <1>4 DEF PitchTargets
  <2>6. g_booting' \in BOOLEAN
    BY <1>2 DEF Gimbal!TypeOK
  <2>7. QED BY <1>1, <1>6, <1>7, <2>1, <2>2, <2>3, <2>4, <2>5, <2>6, GimbalNumbers
            DEF Gimbal!TypeOK
<1>9. Gimbal(p)!HoldInv'
  BY <1>1, <1>8 DEF Gimbal!HoldInv, Gimbal!DrivesWhenStable, Gimbal!ForgetsTargets,
     Gimbal!AimsAtLastMessage
<1>10. TargetsAreNew(p)' /\ ModeIsDriven(p)' /\ VisionIsTaken(p)' /\ BrakeIsCounted(p)'
  BY <1>1, <1>4 DEF TargetsAreNew, ModeIsDriven, VisionIsTaken, BrakeIsCounted
<1>11. QED BY <1>1, <1>6, <1>9, <1>10 DEF GimbalIInv

----------------------------------------------------------------------------
(* Axes that are driven *)

(* The target the yaw mode starts from. *)
YawFrom(p, command, gap, new) ==
    LET captures == Gimbal(p)!Captures(command, gap)
        changed == captures \/ g_mode # Gimbal(p)!ModeOf(command)
    IN  CASE captures              -> Gimbal(p)!TakenYaw
          [] changed /\ ~captures  -> [g_yaw EXCEPT !.from = "taken"]
          [] OTHER                 -> Gimbal(p)!Outdated(g_yaw, new)

LEMMA Starts ==
    ASSUME NEW p \in DOMAIN GimbalConf, GimbalIInv(p), NEW command, NEW gap \in Nat,
           NEW plausible, NEW new \in BOOLEAN, Gimbal(p)!Drives(command, gap, plausible)
    PROVE  LET captures == Gimbal(p)!Captures(command, gap)
               changed == captures \/ g_mode # Gimbal(p)!ModeOf(command)
               from == YawFrom(p, command, gap, new)
               still == IF captures THEN Gimbal(p)!TakenPitch(Gimbal(p)!PitchStart)
                        ELSE Gimbal(p)!Outdated(g_pitch, new)
           IN  /\ from \in YawTargets /\ ~from.old
               /\ changed => from.from = "taken"
               /\ ~changed => from.from = g_yaw.from /\ from.current = (g_yaw.current /\ ~new)
               /\ still \in PitchTargets /\ ~still.old
               /\ captures => ~still.vision
               /\ ~captures => /\ still.vision = g_pitch.vision
                               /\ still.current = (g_pitch.current /\ ~new)
<1> DEFINE captures == Gimbal(p)!Captures(command, gap)
           changed == captures \/ g_mode # Gimbal(p)!ModeOf(command)
           from == YawFrom(p, command, gap, new)
           still == IF captures THEN Gimbal(p)!TakenPitch(Gimbal(p)!PitchStart)
                    ELSE Gimbal(p)!Outdated(g_pitch, new)
<1>1. g_yaw \in YawTargets /\ g_pitch \in PitchTargets
  BY DEF GimbalIInv, Gimbal!HoldInv, Gimbal!TypeOK, Gimbal!Target, TargetsAreNew, YawTargets
<1>2. ~captures => ~g_yaw.old /\ ~g_pitch.old
  <2>1. Gimbal(p)!Ready(command, gap)
    BY DEF Gimbal!Drives
  <2>2. ~captures => g_captured /\ g_ref.valid
    BY <2>1 DEF Gimbal!Drives, Gimbal!Captures, Gimbal!InTime
  <2>3. QED BY <2>2 DEF GimbalIInv, TargetsAreNew
<1>3. CASE captures
  <2>1. from = [from |-> "taken", old |-> FALSE, current |-> FALSE]
    BY <1>3 DEF YawFrom, Gimbal!TakenYaw
  <2>2. Gimbal(p)!PitchStart \in {"initial", "measured", "vision"}
    BY DEF Gimbal!PitchStart
  <2>3. still = [from |-> Gimbal(p)!PitchStart, old |-> FALSE, current |-> FALSE,
                 vision |-> FALSE]
    BY <1>3 DEF Gimbal!TakenPitch
  <2> HIDE DEF from, still, captures
  <2>4. from \in YawTargets /\ ~from.old /\ from.from = "taken"
    BY <2>1 DEF YawTargets
  <2>5. still \in PitchTargets /\ ~still.old /\ ~still.vision
    BY <2>2, <2>3 DEF PitchTargets
  <2>6. QED BY <1>3, <2>4, <2>5 DEF from, still, captures
<1>4. CASE ~captures
  <2>1. still = [g_pitch EXCEPT !.current = g_pitch.current /\ ~new]
    BY <1>4 DEF Gimbal!Outdated
  <2>2. from = IF changed THEN [g_yaw EXCEPT !.from = "taken"]
               ELSE [g_yaw EXCEPT !.current = g_yaw.current /\ ~new]
    BY <1>4 DEF YawFrom, Gimbal!Outdated
  <2> HIDE DEF from, still, captures
  <2>3. still \in PitchTargets /\ ~still.old /\ still.vision = g_pitch.vision
        /\ still.current = (g_pitch.current /\ ~new)
    BY <1>1, <1>2, <1>4, <2>1 DEF PitchTargets
  <2>4. CASE changed
    <3>1. from \in YawTargets /\ ~from.old /\ from.from = "taken"
      BY <1>1, <1>2, <1>4, <2>2, <2>4 DEF YawTargets
    <3>2. QED BY <1>4, <2>3, <2>4, <3>1 DEF from, still, captures
  <2>5. CASE ~changed
    <3>1. /\ from \in YawTargets /\ ~from.old /\ from.from = g_yaw.from
          /\ from.current = (g_yaw.current /\ ~new)
      BY <1>1, <1>2, <1>4, <2>2, <2>5 DEF YawTargets
    <3>2. QED BY <1>4, <2>3, <2>5, <3>1 DEF from, still, captures
  <2>6. QED BY <2>4, <2>5
<1>5. QED BY <1>3, <1>4

(* The manual stop: a brake ends with time it has counted. *)
LEMMA Brakes ==
    ASSUME NEW p \in DOMAIN GimbalConf, NEW before \in Stops(p), NEW from \in YawTargets,
           NEW command, NEW gap \in Nat, NEW slow \in BOOLEAN, NEW moves \in BOOLEAN,
           Gimbal(p)!ManualStop(command, before, from, gap, slow, moves)
    PROVE  /\ g_stop' \in Stops(p) /\ g_yaw' \in YawTargets /\ g_yaw'.old = from.old
           /\ \/ g_stop'.stick \/ g_stop'.braking \/ g_yaw'.from = "rest"
              \/ g_yaw'.from = from.from /\ ~before.stick /\ ~before.braking
           /\ g_stop'.low # NoTime =>
                /\ slow
                /\ g_stop'.low = 0 \/ (before.low # NoTime /\ g_stop'.low = before.low + gap)
           /\ before.braking /\ ~g_stop'.stick /\ ~g_stop'.braking =>
                slow /\ before.low # NoTime /\ before.low + gap >= GimbalConf[p].SettleMs
<1> DEFINE S == GimbalConf[p].SettleMs
           braking == before.braking \/ before.stick
           low == IF ~braking \/ ~slow THEN NoTime
                  ELSE IF before.stick \/ before.low = NoTime THEN 0
                  ELSE before.low + gap
<1>1. S \in Nat \ {0} /\ Gimbal(p)!NoTime = NoTime
  BY GimbalNumbers
<1>2. /\ before.stick \in BOOLEAN /\ before.braking \in BOOLEAN
      /\ before.low \in NoTime .. S - 1
  BY DEF Stops
<1>3. low \in Int /\ (low # NoTime => low >= 0) /\ low >= NoTime
  BY <1>1, <1>2 DEF NoTime
<1>4. \/ /\ command = "stick"
         /\ g_stop' = [stick |-> TRUE, braking |-> FALSE, low |-> NoTime]
         /\ g_yaw' = IF moves THEN [from EXCEPT !.from = "stick"] ELSE from
      \/ /\ command = "rest" /\ low < S
         /\ g_stop' = [stick |-> FALSE, braking |-> braking, low |-> low]
         /\ g_yaw' = IF before.stick THEN [from EXCEPT !.from = "released"] ELSE from
      \/ /\ command = "rest" /\ low >= S
         /\ g_stop' = [stick |-> FALSE, braking |-> FALSE, low |-> NoTime]
         /\ g_yaw' = [from EXCEPT !.from = "rest"]
  BY <1>1 DEF Gimbal!ManualStop, Gimbal!NoStop, Gimbal!Settled
<1>5. braking \in BOOLEAN
  BY <1>2
<1>6. /\ low # NoTime => /\ slow
                         /\ low = 0 \/ (before.low # NoTime /\ low = before.low + gap)
      /\ low >= S => slow /\ before.low # NoTime /\ before.low + gap >= S
  BY <1>1, <1>2 DEF NoTime
<1>7. braking <=> before.braking \/ before.stick
  OBVIOUS
<1>8. NoTime \in NoTime .. S - 1 /\ (low < S => low \in NoTime .. S - 1)
  BY <1>1, <1>3 DEF NoTime
<1> HIDE DEF low, braking, S
<1>9. CASE /\ g_stop' = [stick |-> TRUE, braking |-> FALSE, low |-> NoTime]
           /\ g_yaw' = IF moves THEN [from EXCEPT !.from = "stick"] ELSE from
  <2>1. g_stop' \in Stops(p) /\ g_stop'.stick /\ g_stop'.low = NoTime
    BY <1>8, <1>9 DEF Stops, S
  <2>2. g_yaw' \in YawTargets /\ g_yaw'.old = from.old
    BY <1>9 DEF YawTargets
  <2>3. QED BY <2>1, <2>2
<1>10. CASE /\ low < S
            /\ g_stop' = [stick |-> FALSE, braking |-> braking, low |-> low]
            /\ g_yaw' = IF before.stick THEN [from EXCEPT !.from = "released"] ELSE from
  <2>1. g_stop' \in Stops(p) /\ g_stop'.braking = braking /\ g_stop'.low = low
    BY <1>5, <1>8, <1>10 DEF Stops, S
  <2>2. /\ g_yaw' \in YawTargets /\ g_yaw'.old = from.old
        /\ ~before.stick => g_yaw'.from = from.from
    BY <1>2, <1>10 DEF YawTargets
  <2>3. QED BY <1>6, <1>7, <2>1, <2>2
<1>11. CASE /\ low >= S
            /\ g_stop' = [stick |-> FALSE, braking |-> FALSE, low |-> NoTime]
            /\ g_yaw' = [from EXCEPT !.from = "rest"]
  <2>1. g_stop' \in Stops(p) /\ g_stop'.low = NoTime
    BY <1>8, <1>11 DEF Stops, S
  <2>2. g_yaw' \in YawTargets /\ g_yaw'.old = from.old /\ g_yaw'.from = "rest"
    BY <1>11 DEF YawTargets
  <2>3. QED BY <1>6, <1>11, <2>1, <2>2 DEF S
<1>12. QED BY <1>4, <1>9, <1>10, <1>11

LEMMA DrivesOn ==
    ASSUME NEW p \in DOMAIN GimbalConf, GimbalIInv(p),
           NEW command \in GimbalConf[p].Commands, NEW gap \in Nat,
           NEW plausible, NEW slow \in BOOLEAN, NEW new \in BOOLEAN,
           Gimbal(p)!Receive(gap), Gimbal(p)!NewFrame(command, new),
           Gimbal(p)!Drive(command, gap, plausible, slow, new),
           Gimbal(p)!Remember(command, gap, plausible, slow),
           g_booting = FALSE, g_booting' = FALSE
    PROVE  GimbalIInv(p)' /\ Gimbal(p)!HoldsWhereItStopped
<1> DEFINE ready == Gimbal(p)!Ready(command, gap)
           captures == Gimbal(p)!Captures(command, gap)
           kind == Gimbal(p)!ModeOf(command)
           changed == captures \/ g_mode # kind
           from == YawFrom(p, command, gap, new)
           before == IF changed THEN [stick |-> FALSE, braking |-> FALSE, low |-> NoTime]
                     ELSE g_stop
           still == IF captures THEN Gimbal(p)!TakenPitch(Gimbal(p)!PitchStart)
                    ELSE Gimbal(p)!Outdated(g_pitch, new)
           S == GimbalConf[p].SettleMs
<1>1. /\ Gimbal(p)!TypeOK /\ WaitIsCounted(p) /\ ModeIsDriven(p) /\ VisionIsTaken(p)
      /\ BrakeIsCounted(p) /\ Gimbal(p)!AimsAtLastMessage
  BY DEF GimbalIInv, Gimbal!HoldInv
<1>2. /\ Gimbal(p)!Drives(command, gap, plausible)
      /\ g_steady' = Gimbal(p)!StableFor(command, gap) /\ g_captured' = TRUE
      /\ g_limitFault' = (Gimbal(p)!LimitFault(command) /\ ~captures)
      /\ g_ref' = [valid |-> TRUE, age |-> g_age'["yaw"]]
      /\ g_mode' = kind
      /\ Gimbal(p)!YawTarget(command, before, from, gap, slow, changed)
      /\ Gimbal(p)!PitchTarget(command, still)
      /\ g_taken' = IF command = "vision" THEN [yaw |-> g_frame', pitch |-> g_frame'] ELSE g_taken
      /\ g_on' = TRUE
  BY GimbalNumbers DEF Gimbal!Drive, Gimbal!NoStop, YawFrom
<1>3. ready /\ Gimbal(p)!Fresh /\ command # "disabled"
  BY <1>2 DEF Gimbal!Drives, Gimbal!Ready, Gimbal!Usable
<1>4. /\ command \in {"vision", "spin", "stick", "rest"}
      /\ kind \in {"manual", "spin", "vision"}
      /\ kind = "vision" <=> command = "vision"
      /\ kind = "manual" <=> command \in {"stick", "rest"}
  <2>1. command \in {"vision", "spin", "stick", "rest"}
    BY <1>3, GimbalNumbers
  <2>2. QED BY <2>1 DEF Gimbal!ModeOf
<1>5. /\ from \in YawTargets /\ ~from.old
      /\ changed => from.from = "taken"
      /\ ~changed => from.from = g_yaw.from /\ from.current = (g_yaw.current /\ ~new)
      /\ still \in PitchTargets /\ ~still.old
      /\ captures => ~still.vision
      /\ ~captures => still.vision = g_pitch.vision /\ still.current = (g_pitch.current /\ ~new)
  BY <1>2, Starts
<1>6. g_frame' \in 0 .. GimbalConf[p].Frames - 1 /\ (new <=> g_frame' # g_frame)
  BY <1>1, <1>3, FrameNow
<1>7. before \in Stops(p)
  <2>1. g_stop \in Stops(p)
    BY <1>1, GimbalNumbers DEF Gimbal!TypeOK, Stops
  <2>2. [stick |-> FALSE, braking |-> FALSE, low |-> NoTime] \in Stops(p)
    BY GimbalNumbers DEF Stops, NoTime
  <2>3. QED BY <2>1, <2>2
<1>8. /\ WaitIsCounted(p)' /\ g_steady' \in NoTime .. GimbalConf[p].StableMs
      /\ g_past'.slow = IF slow THEN Gimbal(p)!Since(g_past.slow, gap, S) ELSE NoTime
      /\ g_past'.good >= GimbalConf[p].StableMs
  <2>1. /\ g_on' \in BOOLEAN /\ g_on'
        /\ g_steady' = IF ready /\ ~g_on' THEN NoTime ELSE Gimbal(p)!StableFor(command, gap)
    BY <1>2
  <2>2. QED BY <1>3, <2>1, WaitNow
<1>9. ~changed => g_mode = kind /\ g_on
  BY <1>1, <1>4 DEF ModeIsDriven
(* In a mode that goes on there is no capture. *)
<1>10. g_mode = kind => ~changed
  <2>1. g_mode = kind => g_captured
    BY <1>1, <1>4 DEF ModeIsDriven
  <2>2. QED BY <2>1 DEF Gimbal!Captures
<1> HIDE DEF ready, captures, kind, changed, from, before, still, S
<1>11. /\ g_stop' \in Stops(p) /\ g_yaw' \in YawTargets /\ ~g_yaw'.old
       /\ kind = "vision" => g_yaw'.current
       /\ kind = "manual" =>
            /\ \/ g_stop'.stick \/ g_stop'.braking \/ g_yaw'.from = "rest"
               \/ g_yaw'.from = from.from /\ ~before.stick /\ ~before.braking
            /\ g_stop'.low # NoTime =>
                 /\ slow
                 /\ g_stop'.low = 0 \/ (before.low # NoTime /\ g_stop'.low = before.low + gap)
            /\ before.braking /\ ~g_stop'.stick /\ ~g_stop'.braking =>
                 slow /\ before.low # NoTime /\ before.low + gap >= S
  <2>1. CASE kind = "manual"
    <3>1. PICK moves \in BOOLEAN :
            Gimbal(p)!ManualStop(command, before, from, gap, slow, moves)
      <4>1. Gimbal(p)!ManualStop(command, before, from, gap, slow, ~changed)
        BY <1>2, <1>4, <2>1 DEF Gimbal!YawTarget
      <4>2. (~changed) \in BOOLEAN
        OBVIOUS
      <4>3. QED BY <4>1, <4>2
    <3>2. QED BY <1>5, <1>7, <2>1, <3>1, Brakes DEF S
  <2>2. CASE kind = "spin"
    <3>1. g_yaw' = [from EXCEPT !.from = "spin"] /\ g_stop' = before
      BY <1>2, <1>4, <2>2 DEF Gimbal!YawTarget, Gimbal!ModeOf, kind
    <3>2. g_yaw' \in YawTargets /\ ~g_yaw'.old
      BY <1>5, <3>1 DEF YawTargets
    <3>3. QED BY <1>7, <2>2, <3>1, <3>2
  <2>3. CASE kind = "vision"
    <3>1. /\ g_yaw' = IF Gimbal(p)!Anchors(changed, g_taken.yaw)
                      THEN [from EXCEPT !.from = "vision", !.current = TRUE] ELSE from
          /\ g_stop' = before
      BY <1>2, <1>4, <2>3 DEF Gimbal!YawTarget, Gimbal!ModeOf, kind
    <3>2. g_yaw' \in YawTargets /\ ~g_yaw'.old
      BY <1>5, <3>1 DEF YawTargets
    <3>3. g_yaw'.current
      <4>1. CASE Gimbal(p)!Anchors(changed, g_taken.yaw)
        BY <1>5, <3>1, <4>1 DEF YawTargets
      <4>2. CASE ~Gimbal(p)!Anchors(changed, g_taken.yaw)
        <5>1. ~changed /\ g_taken.yaw = g_frame'
          BY <4>2 DEF Gimbal!Anchors
        <5>2. g_taken.yaw = g_frame /\ g_yaw.current
          BY <1>1, <1>9, <2>3, <5>1 DEF VisionIsTaken, Gimbal!AimsAtLastMessage
        <5>3. ~new
          BY <1>6, <5>1, <5>2
        <5>4. from.current
          BY <1>5, <5>1, <5>2, <5>3
        <5>5. QED BY <3>1, <4>2, <5>4
      <4>3. QED BY <4>1, <4>2
    <3>4. QED BY <1>7, <2>3, <3>1, <3>2, <3>3
  <2>4. QED BY <1>4, <2>1, <2>2, <2>3
<1>12. /\ g_pitch' \in PitchTargets /\ ~g_pitch'.old
       /\ g_pitch'.vision <=> kind = "vision"
       /\ kind = "vision" => g_pitch'.current
  <2>1. CASE command = "vision" /\ Gimbal(p)!Anchors(~still.vision, g_taken.pitch)
    <3>1. g_pitch' = [still EXCEPT !.from = "vision", !.current = TRUE, !.vision = TRUE]
      BY <1>2, <2>1 DEF Gimbal!PitchTarget
    <3>2. g_pitch' \in PitchTargets /\ ~g_pitch'.old /\ g_pitch'.vision /\ g_pitch'.current
      BY <1>5, <3>1 DEF PitchTargets
    <3>3. QED BY <1>4, <2>1, <3>2
  <2>2. CASE command # "vision" /\ still.vision
    <3>1. g_pitch' = [still EXCEPT !.from = "measured", !.vision = FALSE]
      BY <1>2, <2>2 DEF Gimbal!PitchTarget
    <3>2. g_pitch' \in PitchTargets /\ ~g_pitch'.old /\ ~g_pitch'.vision
      BY <1>5, <3>1 DEF PitchTargets
    <3>3. QED BY <1>4, <2>2, <3>2
  <2>3. CASE command = "vision" /\ ~Gimbal(p)!Anchors(~still.vision, g_taken.pitch)
    <3>1. g_pitch' = still
      BY <1>2, <2>3 DEF Gimbal!PitchTarget
    <3>2. still.vision /\ g_taken.pitch = g_frame'
      BY <2>3 DEF Gimbal!Anchors
    <3>3. ~captures /\ g_pitch.vision
      BY <1>5, <3>2
    <3>4. g_mode = "vision" /\ g_on
      BY <1>1, <3>3 DEF VisionIsTaken, ModeIsDriven
    <3>5. g_taken.pitch = g_frame /\ g_pitch.current
      BY <1>1, <3>4 DEF VisionIsTaken, Gimbal!AimsAtLastMessage
    <3>6. still.current
      BY <1>5, <1>6, <3>2, <3>3, <3>5
    <3>7. QED BY <1>4, <1>5, <2>3, <3>1, <3>2, <3>6
  <2>4. CASE command # "vision" /\ ~still.vision
    <3>1. g_pitch' = still
      BY <1>2, <2>4 DEF Gimbal!PitchTarget
    <3>2. QED BY <1>4, <1>5, <2>4, <3>1
  <2>5. QED BY <2>1, <2>2, <2>3, <2>4
<1>13. g_limitFault' \in BOOLEAN
  <2>1. Gimbal(p)!LimitFault(command) \in BOOLEAN
    BY <1>1 DEF Gimbal!LimitFault, Gimbal!TypeOK
  <2>2. QED BY <1>2, <2>1
<1>14. Gimbal(p)!TypeOK'
  <2>1. g_age' \in [Gimbal(p)!Axes -> 0 .. Gimbal(p)!Never] /\ g_inside' \in BOOLEAN
    BY <1>1, Feedback
  <2>2. g_age'["yaw"] \in 0 .. GimbalConf[p].FreshMs
    <3>1. g_age'["yaw"] \in 0 .. Gimbal(p)!Never /\ g_age'["yaw"] <= GimbalConf[p].FreshMs
      BY <1>3, <2>1 DEF Gimbal!Axes, Gimbal!Fresh
    <3>2. QED BY <3>1, GimbalNumbers
  <2>3. g_ref' \in [valid : BOOLEAN, age : 0 .. GimbalConf[p].FreshMs]
    BY <1>2, <2>2
  <2>4. g_yaw' \in Gimbal(p)!Target({"taken", "stick", "released", "rest", "spin", "vision"})
    BY <1>11 DEF Gimbal!Target, YawTargets
  <2>5. g_pitch'.from \in {"initial", "measured", "vision"}
    BY <1>12 DEF PitchTargets
  <2>6. g_stop' \in [stick : BOOLEAN, braking : BOOLEAN,
                     low : NoTime .. GimbalConf[p].SettleMs - 1]
    BY <1>11 DEF Stops
  <2>7. g_mode' \in {"none", "manual", "spin", "vision"}
    BY <1>2, <1>4
  <2>8. QED BY <1>2, <1>6, <1>8, <1>13, <2>1, <2>3, <2>4, <2>5, <2>6, <2>7, GimbalNumbers
            DEF Gimbal!TypeOK
<1>15. Gimbal(p)!HoldInv'
  BY <1>2, <1>8, <1>11, <1>12, <1>14 DEF Gimbal!HoldInv, Gimbal!DrivesWhenStable,
     Gimbal!ForgetsTargets, Gimbal!AimsAtLastMessage
<1>16. TargetsAreNew(p)' /\ ModeIsDriven(p)' /\ VisionIsTaken(p)'
  BY <1>2, <1>4, <1>11, <1>12 DEF TargetsAreNew, ModeIsDriven, VisionIsTaken
<1>17. g_past.slow \in NoTime .. S /\ S \in Nat \ {0}
  BY <1>1, GimbalNumbers DEF WaitIsCounted, S
<1>18. /\ ~changed /\ kind = "manual" => before = g_stop /\ g_mode = "manual"
       /\ changed => before.low = NoTime /\ ~before.braking /\ ~before.stick
  <2>1. changed => before.low = NoTime /\ ~before.braking /\ ~before.stick
    BY DEF before
  <2>2. ~changed => before = g_stop
    BY DEF before
  <2>3. QED BY <1>9, <2>1, <2>2
<1>19. kind = "manual" /\ before.low # NoTime /\ slow =>
         /\ g_past.slow >= before.low /\ before.low \in Nat
         /\ g_past'.slow = IF g_past.slow + gap < S THEN g_past.slow + gap ELSE S
  <2> SUFFICES ASSUME kind = "manual", before.low # NoTime, slow
               PROVE  /\ g_past.slow >= before.low /\ before.low \in Nat
                      /\ g_past'.slow = IF g_past.slow + gap < S THEN g_past.slow + gap ELSE S
    OBVIOUS
  <2>1. g_past.slow >= before.low
    BY <1>1, <1>18 DEF BrakeIsCounted
  <2>2. before.low \in Nat
    BY <1>7, <1>17 DEF Stops, NoTime, S
  <2>3. g_past.slow # NoTime /\ g_past.slow \in Int
    BY <1>17, <2>1, <2>2 DEF NoTime
  <2>4. QED BY <1>8, <1>17, <2>1, <2>2, <2>3, WaitsOn
<1>20. BrakeIsCounted(p)'
  <2>1. g_mode' = "manual" /\ ~g_stop'.stick /\ ~g_stop'.braking => g_yaw'.from \in {"taken", "rest"}
    <3> SUFFICES ASSUME kind = "manual", ~g_stop'.stick, ~g_stop'.braking, g_yaw'.from # "rest"
                 PROVE  g_yaw'.from = "taken"
      BY <1>2
    <3>1. g_yaw'.from = from.from /\ ~before.stick /\ ~before.braking
      BY <1>11
    <3>2. CASE changed
      BY <1>5, <3>1, <3>2
    <3>3. CASE ~changed
      BY <1>1, <1>5, <1>18, <3>1, <3>3 DEF BrakeIsCounted
    <3>4. QED BY <3>2, <3>3
  <2>2. g_mode' = "manual" /\ g_stop'.low # NoTime => g_past'.slow >= g_stop'.low
    <3> SUFFICES ASSUME kind = "manual", g_stop'.low # NoTime
                 PROVE  g_past'.slow >= g_stop'.low
      BY <1>2
    <3>1. slow /\ g_stop'.low \in 0 .. S - 1
      BY <1>11, <1>17 DEF Stops, S, NoTime
    <3>2. CASE g_stop'.low = 0
      <4>1. g_past.slow \in Int
        BY <1>17 DEF NoTime
      <4>2. Gimbal(p)!Since(g_past.slow, gap, S) \in 0 .. S
        BY <1>17, <4>1, WaitsOn
      <4>3. QED BY <1>8, <1>17, <3>1, <3>2, <4>2
    <3>3. CASE before.low # NoTime /\ g_stop'.low = before.low + gap
      BY <1>17, <1>19, <3>1, <3>3 DEF NoTime
    <3>4. QED BY <1>11, <3>2, <3>3
  <2>3. QED BY <2>1, <2>2 DEF BrakeIsCounted
<1>21. Gimbal(p)!HoldsWhereItStopped
  <2> SUFFICES ASSUME g_mode' = "manual", ~g_stop'.stick, ~g_stop'.braking
               PROVE  /\ g_yaw'.from \in {"taken", "rest"}
                      /\ g_stop.braking /\ g_mode = "manual" => g_past'.slow >= S
    BY DEF Gimbal!HoldsWhereItStopped, S
  <2>1. g_yaw'.from \in {"taken", "rest"}
    BY <1>20 DEF BrakeIsCounted
  <2>2. ASSUME g_stop.braking, g_mode = "manual"
        PROVE  g_past'.slow >= S
    <3>1. kind = "manual" /\ ~changed
      BY <1>2, <1>10, <2>2
    <3>2. slow /\ before.low # NoTime /\ before.low + gap >= S
      BY <1>11, <1>18, <2>2, <3>1
    <3>3. QED BY <1>17, <1>19, <3>1, <3>2 DEF NoTime
  <2>3. QED BY <2>1, <2>2
<1>22. QED BY <1>8, <1>15, <1>16, <1>20, <1>21 DEF GimbalIInv

LEMMA GimbalNext ==
    ASSUME NEW p \in DOMAIN GimbalConf, GimbalIInv(p), Gimbal(p)!Next
    PROVE  GimbalIInv(p)' /\ Gimbal(p)!HoldsWhereItStopped
<1>1. CASE Gimbal(p)!Answer \/ Gimbal(p)!Align
  <2>1. GimbalIInv(p)'
    BY <1>1, Answers, Aligns
  <2>2. g_on' = g_on /\ g_booting
    BY <1>1 DEF Gimbal!Answer, Gimbal!Align
  <2>3. ~g_on'
    BY <2>2 DEF GimbalIInv, ModeIsDriven
  <2>4. QED BY <2>1, <2>3 DEF Gimbal!HoldsWhereItStopped
<1>2. ASSUME NEW command \in GimbalConf[p].Commands, NEW gap \in 1 .. GimbalConf[p].MaxGap,
             NEW plausible \in BOOLEAN, NEW slow \in GimbalConf[p].Slows,
             NEW new \in GimbalConf[p].News,
             Gimbal(p)!Callback(command, gap, plausible, slow, new)
      PROVE  GimbalIInv(p)' /\ Gimbal(p)!HoldsWhereItStopped
  <2>1. gap \in Nat /\ slow \in BOOLEAN /\ new \in BOOLEAN
    BY GimbalNumbers
  <2>2. /\ ~g_booting /\ UNCHANGED g_booting
        /\ Gimbal(p)!Receive(gap) /\ Gimbal(p)!NewFrame(command, new)
        /\ Gimbal(p)!Remember(command, gap, plausible, slow)
    BY <1>2 DEF Gimbal!Callback
  <2>3. CASE Gimbal(p)!Idle(command, gap) \/ Gimbal(p)!Fail(command, gap, plausible)
    <3>1. GimbalIInv(p)' /\ ~g_on'
      BY <2>1, <2>2, <2>3, Releases
    <3>2. QED BY <3>1 DEF Gimbal!HoldsWhereItStopped
  <2>4. CASE Gimbal(p)!Drive(command, gap, plausible, slow, new)
    <3>1. g_booting = FALSE /\ g_booting' = FALSE
      BY <2>2 DEF GimbalIInv, Gimbal!HoldInv, Gimbal!TypeOK
    <3>2. QED BY <2>1, <2>2, <2>4, <3>1, DrivesOn
  <2>5. QED BY <1>2, <2>3, <2>4 DEF Gimbal!Callback
<1>3. QED BY <1>1, <1>2 DEF Gimbal!Next

GimbalsSound == \A p \in DOMAIN GimbalConf : part = p => GimbalIInv(p)

LEMMA GimbalsStart == AllInit => GimbalsSound
<1> SUFFICES ASSUME AllInit, NEW p \in DOMAIN GimbalConf, part = p
             PROVE  GimbalIInv(p)
  BY DEF GimbalsSound
<1>1. Gimbal(p)!Init
  BY DEF AllInit, GimbalInit
<1>2. QED BY <1>1, GimbalStarts

LEMMA GimbalsGoOn == GimbalsSound /\ [AllNext]_allVars => GimbalsSound'
<1> SUFFICES ASSUME GimbalsSound, [AllNext]_allVars,
                    NEW p \in DOMAIN GimbalConf, part' = p
             PROVE  GimbalIInv(p)'
  BY DEF GimbalsSound
<1>1. part = p /\ (UNCHANGED gimbal \/ Gimbal(p)!Next)
  BY DEF AllNext, allVars
<1>2. GimbalIInv(p)
  BY <1>1 DEF GimbalsSound
<1>3. QED BY <1>1, <1>2, GimbalNext, GimbalRests

(* process_gimbal_cmd drives the axes only after commands that were all     *)
(* well, to targets of now and to the last vision message, whatever the     *)
(* times between the commands, the feedback and the failures are.           *)
THEOREM GimbalHolds == AllSpec => []GimbalInv
<1>1. GimbalsSound => GimbalInv
  BY DEF GimbalsSound, GimbalInv, GimbalIInv
<1>2. QED BY <1>1, GimbalsStart, GimbalsGoOn, PTL DEF AllSpec

(* yaw_manual_stop: a manual yaw without stick and brake is held where it   *)
(* was taken over or came to rest, after SettleMs of slow motion.           *)
THEOREM GimbalChangesHold == AllSpec => GimbalChanges
<1> DEFINE Change == \A p \in DOMAIN GimbalConf : part = p => Gimbal(p)!HoldsWhereItStopped
<1>1. GimbalsSound /\ [AllNext]_allVars => [Change]_gimbal
  <2> SUFFICES ASSUME GimbalsSound, [AllNext]_allVars, ~UNCHANGED gimbal,
                      NEW p \in DOMAIN GimbalConf, part = p
               PROVE  Gimbal(p)!HoldsWhereItStopped
    OBVIOUS
  <2>1. Gimbal(p)!Next
    BY DEF AllNext, allVars
  <2>2. QED BY <2>1, GimbalNext DEF GimbalsSound
<1>2. QED BY <1>1, GimbalsStart, GimbalsGoOn, PTL DEF AllSpec, GimbalChanges

=============================================================================
