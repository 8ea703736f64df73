----------------------------- MODULE ShooterFeed -----------------------------
(***************************************************************************)
(* The shooter (application/shoot/shooter_controller.c): a feed motor that *)
(* pushes projectiles between friction wheels.  A jammed feed draws a high *)
(* current; after a while of it the feed runs backwards once, and a second *)
(* jam of the same request blocks it until the operator lets go.  A motor  *)
(* that stops reporting, or disarmed outputs, stop all of them.            *)
(*                                                                         *)
(* Concurrency.  Everything runs in the control task: reports and commands *)
(* are dispatched one after the other.  A command is handled by Update and *)
(* by ComputeCurrents, which read the clock each; time may pass between.   *)
(*                                                                         *)
(* Abstraction.  A timestamp is the time since it was taken, 0 where it is *)
(* not read.  Speeds count SHOOTER_RAMP_STEPs, a current is at least the   *)
(* stall threshold or not, and the PID controllers are left out.           *)
(***************************************************************************)
EXTENDS Integers

CONSTANTS
    Wheels,          \* the friction wheels
    Timeout,         \* MOTOR_FEEDBACK_TIMEOUT_MS
    StallTime,       \* FEED_STALL_DURATION_MS
    ReverseTime,     \* FEED_REVERSE_DURATION_MS
    FeedSteps,       \* MOTOR5_CONST_SPEED / SHOOTER_RAMP_STEP
    WheelSteps,      \* SHOOTER_CONST_SPEED / SHOOTER_RAMP_STEP
    MaxGap,          \* longest time between two computations
    MaxDelay         \* longest time from a report's reception to its dispatch

ASSUME ShooterAssumption ==
    /\ {Timeout, FeedSteps, WheelSteps, MaxDelay} \subseteq Nat
    /\ {StallTime, ReverseTime, MaxGap} \subseteq Nat \ {0}
    /\ "feed" \notin Wheels

VARIABLES
    s_last_cmd,      \* the command being handled: feed, friction
    handler,         \* "idle", or "compute" between Update and ComputeCurrents
    seen, age,       \* per motor: a report came, time since its reception
    current,         \* "high" or "low", the feed motor's last report
    recovery,        \* FeedRecovery
    ramped_turntable, ramped_shooter,
    output,          \* the last command given to the motor service
    threshold,       \* g_feed_stall_current_threshold is positive
    armed,           \* BspCan_OutputsArmed()
    sinceControl,    \* time since the last ComputeCurrents
    pressing,        \* history: time without a low current or an interruption
    reversals,       \* history: reversals of this request (2: or more)
    reversedFor      \* history: time the feed has been commanded backwards

vars == <<s_last_cmd, handler, seen, age, current, recovery, ramped_turntable,
          ramped_shooter, output, threshold, armed, sinceControl, pressing,
          reversals, reversedFor>>

reports == <<seen, age, current>>
speeds == <<recovery, ramped_turntable, ramped_shooter>>
history == <<pressing, reversals, reversedFor>>

Motors == Wheels \cup {"feed"}
MaxAge == Timeout + MaxGap + 1
Backwards == -1

Cancelled == [state |-> "monitoring", attempted |-> FALSE, active |-> FALSE,
              since |-> 0, check |-> 0, reverse |-> 0]

Quiet(r) == [r EXCEPT !.active = FALSE, !.since = 0, !.check = 0]

Healthy == \A m \in Motors : seen[m] /\ age[m] <= Timeout

RampTowards(speed, target) ==
    CASE speed < target -> speed + 1
      [] speed > target -> speed - 1
      [] OTHER -> target

(* Mutant: a stop forgets what the request has used up. *)
StoppedRecovery_Forgets(r) == Cancelled

StoppedRecovery(r) ==
    [Quiet(r) EXCEPT !.state = IF @ = "reversing" THEN "monitoring" ELSE @,
                     !.reverse = 0]

(* ShooterController_Stop, from the recovery r. *)
Stop(r) ==
    /\ recovery' = StoppedRecovery(r)
    /\ ramped_turntable' = 0
    /\ ramped_shooter' = 0
    /\ output' = [feed |-> "zero", wheels |-> "zero"]
    /\ pressing' = 0

(* Both halves start with CancelFeedRecovery unless feeding is asked for. *)
Requested(cmd) == IF cmd.feed THEN recovery ELSE Cancelled

----------------------------------------------------------------------------
(* on_shoot_cmd, up to the end of ShooterController_Update *)
Update(cmd) ==
    /\ handler = "idle"
    /\ s_last_cmd' = cmd
    /\ handler' = "compute"
    /\ IF ~Healthy \/ ~armed
       THEN Stop(Requested(cmd))
       ELSE /\ recovery' = Requested(cmd)
            /\ ramped_turntable' =
                 CASE ~cmd.feed -> 0
                   [] cmd.feed /\ recovery.state = "monitoring" ->
                        RampTowards(ramped_turntable, FeedSteps)
                   [] OTHER -> ramped_turntable
            /\ ramped_shooter' =
                 RampTowards(ramped_shooter, IF cmd.friction THEN WheelSteps ELSE 0)
            /\ pressing' = IF cmd.feed THEN pressing ELSE 0
            /\ UNCHANGED output
    /\ reversals' = IF cmd.feed THEN reversals ELSE 0
    /\ reversedFor' = IF output'.feed = "reverse" THEN reversedFor ELSE 0
    /\ UNCHANGED <<reports, threshold, armed, sinceControl>>

(* The observation of a high current, from now on if it was interrupted. *)
Observed ==
    LET goesOn == recovery.active /\ recovery.check <= Timeout
    IN  [recovery EXCEPT !.active = TRUE, !.since = IF goesOn THEN @ ELSE 0,
                         !.check = 0]

ReversalOver == recovery.reverse >= ReverseTime

(* Mutant: every jam is answered by a reversal. *)
AfterStall_Again == [Quiet(recovery) EXCEPT !.state = "reversing"]

AfterStall ==
    IF recovery.attempted THEN [Quiet(recovery) EXCEPT !.state = "blocked"]
    ELSE [Quiet(recovery) EXCEPT !.state = "reversing", !.attempted = TRUE]

(* UpdateFeedRecovery: the state and the speed of the feed. *)
UpdateFeedRecovery ==
    CASE ~threshold ->
           /\ recovery' = [Quiet(recovery) EXCEPT !.state = "blocked", !.reverse = 0]
           /\ ramped_turntable' = 0
      [] threshold /\ recovery.state = "reversing" /\ ~ReversalOver ->
           recovery' = recovery /\ ramped_turntable' = Backwards
      [] threshold /\ recovery.state = "reversing" /\ ReversalOver ->
           /\ recovery' = [Quiet(recovery) EXCEPT !.state = "monitoring", !.reverse = 0]
           /\ ramped_turntable' = 0
      [] threshold /\ recovery.state = "blocked" ->
           recovery' = recovery /\ ramped_turntable' = 0
      [] threshold /\ recovery.state = "monitoring" ->
           IF current = "low" \/ ramped_turntable <= 0
           THEN recovery' = Quiet(recovery) /\ UNCHANGED ramped_turntable
           ELSE IF Observed.since < StallTime
           THEN recovery' = Observed /\ UNCHANGED ramped_turntable
           ELSE /\ recovery' = AfterStall
                /\ ramped_turntable' = IF recovery.attempted THEN 0 ELSE Backwards

Direction(speed) ==
    CASE speed < 0 -> "reverse" [] speed = 0 -> "zero" [] OTHER -> "forward"

(* ShooterController_ComputeCurrents *)
ComputeCurrents ==
    /\ handler = "compute"
    /\ handler' = "idle"
    /\ sinceControl' = 0
    /\ IF ~Healthy \/ ~armed
       THEN Stop(Requested(s_last_cmd))
       ELSE /\ IF s_last_cmd.feed
               THEN UpdateFeedRecovery
               ELSE recovery' = Cancelled /\ ramped_turntable' = 0
            /\ output' = [feed |-> IF s_last_cmd.feed
                                   THEN Direction(ramped_turntable') ELSE "zero",
                          wheels |-> "loop"]
            /\ pressing' = IF s_last_cmd.feed /\ sinceControl <= Timeout
                           THEN pressing ELSE 0
            /\ UNCHANGED ramped_shooter
    /\ reversals' = IF recovery'.state = "reversing" /\ recovery.state # "reversing"
                       /\ reversals < 2
                    THEN reversals + 1 ELSE reversals
    /\ reversedFor' = IF output'.feed = "reverse" THEN reversedFor ELSE 0
    /\ UNCHANGED <<s_last_cmd, reports, threshold, armed>>

(* Mutant: only the computation looks at the current. *)
Interrupts_Later(m, reading) == FALSE

Interrupts(m, reading) == m = "feed" /\ reading = "low" /\ threshold

(* on_motor_feedback: a report received d ago. *)
UpdateMotorFeedback(m, reading, d) ==
    /\ handler = "idle"
    /\ seen[m] => d <= age[m]
    /\ seen' = [seen EXCEPT ![m] = TRUE]
    /\ age' = [age EXCEPT ![m] = d]
    /\ current' = IF m = "feed" THEN reading ELSE current
    /\ recovery' = IF Interrupts(m, reading) THEN Quiet(recovery) ELSE recovery
    /\ pressing' = IF m = "feed" /\ reading = "low" THEN 0 ELSE pressing
    /\ UNCHANGED <<s_last_cmd, handler, ramped_turntable, ramped_shooter, output,
                   threshold, armed, sinceControl, reversals, reversedFor>>

----------------------------------------------------------------------------
(* The threshold may be set while no feeding is requested; the outputs are *)
(* armed and disarmed between two handlers.                                *)
SetThreshold ==
    /\ handler = "idle" /\ ~s_last_cmd.feed
    /\ threshold' = ~threshold
    /\ UNCHANGED <<s_last_cmd, handler, reports, speeds, output, armed,
                   sinceControl, history>>

SetArmed ==
    /\ handler = "idle"
    /\ armed' = ~armed
    /\ UNCHANGED <<s_last_cmd, handler, reports, speeds, output, threshold,
                   sinceControl, history>>

Older(time, bound) == IF time < bound THEN time + 1 ELSE time

Tick ==
    /\ sinceControl < MaxGap
    /\ sinceControl' = sinceControl + 1
    /\ age' = [m \in Motors |-> Older(age[m], MaxAge)]
    /\ recovery' = [recovery EXCEPT
         !.since = IF recovery.active THEN Older(@, StallTime) ELSE @,
         !.check = IF recovery.active THEN Older(@, Timeout + 1) ELSE @,
         !.reverse = IF recovery.state = "reversing" THEN Older(@, ReverseTime) ELSE @]
    /\ pressing' = Older(pressing, StallTime)
    /\ reversedFor' = IF output.feed = "reverse"
                      THEN Older(reversedFor, ReverseTime + MaxGap) ELSE 0
    /\ UNCHANGED <<s_last_cmd, handler, seen, current, ramped_turntable,
                   ramped_shooter, output, threshold, armed, reversals>>

(* The router asks for feeding only with the wheels on. *)
Commands == {c \in [feed : BOOLEAN, friction : BOOLEAN] : c.feed => c.friction}

(* ShooterApp_Init, shortly after the clock started from zero. *)
Init ==
    /\ s_last_cmd = [feed |-> FALSE, friction |-> FALSE]
    /\ handler = "idle"
    /\ seen = [m \in Motors |-> FALSE]
    /\ age = [m \in Motors |-> 0]
    /\ current = "low"
    /\ recovery = Cancelled
    /\ ramped_turntable = 0 /\ ramped_shooter = 0
    /\ output = [feed |-> "zero", wheels |-> "zero"]
    /\ threshold = TRUE
    /\ armed \in BOOLEAN
    /\ sinceControl = 0
    /\ pressing = 0 /\ reversals = 0 /\ reversedFor = 0

Control == (\E cmd \in Commands : Update(cmd)) \/ ComputeCurrents

Next ==
    \/ Control
    \/ \E m \in Motors, reading \in {"high", "low"}, d \in 0 .. MaxDelay :
          UpdateMotorFeedback(m, reading, d)
    \/ SetThreshold
    \/ SetArmed
    \/ Tick

Spec == Init /\ [][Next]_vars

(* The router publishes a command in every control cycle. *)
FairSpec == Spec /\ WF_vars(Control) /\ WF_vars(Tick)

----------------------------------------------------------------------------
(* Properties *)

TypeOK ==
    /\ s_last_cmd \in Commands
    /\ handler \in {"idle", "compute"}
    /\ seen \in [Motors -> BOOLEAN]
    /\ age \in [Motors -> 0 .. MaxAge + MaxDelay]
    /\ current \in {"high", "low"}
    /\ recovery \in [state : {"monitoring", "reversing", "blocked"},
                     attempted : BOOLEAN, active : BOOLEAN, since : 0 .. StallTime,
                     check : 0 .. Timeout + 1, reverse : 0 .. ReverseTime]
    /\ ramped_turntable \in Backwards .. FeedSteps
    /\ ramped_shooter \in 0 .. WheelSteps
    /\ output \in [feed : {"reverse", "zero", "forward"}, wheels : {"zero", "loop"}]
    /\ threshold \in BOOLEAN /\ armed \in BOOLEAN
    /\ sinceControl \in 0 .. MaxGap
    /\ pressing \in 0 .. StallTime
    /\ reversals \in 0 .. 2
    /\ reversedFor \in 0 .. ReverseTime + MaxGap

(* One request to feed gets one reversal, whatever happens in between: lost *)
(* reports, disarmed outputs and good stretches do not give it another one. *)
OneReversal == reversals <= 1

(* The feed is reversed only for a jam: for the whole stall time no report  *)
(* of a low current was dispatched, not even one followed at once by a high *)
(* one, and the observation had no gap longer than a report may be old.     *)
ReversalNeedsStall ==
    [][recovery'.state = "reversing" /\ recovery.state # "reversing"
         => pressing >= StallTime]_vars

(* The feed never runs backwards longer than the reversal and one control   *)
(* gap: the end of the reversal or of the request, a stop and a bad         *)
(* threshold all end it at the next computation.                            *)
ReversalEnds == reversedFor < ReverseTime + MaxGap

(* No motor of the shooter is driven while one of them is silent: each has  *)
(* reported, and not longer ago than the time-out and one control gap.      *)
DrivenWithReports ==
    output.feed # "zero" \/ output.wheels # "zero" =>
        \A m \in Motors : seen[m] /\ age[m] <= Timeout + MaxGap

(* The feed in every state: one reversal per request, none that goes on,    *)
(* no motor driven on old reports.                                          *)
FeedInv ==
    /\ TypeOK
    /\ OneReversal
    /\ ReversalEnds
    /\ DrivenWithReports

(* Jammed for the second time, the feed stays without current until the     *)
(* operator lets go, although faults stop and restart the shooter.          *)
BlockedUntilReleased ==
    [][recovery.state = "blocked" /\ s_last_cmd'.feed =>
         recovery'.state = "blocked" /\ output'.feed = "zero"]_vars

(* What the feed does from one state to the next: no reversal without a     *)
(* stall, no way out of the block but letting go.                           *)
FeedChanges == ReversalNeedsStall /\ BlockedUntilReleased

Jammed ==
    /\ s_last_cmd.feed /\ armed /\ Healthy /\ current = "high"
    /\ sinceControl <= Timeout

(* A lasting jam ends with the feed motor without current: neither the      *)
(* reversal nor the observation after it goes round for ever.               *)
JamIsGivenUp == <>[]Jammed => <>[](output.feed = "zero")

==============================================================================
