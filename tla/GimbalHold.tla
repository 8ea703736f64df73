----------------------------- MODULE GimbalHold -----------------------------
(***************************************************************************)
(* The gimbal controller (application/gimbal/gimbal_controller.c and       *)
(* yaw_reference.c): when the two axes may be driven, where they are held, *)
(* and what is forgotten when they stop.                                   *)
(*                                                                         *)
(* One step is one command callback, process_gimbal_cmd: the command of    *)
(* every control cycle is delivered once.  Between two callbacks the motors*)
(* may answer, the pitch axis may leave its limits and come back.          *)
(*                                                                         *)
(* Abstraction.  An angle is where it comes from; currents, PID and the    *)
(* damping are left out; that a step of theirs meets a number that is not *)
(* finite or a jump that is not plausible is an input.  Times are ages, up *)
(* to the longest that makes a difference; one that passes 2^32 ms is not     *)
(* modelled.  The robot has both axes and the manual stop enabled.         *)
(***************************************************************************)
EXTENDS Integers

CONSTANTS
    FreshMs,        \* oldest feedback axis_feedback_fresh takes, 100 ms
    StableMs,       \* how long it must have been there, 100 ms
    GapMs,          \* YAW_REFERENCE_MAX_GAP_MS
    SettleMs,       \* YAW_MANUAL_STOP_SETTLE_MS
    MaxGap,         \* longest time between two commands
    Frames,         \* values of vision_frame, 2^32
    Commands,       \* "disabled", "vision", "spin"; manual: "stick" or "rest"
    News,           \* whether a command may bring a new vision message
    Slows           \* whether yaw may be below manual_stop_speed_rpm, or above

(* What MCControllers assumes of each instance. *)
HoldAssumption ==
    /\ {FreshMs, StableMs, GapMs, SettleMs, MaxGap} \subseteq Nat \ {0}
    /\ GapMs < FreshMs /\ Frames \in Nat /\ Frames > 1
    /\ Commands \subseteq {"disabled", "vision", "spin", "stick", "rest"}
    /\ News \subseteq BOOLEAN /\ Slows \subseteq BOOLEAN

VARIABLES
    booting,    \* Gimbal_WaitForAlignment
    age,        \* age of an axis' feedback
    inside,     \* pitch is within its limits
    steady,     \* s_feedback_stable_seen and how long since
    captured,   \* s_startup_position_captured
    limitFault, \* s_pitch_limit_fault
    ref,        \* s_yaw_reference: valid, and how old its feedback was
    mode,       \* s_yaw_mode, "none" while s_yaw_mode_valid is not set
    stop,       \* s_yaw_manual_stick_active, _braking, _low_speed_since_ms
    yaw,        \* target_ticks
    pitch,      \* angle_target of pitch, and s_pitch_vision_active
    frame,      \* vision_frame of the command
    taken,      \* s_yaw_vision_frame and s_pitch_vision_frame
    on,         \* the axes are driven, not sent zero
    past        \* history, below

feedback == <<age, inside>>
start == <<steady, captured, limitFault>>
targets == <<ref, mode, stop, yaw, pitch>>
vars == <<booting, feedback, start, targets, frame, taken, on, past>>

Axes == {"yaw", "pitch"}
Never == FreshMs + 2
NoTime == -1
NoStop == [stick |-> FALSE, braking |-> FALSE, low |-> NoTime]

Capped(time, max) == IF time < max THEN time ELSE max

Since(time, gap, max) == IF time = NoTime THEN 0 ELSE Capped(time + gap, max)

(* `good`: how long every command met fresh feedback within the limits, was *)
(* enabled and did not fail; `regular`: the last one also in time;          *)
(* `outside`: pitch left its limits while driven, and was neither driven    *)
(* again nor disabled since;                                                *)
(* `slow`: how long yaw has been slow while it was driven.                  *)
NoPast == [good |-> NoTime, regular |-> FALSE, outside |-> FALSE, slow |-> NoTime]

----------------------------------------------------------------------------
(* capture_startup_position takes the measured angles as the new targets.   *)
TakenYaw == [from |-> "taken", old |-> FALSE, current |-> FALSE]

PitchStart == IF limitFault THEN "measured" ELSE "initial"

TakenPitch(from) ==
    [from |-> from, old |-> FALSE, current |-> FALSE, vision |-> FALSE]

(* Gimbal_WaitForAlignment: it captures as soon as both axes have answered, *)
(* fresh or not, and commands them to hold; or gives up.                    *)
Align ==
    /\ booting /\ booting' = FALSE
    /\ \/ /\ \A a \in Axes : age[a] # Never
          /\ inside
          /\ captured' = TRUE
          /\ ref' = [valid |-> TRUE, age |-> Capped(age["yaw"], FreshMs)]
          /\ yaw' = TakenYaw /\ pitch' = TakenPitch("initial")
       \/ UNCHANGED <<captured, ref, yaw, pitch>>
    /\ UNCHANGED <<feedback, steady, limitFault, mode, stop, frame, taken, on, past>>

(* The feedback a callback finds `gap` ms after the last one. *)
Receive(gap) ==
    \E answered \in SUBSET Axes :
       /\ \E new \in [answered -> 0 .. gap] :
            age' = [a \in Axes |->
                      IF a \in answered THEN Capped(new[a], FreshMs + 1)
                      ELSE IF age[a] = Never THEN Never
                      ELSE Capped(age[a] + gap, FreshMs + 1)]
       /\ inside' \in IF "pitch" \in answered THEN BOOLEAN ELSE {inside}

Answer ==
    /\ booting
    /\ Receive(1)
    /\ UNCHANGED <<booting, start, targets, frame, taken, on, past>>

----------------------------------------------------------------------------
(* process_gimbal_cmd, over the feedback of Receive *)

Fresh == \A a \in Axes : age'[a] <= FreshMs

Usable(command) == Fresh /\ inside' /\ command # "disabled"

StableFor(command, gap) ==
    IF Usable(command) THEN Since(steady, gap, StableMs) ELSE NoTime

Ready(command, gap) == Usable(command) /\ StableFor(command, gap) >= StableMs

Captures(command, gap) == Ready(command, gap) /\ ~captured

(* What a step of the control loops needs besides plausible numbers: no gap    *)
(* above GapMs in the commands or in the feedback; a capture is right now.  *)
InTime(reference, elapsed) ==
    /\ elapsed <= GapMs
    /\ \A a \in Axes : age'[a] <= GapMs
    /\ reference.valid
    /\ reference.age + elapsed - age'["yaw"] <= GapMs

Drives(command, gap, plausible) ==
    /\ Ready(command, gap)
    /\ plausible
    /\ IF Captures(command, gap)
       THEN InTime([valid |-> TRUE, age |-> age'["yaw"]], 0)
       ELSE InTime(ref, gap)

LimitFault(command) ==
    command # "disabled" /\ (limitFault \/ (Fresh /\ ~inside'))

Old(target) == [target EXCEPT !.old = TRUE]

(* Both axes are sent zero, and forget where they were held. *)
Release ==
    /\ ref' = [valid |-> FALSE, age |-> 0]
    /\ mode' = "none"
    /\ stop' = NoStop
    /\ yaw' = Old([yaw EXCEPT !.from = "taken"])
    /\ pitch' = [Old(pitch) EXCEPT !.from = "measured", !.vision = FALSE]
    /\ taken' = taken
    /\ on' = FALSE

Idle(command, gap) ==
    /\ ~Ready(command, gap)
    /\ steady' = StableFor(command, gap)
    /\ captured' = (captured /\ Usable(command))
    /\ limitFault' = LimitFault(command)
    /\ Release

(* Mutant: the axes stay captured with a reference that is not valid. *)
Invalid_StaysCaptured == steady' = NoTime /\ captured' = TRUE

Invalid == steady' = NoTime /\ captured' = FALSE

(* yaw_invalidate; a capture of this very callback has ended the fault. *)
Fail(command, gap, plausible) ==
    /\ Ready(command, gap) /\ ~Drives(command, gap, plausible)
    /\ Invalid
    /\ limitFault' = (LimitFault(command) /\ ~Captures(command, gap))
    /\ Release

----------------------------------------------------------------------------
(* The axes are driven: GimbalController_YawControlWithCompensation and     *)
(* GimbalController_PitchControl                                            *)

ModeOf(command) == IF command \in {"stick", "rest"} THEN "manual" ELSE command

(* Mutant: the hold goes back to where the stick was let go. *)
Settled_BackToRelease(target) == target

Settled(target) == [target EXCEPT !.from = "rest"]

(* The manual stop: a stick that is let go brakes, and the position is held *)
(* again where yaw has been slow for SettleMs.                              *)
ManualStop(command, before, from, gap, slow, moves) ==
    LET released == before.stick
        braking == before.braking \/ released
        low == IF ~braking \/ ~slow THEN NoTime
               ELSE IF released \/ before.low = NoTime THEN 0
               ELSE before.low + gap
    IN  \/ /\ command = "stick"
           /\ stop' = [stick |-> TRUE, braking |-> FALSE, low |-> NoTime]
           /\ yaw' = IF moves THEN [from EXCEPT !.from = "stick"] ELSE from
        \/ /\ command = "rest" /\ low < SettleMs
           /\ stop' = [stick |-> FALSE, braking |-> braking, low |-> low]
           /\ yaw' = IF released THEN [from EXCEPT !.from = "released"] ELSE from
        \/ /\ command = "rest" /\ low >= SettleMs
           /\ stop' = NoStop
           /\ yaw' = Settled(from)

(* Mutant: only a new frame number makes a target. *)
Anchors_FrameOnly(changed, last) == last # frame'

(* A vision message makes a target once, from the position it finds. *)
Anchors(changed, last) == changed \/ last # frame'

YawTarget(command, before, from, gap, slow, changed) ==
    \/ /\ ModeOf(command) = "manual"
       /\ ManualStop(command, before, from, gap, slow, ~changed)
    \/ /\ command = "spin"
       /\ yaw' = [from EXCEPT !.from = "spin"]
       /\ stop' = before
    \/ /\ command = "vision"
       /\ yaw' = IF Anchors(changed, taken.yaw)
                 THEN [from EXCEPT !.from = "vision", !.current = TRUE] ELSE from
       /\ stop' = before

PitchTarget(command, from) ==
    pitch' = CASE command = "vision" /\ Anchors(~from.vision, taken.pitch) ->
                    [from EXCEPT !.from = "vision", !.current = TRUE, !.vision = TRUE]
               [] command # "vision" /\ from.vision ->
                    [from EXCEPT !.from = "measured", !.vision = FALSE]
               [] OTHER -> from

(* A new message is not what the targets were made from. *)
Outdated(target, new) == [target EXCEPT !.current = @ /\ ~new]

Drive(command, gap, plausible, slow, new) ==
    LET captures == Captures(command, gap)
        changed == captures \/ mode # ModeOf(command)
    IN  /\ Drives(command, gap, plausible)
        /\ steady' = StableFor(command, gap)
        /\ captured' = TRUE
        /\ limitFault' = (LimitFault(command) /\ ~captures)
        /\ ref' = [valid |-> TRUE, age |-> age'["yaw"]]
        /\ mode' = ModeOf(command)
        /\ YawTarget(command, IF changed THEN NoStop ELSE stop,
                     CASE captures              -> TakenYaw
                       [] changed /\ ~captures  -> [yaw EXCEPT !.from = "taken"]
                       [] OTHER                 -> Outdated(yaw, new),
                     gap, slow, changed)
        /\ PitchTarget(command, IF captures THEN TakenPitch(PitchStart)
                                ELSE Outdated(pitch, new))
        /\ taken' = IF command = "vision" THEN [yaw |-> frame', pitch |-> frame']
                                          ELSE taken
        /\ on' = TRUE

Remember(command, gap, plausible, slow) ==
    LET usable == Usable(command) /\ (Ready(command, gap) => on')
        outside == past.outside \/ (on /\ Fresh /\ ~inside')
    IN  past' =
          [good |-> IF usable THEN Since(past.good, gap, StableMs) ELSE NoTime,
           regular |-> Usable(command) /\ plausible /\ gap <= GapMs /\
                       \A a \in Axes : age'[a] <= GapMs /\ age[a] + gap - age'[a] <= GapMs,
           outside |-> command # "disabled" /\ ~on' /\ outside,
           slow |-> IF on' /\ slow THEN Since(past.slow, gap, SettleMs) ELSE NoTime]

(* The router counts messages; its memory of them starts again when the     *)
(* remote was lost, with a command that is disabled.                        *)
NewFrame(command, new) ==
    frame' = IF command = "disabled" THEN 0
             ELSE IF new THEN (frame + 1) % Frames ELSE frame

Callback(command, gap, plausible, slow, new) ==
    /\ ~booting
    /\ Receive(gap)
    /\ NewFrame(command, new)
    /\ \/ Idle(command, gap)
       \/ Fail(command, gap, plausible)
       \/ Drive(command, gap, plausible, slow, new)
    /\ Remember(command, gap, plausible, slow)
    /\ UNCHANGED booting

Next ==
    \/ Answer
    \/ Align
    \/ \E command \in Commands, gap \in 1 .. MaxGap, plausible \in BOOLEAN,
          slow \in Slows, new \in News : Callback(command, gap, plausible, slow, new)

Init ==
    /\ booting = TRUE
    /\ age = [a \in Axes |-> Never] /\ inside = FALSE
    /\ steady = NoTime /\ captured = FALSE /\ limitFault = FALSE
    /\ ref = [valid |-> FALSE, age |-> 0] /\ mode = "none" /\ stop = NoStop
    /\ yaw = [TakenYaw EXCEPT !.old = TRUE]
    /\ pitch = [from |-> "measured", old |-> TRUE, current |-> FALSE, vision |-> FALSE]
    /\ frame = 0 /\ taken = [yaw |-> 0, pitch |-> 0]
    /\ on = FALSE
    /\ past = NoPast

Spec == Init /\ [][Next]_vars

FairSpec == Spec /\ WF_vars(Next) /\ WF_vars(Align)

----------------------------------------------------------------------------
(* Properties *)

Target(froms) == [from : froms, old : BOOLEAN, current : BOOLEAN]

(* Also no time runs past its bound. *)
TypeOK ==
    /\ booting \in BOOLEAN /\ inside \in BOOLEAN /\ on \in BOOLEAN
    /\ age \in [Axes -> 0 .. Never]
    /\ steady \in NoTime .. StableMs
    /\ captured \in BOOLEAN /\ limitFault \in BOOLEAN
    /\ ref \in [valid : BOOLEAN, age : 0 .. FreshMs]
    /\ mode \in {"none", "manual", "spin", "vision"}
    /\ stop \in [stick : BOOLEAN, braking : BOOLEAN, low : NoTime .. SettleMs - 1]
    /\ yaw \in Target({"taken", "stick", "released", "rest", "spin", "vision"})
    /\ pitch.from \in {"initial", "measured", "vision"}
    /\ frame \in 0 .. Frames - 1

(* Axes that are driven were fresh, within the limits and enabled in every  *)
(* command of the last StableMs, and nothing failed: a fault anywhere, in a *)
(* late reference or in the pitch loop too, starts the wait again.          *)
DrivesWhenStable == on => past.good >= StableMs

(* Neither axis is driven to a target of before the last stop, whatever     *)
(* stopped it and in whatever mode it comes back.                           *)
ForgetsTargets == on => ~yaw.old /\ ~pitch.old

(* While vision aims, both axes aim at the last message: one that came with *)
(* a change of mode, after a lost remote set the count of messages back or  *)
(* when the count wraps is not taken for the one before.                    *)
AimsAtLastMessage == on /\ mode = "vision" => yaw.current /\ pitch.current

(* The axes in every state: driven only when it was safe for long enough,   *)
(* and to a target of now.                                                  *)
HoldInv ==
    /\ TypeOK
    /\ DrivesWhenStable
    /\ ForgetsTargets
    /\ AimsAtLastMessage

(* Of a step: a manual yaw without a stick or a brake is held where it was  *)
(* taken over or came to rest, never at the target the stick ran ahead to;  *)
(* and it was slow for SettleMs without a break when the brake ended.       *)
HoldsWhereItStopped ==
    on' /\ mode' = "manual" /\ ~stop'.stick /\ ~stop'.braking =>
        /\ yaw'.from \in {"taken", "rest"}
        /\ stop.braking /\ mode = "manual" => past'.slow >= SettleMs

(* Does not hold.  The documentation: recovered from beyond its limits      *)
(* without being disabled, pitch is held where it is and not driven to the initial angle. *)
RecoversInPlace == past.outside /\ on' => pitch'.from # "initial"

(* A gimbal whose feedback comes in time, within the limits and enabled,    *)
(* aligns and is driven by itself, whatever happened before.                *)
AlignsAgain == <>[]past.regular => <>[]on

=============================================================================
