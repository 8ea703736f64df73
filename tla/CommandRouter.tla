---------------------------- MODULE CommandRouter ----------------------------
(***************************************************************************)
(* The command router (application/cmd/command_router.c): what the         *)
(* operator's switches, dial and sticks, the measured heading and the      *)
(* vision messages make the chassis, the shooter and the gimbal do, and    *)
(* what is remembered from one cycle to the next.                          *)
(*                                                                         *)
(* One step is one control cycle, in which CmdController_Task calls        *)
(* CommandRouter_Route; vision messages arrive between the cycles.         *)
(*                                                                         *)
(* Abstraction.  Angles are numbers modulo Angles; the translation of the  *)
(* sticks is left out, and the angle it is rotated by is kept.  The dial   *)
(* is a small integer.  The clock is the millisecond clock modulo W,       *)
(* where the code's is 2^32.                                               *)
(***************************************************************************)
EXTENDS Integers

CONSTANTS
    W,              \* values of the millisecond clock, 2^32
    MaxGap,         \* longest time between two cycles
    MaxDt,          \* MAX_ROUTE_DT_S: a longer one counts as 1 ms
    BrakeMs,        \* SPIN_EXIT_BRAKE_MS
    VisionMs,       \* VISION_CMD_TIMEOUT_MS
    DialEnter,      \* DIAL_ENTER_DEADBAND
    DialExit,       \* DIAL_EXIT_DEADBAND
    Slew,           \* DIAL_WZ_SLEW_PER_S, in a millisecond
    Angles,         \* how many angles are told apart
    Inputs,         \* what the operator does and the sensors show, below
    Messages,       \* kinds of vision messages: TRUE is a usable one
    Encoder         \* encoder_follow: the robot's yaw motor shows the heading

VARIABLES
    now,        \* current_tick
    mode,       \* spin_mode, gimbal_follow_mode or neither
    routed,     \* route_time_valid
    hold,       \* spin_hold_yaw_deg
    brake,      \* spin_exit_brake_until_ms
    entry,      \* spin_relative_angle_deg
    downSeen,   \* shooter_down_seen
    dial,       \* dial_active and dial_wz
    memory,     \* gimbal_memory: vision_valid and vision_ts_ms
    inbox,      \* s_input.vision and vision_updated; history: its age
    out,        \* the output of the last route
    past        \* history, below

vars == <<now, mode, routed, hold, brake, entry, downSeen, dial, memory, inbox,
          out, past>>

Angle == 0 .. Angles - 1
Switch == {"down", "mid", "up"}

(* A message stays interesting until it is out of date for certain. *)
MessageMax == VisionMs + MaxGap + 1

(* The heading of update_yaw_heading: none, or one of valid feedback that   *)
(* is at most FOLLOW_FEEDBACK_TIMEOUT_MS old or older.                      *)
NoHeading == [valid |-> FALSE, recent |-> FALSE, angle |-> 0]
Headings ==
    {NoHeading} \cup
    IF Encoder THEN [valid : {TRUE}, recent : BOOLEAN, angle : Angle] ELSE {}

(* What the route reads from the operator and the sensors. *)
IsInput(in) ==
    /\ in.s0 \in {"down", "mid"} /\ in.s1 \in Switch
    /\ in.dial \in Int /\ in.yaw \in Angle
    /\ {in.adjust, in.moved} \subseteq BOOLEAN /\ in.heading \in Headings

(* What MCControllers assumes of each instance. *)
RouterAssumption ==
    /\ {W, MaxGap, MaxDt, BrakeMs, VisionMs, DialEnter, Slew, Angles}
          \subseteq Nat \ {0}
    /\ DialExit \in 0 .. DialEnter - 1
    /\ 2 * (BrakeMs + MaxGap) < W /\ VisionMs + MaxGap < W
    /\ Messages \subseteq BOOLEAN /\ Encoder \in BOOLEAN
    /\ \A in \in Inputs : IsInput(in)

(* `frame`: what the translation is relative to; `angle`: by how much it is *)
(* rotated; `wz`: the rotation the dial asks for, that of spin is constant; *)
(* `held`: yaw_rate_memo; `target`: yaw_target_memo.                        *)
Off == [frame |-> "off", angle |-> 0, wz |-> 0, friction |-> FALSE,
        held |-> FALSE, target |-> 0, vision |-> FALSE]

(* Since the last loss of the remote: `acts`, what the operator did; `exit`,*)
(* milliseconds since spin was left, up to W, and the angle measured then;  *)
(* `angle`, the last valid heading of the gimbal.                           *)
NoPast == [acts |-> {}, exit |-> W, exitAngle |-> 0, angle |-> 0]

----------------------------------------------------------------------------
(* on_vision_update *)
VisionArrives(usable) ==
    /\ inbox' = [usable |-> usable, updated |-> TRUE, age |-> 0]
    /\ UNCHANGED <<now, mode, routed, hold, brake, entry, downSeen, dial, memory,
                   out, past>>

Aged(message, gap) ==
    [message EXCEPT !.age = IF @ + gap < MessageMax THEN @ + gap ELSE MessageMax]

(* The route clears vision_updated whether it was ready or not. *)
Consumed(message) == [message EXCEPT !.updated = FALSE]

Forgotten ==
    /\ mode' = "free"
    /\ brake' = 0
    /\ downSeen' = FALSE
    /\ dial' = [active |-> FALSE, wz |-> 0]

(* Without the remote, or while the outputs are not armed. *)
RouteOffline ==
    /\ Forgotten
    /\ memory' = [valid |-> FALSE, ts |-> 0]
    /\ routed' = FALSE
    /\ out' = Off
    /\ past' = NoPast
    /\ UNCHANGED <<hold, entry>>

----------------------------------------------------------------------------
(* The parts of a route that is online *)

ModeOf(s1) ==
    CASE s1 = "up" -> "spin" [] s1 = "mid" -> "follow" [] s1 = "down" -> "free"

(* Mutant: the difference is taken without a sign. *)
Braking_Unsigned(until, time) == until # 0 /\ (until - time) % W > 0

(* (int32_t)(spin_exit_brake_until_ms - now_ms) > 0 *)
Braking(until, time) == until # 0 /\ (until - time) % W \in 1 .. W \div 2 - 1

Slewed(wz, target, step) ==
    CASE target - wz > step    -> wz + step
      [] target - wz < -step   -> wz - step
      [] OTHER                 -> target

Abs(n) == IF n < 0 THEN -n ELSE n

Dt(gap) == IF routed /\ gap <= MaxDt THEN gap ELSE 1

(* Spin, and the cycle that leaves it, take the dial back to rest first. *)
TurnDial(d, gap, spin) ==
    LET before == IF spin THEN [active |-> FALSE, wz |-> 0] ELSE dial
        active == IF before.active THEN Abs(d) > DialExit ELSE Abs(d) >= DialEnter
    IN  dial' = [active |-> active,
                 wz |-> Slewed(before.wz, IF active THEN d ELSE 0, Slew * Dt(gap))]

(* route_chassis: spin uses the angle of the entry when there is no heading,*)
(* the follow mode of a robot with an encoder then stops.                   *)
Chassis(moved, heading) ==
    LET moves == moved \/ dial'.wz # 0
        off == [frame |-> "off", angle |-> 0, wz |-> 0]
    IN  CASE mode' = "spin" ->
               [frame |-> "spin", wz |-> 0,
                angle |-> IF heading.valid THEN heading.angle ELSE entry']
          [] mode' = "follow" /\ Encoder ->
               IF moves /\ heading.recent
               THEN [frame |-> "encoder", angle |-> heading.angle, wz |-> dial'.wz]
               ELSE off
          [] OTHER ->
               IF moves
               THEN [frame |-> IF mode' = "follow" THEN "imu" ELSE "robot",
                     angle |-> 0, wz |-> dial'.wz]
               ELSE off

(* Mutant: a message that is not usable does not withdraw the last one. *)
SeeVision_Withdraws(message, time) ==
    memory' = IF message.updated /\ message.usable
              THEN [valid |-> TRUE, ts |-> time]
              ELSE [memory EXCEPT !.valid = @ /\ (time - memory.ts) % W <= VisionMs]

SeeVision(message, time) ==
    memory' = IF message.updated
              THEN [valid |-> message.usable, ts |-> time]
              ELSE [memory EXCEPT !.valid = @ /\ (time - memory.ts) % W <= VisionMs]

Until(time) == (time + BrakeMs) % W

(* The yaw angle `yaw` is measured; `adjust`: the stick moves the target.   *)
HoldYaw(spin, yaw, adjust, time) ==
    LET entered == spin /\ mode # "spin"
        left == ~spin /\ mode = "spin"
        base == IF entered \/ left THEN yaw ELSE hold
    IN  /\ hold' = IF spin /\ adjust THEN (base + 1) % Angles ELSE base
        /\ brake' = IF left THEN Until(time) ELSE brake

Remember(spin, s0, d, yaw, heading, gap) ==
    past' =
      [acts |-> (IF spin \/ mode = "spin" THEN past.acts \ {"turned"} ELSE past.acts)
                  \cup {a \in {"down"} : s0 = "down"}
                  \cup {a \in {"turned"} : Abs(d) >= DialEnter}
                  \cup {a \in {"spun"} : spin},
       exit |-> IF ~spin /\ mode = "spin" THEN 0
                ELSE IF past.exit + gap < W THEN past.exit + gap ELSE W,
       exitAngle |-> IF ~spin /\ mode = "spin" THEN yaw ELSE past.exitAngle,
       angle |-> IF heading.valid THEN heading.angle ELSE past.angle]

RouteOnline(time, gap, in) ==
    LET spin == in.s1 = "up"
        held == spin \/ Braking(brake', time)
    IN  /\ mode' = ModeOf(in.s1)
        /\ routed' = TRUE
        /\ HoldYaw(spin, in.yaw, in.adjust, time)
        /\ entry' = IF spin /\ mode # "spin" THEN in.heading.angle ELSE entry
        /\ TurnDial(in.dial, gap, spin \/ mode = "spin")
        /\ downSeen' = (downSeen \/ in.s0 = "down")
        /\ SeeVision(Aged(inbox, gap), time)
        /\ Remember(spin, in.s0, in.dial, in.yaw, in.heading, gap)
        /\ LET chassis == Chassis(in.moved, in.heading)
           IN  out' = [frame |-> chassis.frame, angle |-> chassis.angle,
                       wz |-> chassis.wz,
                       friction |-> downSeen' /\ in.s0 # "down",
                       held |-> held, target |-> IF held THEN hold' ELSE 0,
                       vision |-> memory'.valid]

(* CommandRouter_Route, at the end of a cycle that took `gap` *)
Route ==
    \E gap \in 1 .. MaxGap :
      LET time == (now + gap) % W IN
      /\ now' = time
      /\ inbox' = Consumed(Aged(inbox, gap))
      /\ \/ RouteOffline
         \/ \E in \in Inputs : RouteOnline(time, gap, in)

Init ==
    /\ now \in 0 .. W - 1
    /\ mode = "free" /\ routed = FALSE
    /\ hold = 0 /\ brake = 0 /\ entry = 0
    /\ downSeen = FALSE
    /\ dial = [active |-> FALSE, wz |-> 0]
    /\ memory = [valid |-> FALSE, ts |-> 0]
    /\ inbox = [usable |-> FALSE, updated |-> FALSE, age |-> MessageMax]
    /\ out = Off
    /\ past = NoPast

Next == Route \/ \E usable \in Messages : VisionArrives(usable)

Spec == Init /\ [][Next]_vars

----------------------------------------------------------------------------
(* Properties *)

(* Also the clock and the times taken from it stay in its range. *)
TypeOK ==
    /\ now \in 0 .. W - 1 /\ brake \in 0 .. W - 1
    /\ mode \in {"free", "follow", "spin"} /\ routed \in BOOLEAN
    /\ hold \in Angle /\ entry \in Angle
    /\ downSeen \in BOOLEAN
    /\ dial \in [active : BOOLEAN, wz : Int]
    /\ memory \in [valid : BOOLEAN, ts : 0 .. W - 1]
    /\ inbox \in [usable : BOOLEAN, updated : BOOLEAN, age : 0 .. MessageMax]
    /\ out.frame \in {"off", "robot", "imu", "encoder", "spin"}

(* Nothing the operator did before the remote was lost works on when it is  *)
(* back: no friction wheel without a new down position, no yaw hold without *)
(* a new spin, no turning without a new push of the dial.                   *)
ForgetsAtLoss ==
    /\ out.friction => "down" \in past.acts
    /\ out.held => "spun" \in past.acts
    /\ out.wz # 0 => "turned" \in past.acts

(* Out of spin the gimbal is held where it was when spin was left, and the  *)
(* sticks have it back after BrakeMs, whatever the clock shows and however  *)
(* often spin comes and goes; for half a turn of the clock.                 *)
HoldsAfterSpin ==
    out.held /\ mode # "spin" =>
        /\ out.target = past.exitAngle
        /\ past.exit < BrakeMs \/ past.exit >= W \div 2

(* The router in every cycle: what came before the loss of the remote and   *)
(* before the end of the brake is over.                                     *)
RouterInv ==
    /\ TypeOK
    /\ ForgetsAtLoss
    /\ HoldsAfterSpin

(* Does not hold.  The same for ever: the comment of spin_exit_brake_until_ms calls it the  *)
(* time the brake ends at.  Nothing clears it, and the clock comes back.    *)
BrakeIsOver == out.held /\ mode # "spin" => past.exit < BrakeMs

(* Does not hold.  The comment of spin_relative_angle_deg: spin without a heading rotates   *)
(* the translation by the most recent valid angle of the gimbal.            *)
SpinUsesLastHeading == out.frame = "spin" => out.angle = past.angle

(* Of a step: a vision error is only handed on while the last message was   *)
(* usable, and for VisionMs after the cycle that took it, also when that    *)
(* cycle was late or the remote was away when it arrived.                   *)
VisionIsFresh ==
    now' # now /\ out'.vision => inbox.usable /\ inbox'.age <= VisionMs + MaxGap

(* Of a step: between two cycles that both move the chassis, out of spin,   *)
(* the rotation changes by one step of the slew limit and never from full   *)
(* to full.                                                                 *)
TurnsSmoothly ==
    out.frame # "off" /\ out'.frame # "off" /\ "spin" \notin {mode, mode'} =>
        Abs(out'.wz - out.wz) <= Slew * MaxDt

(* What the router does from one cycle to the next. *)
RouterStep == VisionIsFresh /\ TurnsSmoothly

==============================================================================
