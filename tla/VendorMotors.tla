---------------------------- MODULE VendorMotors -----------------------------
(***************************************************************************)
(* The motor service and its adapters for the motors of other vendors than *)
(* DJI (services/motor/motor_service.c, adapters/motor/), on one bus.  A   *)
(* controller's command is only remembered; frames are built once per      *)
(* dispatch, by Flush.  A DM motor has frames of its own and must be       *)
(* enabled; LK motors and each group of BenMo motors share a frame, and    *)
(* BenMo motors are configured first.                                      *)
(*                                                                         *)
(* Faults.  A frame may be refused: a mailbox is busy, the bus failed, or  *)
(* outputs are disarmed and it is not all zero (bsp/can/bsp_can.c).        *)
(*                                                                         *)
(* Abstraction.  A command is zero or not, and a loop may compute either   *)
(* (without feedback it is zero); the two buses do not meet here.          *)
(***************************************************************************)
EXTENDS Integers, FiniteSets

CONSTANTS
    Dm, Lk, Benmo,       \* the configured motors of each vendor
    BenmoGroup,          \* per BenMo motor: the group of its address
    ControlMode,         \* per motor: control_mode of the configuration
    Overridden,          \* the motors whose mode is set at run time
    Warmup,              \* DM_ENABLE_WARMUP_FRAMES
    Cycles               \* BENMO_STARTUP_DISABLE_CYCLES, _ENABLE_ and _CONFIG_

Motors == Dm \cup Lk \cup Benmo

(* APPLICATION and OPEN_LOOP_CURRENT take a current; SPEED, POSITION and   *)
(* the cascade compute it.                                                 *)
Modes == {"current", "loop", "disabled"}

ASSUME VendorAssumption ==
    /\ Dm \cap Lk = {} /\ Dm \cap Benmo = {} /\ Lk \cap Benmo = {}
    /\ BenmoGroup \in [Benmo -> {"group1", "group2"}]
    /\ ControlMode \in [Motors -> Modes] /\ Overridden \subseteq Motors
    /\ {Warmup, Cycles} \subseteq Nat \ {0}

VARIABLES
    mode,                \* effective_mode()
    pending, command,    \* per motor
    enabled, enable_frames_left,    \* per DM motor
    s_startup_cycle,     \* of the BenMo motors
    armed,               \* BspCan_OutputsArmed()
    applied,             \* history: the last command sent to a motor
    on,                  \* history: a DM motor was told to be enabled last
    heard                \* history: accepted start-up cycles, of each kind

vars == <<mode, pending, command, enabled, enable_frames_left,
          s_startup_cycle, armed, applied, on, heard>>

commands == <<pending, command, enabled, enable_frames_left>>
history == <<applied, on, heard>>

Values == {"zero", "drive"}

Kinds == {"disable", "enable", "config"}

----------------------------------------------------------------------------
(* Commands: what the services make of a controller's call.                *)

(* command_current of the adapter of m *)
CommandCurrent(m, value) ==
    /\ pending' = [pending EXCEPT ![m] = TRUE]
    /\ command' = [command EXCEPT ![m] = value]
    /\ IF m \in Dm
       THEN /\ enable_frames_left' =
                 IF enabled[m] THEN enable_frames_left
                 ELSE [enable_frames_left EXCEPT ![m] = Warmup]
            /\ enabled' = [enabled EXCEPT ![m] = TRUE]
       ELSE UNCHANGED <<enabled, enable_frames_left>>

(* stop of the adapter of m; only DM has frames for it *)
Stop(m) ==
    IF m \in Dm
    THEN /\ enabled' = [enabled EXCEPT ![m] = FALSE]
         /\ command' = [command EXCEPT ![m] = "zero"]
         /\ pending' = [pending EXCEPT ![m] = TRUE]
         /\ UNCHANGED enable_frames_left
    ELSE CommandCurrent(m, "zero")

(* MotorService_CommandCurrent *)
Direct(m, value) ==
    /\ IF mode[m] = "current" THEN CommandCurrent(m, value) ELSE Stop(m)
    /\ UNCHANGED <<mode, s_startup_cycle, armed, history>>

(* MotorService_CommandConfigured, with VendorControl_Compute *)
Configured(m, value) ==
    /\ IF mode[m] = "disabled" THEN Stop(m) ELSE CommandCurrent(m, value)
    /\ UNCHANGED <<mode, s_startup_cycle, armed, history>>

(* MotorService_SetControlMode, _ClearControlModeOverride: the loops start *)
(* again, and nothing is commanded.                                        *)
SetControlMode(m, new) ==
    /\ mode' = [mode EXCEPT ![m] = new]
    /\ UNCHANGED <<commands, s_startup_cycle, armed, history>>

(* BspCan, external to this module *)
Arm == /\ armed' = TRUE
       /\ UNCHANGED <<mode, commands, s_startup_cycle, history>>

Disarm == /\ armed' = FALSE
          /\ UNCHANGED <<mode, commands, s_startup_cycle, history>>

----------------------------------------------------------------------------
(* Flush: the frames in the order they are offered, each taken or not.     *)

(* The motors that share a command frame *)
Frames == {Lk} \cup
          {{m \in Benmo : BenmoGroup[m] = g} : g \in {"group1", "group2"}}

GroupFrames == Frames \ {{}}

Zero(group) == \A m \in group : command[m] = "zero"

BenmoReady == s_startup_cycle = 3 * Cycles

Offered(group) ==
    /\ \E m \in group : pending[m]
    /\ group \subseteq Benmo => BenmoReady

(* The frames of this flush that the driver takes. *)
Takes(taken) ==
    /\ taken \subseteq {f \in GroupFrames : Offered(f)}
    /\ \A f \in taken : armed \/ Zero(f)

(* Mutant: what was offered counts as sent. *)
SentMotors_Offered(taken) == UNION {f \in GroupFrames : Offered(f)}

(* The motors of group frames whose command is not pending any longer. *)
SentMotors(taken) == UNION taken

Kind == CASE s_startup_cycle < Cycles -> "disable"
          [] s_startup_cycle >= Cycles /\ s_startup_cycle < 2 * Cycles -> "enable"
          [] OTHER -> "config"

(* send_startup_frame: both frames of a configuration cycle are accepted *)
StartupCycle(accepted) ==
    IF accepted THEN s_startup_cycle + 1 ELSE s_startup_cycle

(* dm_flush: the frame that m is due *)
DmFrame(m) ==
    CASE ~enabled[m] -> "disable"
      [] enabled[m] /\ enable_frames_left[m] > 0 -> "enable"
      [] OTHER -> "torque"

DmOffered == {m \in Dm : pending[m]}

(* The warm-up counts the enable frames it offers. *)
EnableFramesLeft ==
    [m \in Dm |-> IF m \in DmOffered /\ DmFrame(m) = "enable"
                  THEN enable_frames_left[m] - 1 ELSE enable_frames_left[m]]

DmPending(m, accepted) ==
    IF accepted THEN enabled[m] /\ enable_frames_left'[m] > 0 ELSE pending[m]

(* MotorService_Flush: dm are the DM motors whose frame is accepted, taken *)
(* the group frames, startup says that the start-up cycle's are.           *)
Flush(dm, startup, taken) ==
    /\ dm \subseteq DmOffered
    /\ armed \/ dm = {}
    /\ startup => armed /\ Benmo # {} /\ ~BenmoReady
    /\ Takes(taken)
    /\ enable_frames_left' = EnableFramesLeft
    /\ s_startup_cycle' = StartupCycle(startup)
    /\ pending' = [m \in Motors |->
                     CASE m \in DmOffered -> DmPending(m, m \in dm)
                       [] m \in SentMotors(taken) -> FALSE
                       [] OTHER -> pending[m]]
    /\ applied' = [m \in Motors |->
                     IF m \in UNION taken \/ (m \in dm /\ DmFrame(m) = "torque")
                     THEN command[m] ELSE applied[m]]
    /\ on' = [m \in Dm |-> IF m \in dm THEN DmFrame(m) # "disable" /\
                                            (on[m] \/ DmFrame(m) = "enable")
                           ELSE on[m]]
    /\ heard' = IF startup THEN [heard EXCEPT ![Kind] = @ + 1] ELSE heard
    /\ UNCHANGED <<mode, command, enabled, armed>>

Init ==
    /\ mode = ControlMode
    /\ pending = [m \in Motors |-> FALSE]
    /\ command = [m \in Motors |-> "zero"]
    /\ enabled = [m \in Dm |-> FALSE]
    /\ enable_frames_left = [m \in Dm |-> Warmup]
    /\ s_startup_cycle = 0
    /\ armed = FALSE
    /\ applied = [m \in Motors |-> "zero"]
    /\ on = [m \in Dm |-> FALSE]
    /\ heard = [k \in Kinds |-> 0]

Next ==
    \/ \E m \in Motors, value \in Values : Direct(m, value) \/ Configured(m, value)
    \/ \E m \in Overridden, new \in Modes : SetControlMode(m, new)
    \/ Arm \/ Disarm
    \/ \E dm \in SUBSET Dm, startup \in BOOLEAN, taken \in SUBSET GroupFrames :
          Flush(dm, startup, taken)

Spec == Init /\ [][Next]_vars

----------------------------------------------------------------------------
(* Also the count-downs stay in range: a warm-up that is over is not       *)
(* counted on, nor is a start-up (uint8_t of dm and benmo_motor_adapter.c).*)
TypeOK ==
    /\ mode \in [Motors -> Modes]
    /\ pending \in [Motors -> BOOLEAN]
    /\ command \in [Motors -> Values]
    /\ enabled \in [Dm -> BOOLEAN]
    /\ enable_frames_left \in [Dm -> 0..Warmup]
    /\ s_startup_cycle \in 0..(3 * Cycles)
    /\ armed \in BOOLEAN
    /\ applied \in [Motors -> Values]
    /\ on \in [Dm -> BOOLEAN]
    /\ heard \in [Kinds -> 0..Cycles]

(* A motor of a shared frame has its newest command unless that command is *)
(* still waiting, whichever frames were refused (lk_flush_channel,         *)
(* send_command_groups: pending goes only with the frame).                 *)
GroupsAreCurrent ==
    \A m \in Lk \cup Benmo : ~pending[m] => applied[m] = command[m]

(* A stop of a DM motor waits until its disable frame is accepted: no      *)
(* refusal loses it (dm_flush keeps pending).                              *)
StopIsKept ==
    \A m \in Dm : ~enabled[m] /\ ~pending[m] => ~on[m]

(* BenMo motors are driven only after every cycle of their start-up was    *)
(* accepted by the driver, also if some were refused between.              *)
DrivenAfterStartup ==
    \A m \in Benmo : applied[m] = "drive" => \A k \in Kinds : heard[k] = Cycles

(* The services and adapters in every state: nothing that was commanded is  *)
(* lost, nothing is driven before its start-up is over.                    *)
VendorInv ==
    /\ TypeOK
    /\ GroupsAreCurrent
    /\ StopIsKept
    /\ DrivenAfterStartup

(* docs/tutorials/can.md:37 says that FF..FC enables a DM motor, and       *)
(* test_motor_adapters.c:44-48 expects the enable frames before the first  *)
(* torque.  The code counts the frames it offers, also the refused ones.   *)
TorqueNeedsEnable ==
    \A m \in Dm : applied[m] = "drive" /\ enabled[m] /\ ~pending[m] => on[m]
==============================================================================
