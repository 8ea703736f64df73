---------------------------- MODULE CmdController ----------------------------
(***************************************************************************)
(* The command controller (application/cmd/cmd_controller.c) with the      *)
(* interlocks of the command router, in the control task's cycle and above *)
(* the CAN driver: who may move the robot, and when.                       *)
(*                                                                         *)
(* A cycle: the task wakes and reads the clock (current_tick), optional    *)
(* modules run, BspCan_Service is called with a clock read again, the      *)
(* arming interlock and the router work with current_tick, the dispatch    *)
(* hands the newest receiver message to the controller for the next cycle, *)
(* the controllers send frames, and the task sleeps.                       *)
(*                                                                         *)
(* Abstraction.  A receiver message is the right switch s[0], which is     *)
(* also the shooter's, and whether everything else is neutral; a command   *)
(* set is whether it may move the robot and fire it.  Ages as in BspCan,   *)
(* counted from now: the code's difference to current_tick is `lag` less.  *)
(***************************************************************************)
EXTENDS BspCan

CONSTANTS
    RemoteInputs,   \* messages the receiver may send
    RemoteTimeout,  \* REMOTE_LOSS_TIMEOUT_MS
    NeutralTime,    \* 500 ms of neutral sticks and switches before arming
    MaxHeard        \* the largest time the history `heard` counts to

ASSUME CmdAssumption ==
    /\ RemoteInputs \subseteq [s0 : {"down", "mid", "up"}, rest_neutral : BOOLEAN]
    /\ RemoteTimeout \in Nat /\ NeutralTime \in Nat \ {0}
    /\ MaxHeard \in Nat

VARIABLES
    cycle,               \* the control task: where it is in its cycle
    lag,                 \* time since current_tick, until it was last used
    rc_slot,             \* the receiver's slot of the message center
    remote,              \* s_input.remote, s_remote_updated, s_remote_seen
                         \* and the time since s_last_remote_ms
    neutral,             \* s_neutral_seen and the time since s_neutral_since_ms
    shooter_down_seen,   \* CommandRouter.shooter_down_seen
    s_output,            \* the command set published last
    calm,                \* history: time since the controller's input was not neutral
    heard                \* history: time since the message in use was received

cmdVars == <<remote, neutral, shooter_down_seen, s_output, calm, heard>>
loopVars == <<cycle, lag>>
allVars == <<vars, loopVars, rc_slot, cmdVars>>

Neutral(input) == input.s0 = "down" /\ input.rest_neutral

MaxRemoteAge == RemoteTimeout + 1 + MaxLag
MaxNeutralAge == NeutralTime + MaxLag
MaxWait == 2 * MaxGap   \* a message waits for the next dispatch

NoMessage == [pending |-> FALSE]
NoCommand == [enabled |-> FALSE, friction |-> FALSE, feed |-> FALSE]

----------------------------------------------------------------------------
(* The receiver's interrupt: the newest message replaces an older one. *)
ReceiveRemote(input) ==
    /\ rc_slot' = [pending |-> TRUE, input |-> input, age |-> 0]
    /\ UNCHANGED <<vars, loopVars, cmdVars>>

(* control_task reads the clock. *)
Wake ==
    /\ cycle = "sleep"
    /\ sinceService > 0
    /\ cycle' = "early"
    /\ lag' = 0
    /\ UNCHANGED <<vars, rc_slot, cmdVars>>

(* BspCan_Service, in steps. *)
CanService ==
    /\ \/ cycle = "early" /\ BeginService
       \/ cycle = "service" /\ (CheckBus \/ AdvanceBus)
    /\ cycle' = "service"
    /\ UNCHANGED <<lag, rc_slot, cmdVars>>

----------------------------------------------------------------------------
(* CmdController_Task after BspCan_Service *)

(* A message delivered since the last cycle counts as heard at current_tick. *)
RemoteNow ==
    IF remote.updated
    THEN [remote EXCEPT !.updated = FALSE, !.seen = TRUE, !.age = lag]
    ELSE remote

(* Mutant: the connection is not checked again after the first message. *)
RemoteOnline_Once == RemoteNow.seen

RemoteOnline == RemoteNow.seen /\ RemoteNow.age - lag <= RemoteTimeout

MayCountNeutral ==
    /\ RemoteOnline
    /\ RecoveryReady(lag)
    /\ Neutral(remote.input)

NeutralLongEnough == neutral.seen /\ neutral.age - lag >= NeutralTime

(* Mutant: the time starts again in every neutral cycle. *)
ArmingInterlock_Restarts ==
    /\ neutral' = IF s_outputs_armed \/ ~MayCountNeutral
                  THEN [seen |-> FALSE, age |-> 0] ELSE [seen |-> TRUE, age |-> lag]
    /\ UNCHANGED vars

(* Mutant: an interruption of the neutral position does not start it anew. *)
ArmingInterlock_KeepsTime ==
    IF s_outputs_armed
    THEN neutral' = [seen |-> FALSE, age |-> 0] /\ UNCHANGED vars
    ELSE IF ~MayCountNeutral
    THEN UNCHANGED <<neutral, vars>>
    ELSE IF NeutralLongEnough
    THEN neutral' = [seen |-> FALSE, age |-> 0] /\ TryArm(lag)
    ELSE /\ neutral' = IF neutral.seen THEN neutral ELSE [seen |-> TRUE, age |-> lag]
         /\ UNCHANGED vars

(* The outputs are armed when the sticks were neutral for the whole time.  *)
ArmingInterlock ==
    IF s_outputs_armed \/ ~MayCountNeutral
    THEN neutral' = [seen |-> FALSE, age |-> 0] /\ UNCHANGED vars
    ELSE IF NeutralLongEnough
    THEN neutral' = [seen |-> FALSE, age |-> 0] /\ TryArm(lag)
    ELSE /\ neutral' = IF neutral.seen THEN neutral ELSE [seen |-> TRUE, age |-> lag]
         /\ UNCHANGED vars

(* The router is told that the receiver is lost while the outputs are not  *)
(* armed, in the cycle that arms them too.                                 *)
RoutedOnline == RemoteOnline /\ s_outputs_armed

(* CommandRouter_Route: what may move, and the shooter's own interlock. *)
RouteShooter ==
    LET s0 == remote.input.s0
        unlocked == shooter_down_seen \/ s0 = "down"
    IN  /\ shooter_down_seen' = unlocked
        /\ s_output' = [enabled |-> TRUE,
                        friction |-> unlocked /\ s0 \in {"mid", "up"},
                        feed |-> unlocked /\ s0 = "up"]

(* Mutant: the shooter stays unlocked while the robot is stopped. *)
RouteCommands_StaysUnlocked ==
    IF RoutedOnline THEN RouteShooter
    ELSE UNCHANGED shooter_down_seen /\ s_output' = NoCommand

RouteCommands ==
    IF RoutedOnline THEN RouteShooter
    ELSE shooter_down_seen' = FALSE /\ s_output' = NoCommand

Route ==
    /\ cycle = "service" /\ service.at = "idle"
    /\ remote' = RemoteNow
    /\ ArmingInterlock
    /\ RouteCommands
    /\ cycle' = "dispatch"
    /\ lag' = 0
    /\ UNCHANGED <<rc_slot, calm, heard>>

----------------------------------------------------------------------------
(* The dispatch: on_rc_update, then the frames of the controllers. *)
DispatchRemote ==
    /\ cycle = "dispatch"
    /\ cycle' = "send"
    /\ rc_slot' = NoMessage
    /\ IF rc_slot.pending
       THEN /\ remote' = [remote EXCEPT !.input = rc_slot.input, !.updated = TRUE]
            /\ heard' = IF rc_slot.age < MaxHeard THEN rc_slot.age ELSE MaxHeard
            /\ calm' = IF Neutral(rc_slot.input) THEN calm ELSE 0
       ELSE UNCHANGED <<remote, heard, calm>>
    /\ UNCHANGED <<vars, lag, neutral, shooter_down_seen, s_output>>

(* Optional modules and the controllers send; who sends what is left open. *)
Send ==
    /\ cycle \in {"early", "send"}
    /\ \E b \in Buses, id \in Ids, nonzero \in BOOLEAN :
          Write(b, id, nonzero, CommandTtl)
    /\ UNCHANGED <<loopVars, rc_slot, cmdVars>>

EndCycle ==
    /\ cycle = "send"
    /\ cycle' = "sleep"
    /\ UNCHANGED <<vars, lag, rc_slot, cmdVars>>

CanHardware == Hardware /\ UNCHANGED <<loopVars, rc_slot, cmdVars>>

(* A unit of time: while optional modules run, in the dispatch, asleep. *)
Time ==
    /\ cycle \in {"early", "dispatch", "send", "sleep"}
    /\ IF cycle = "early" THEN lag < MaxLag /\ lag' = lag + 1 ELSE UNCHANGED lag
    /\ Tick
    /\ rc_slot' = IF rc_slot.pending
                  THEN [rc_slot EXCEPT !.age = Older(@, MaxWait)] ELSE rc_slot
    /\ remote' = [remote EXCEPT !.age = IF remote.seen THEN Older(@, MaxRemoteAge) ELSE @]
    /\ neutral' = [neutral EXCEPT !.age = IF neutral.seen THEN Older(@, MaxNeutralAge) ELSE @]
    /\ calm' = Older(calm, NeutralTime)
    /\ heard' = Older(heard, MaxHeard)
    /\ UNCHANGED <<cycle, shooter_down_seen, s_output>>

----------------------------------------------------------------------------
CmdInit ==
    /\ Init
    /\ cycle = "sleep"
    /\ lag = 0
    /\ rc_slot = NoMessage
    /\ \E input \in RemoteInputs :   \* zeroed memory: no switch is down
         /\ ~Neutral(input)
         /\ remote = [input |-> input, updated |-> FALSE, seen |-> FALSE, age |-> 0]
    /\ neutral = [seen |-> FALSE, age |-> 0]
    /\ shooter_down_seen = FALSE
    /\ s_output = NoCommand
    /\ calm = 0
    /\ heard = MaxHeard

CmdNext ==
    \/ \E input \in RemoteInputs : ReceiveRemote(input)
    \/ Wake
    \/ CanService
    \/ Route
    \/ DispatchRemote
    \/ Send
    \/ EndCycle
    \/ CanHardware
    \/ Time

CmdSpec == CmdInit /\ [][CmdNext]_allVars

(* The control task is scheduled in every period and time passes; the      *)
(* controllers do as BspCan!FairSpec says.                                 *)
FairCmdSpec ==
    /\ CmdSpec
    /\ \A b \in Buses : WF_allVars(InitAcknowledge(b) /\ UNCHANGED <<loopVars, rc_slot, cmdVars>>)
    /\ \A b \in Buses, m \in Mailboxes :
          WF_allVars(Release(b, m) /\ UNCHANGED <<loopVars, rc_slot, cmdVars>>)
    /\ WF_allVars(Wake) /\ WF_allVars(CanService) /\ WF_allVars(Route)
    /\ WF_allVars(DispatchRemote) /\ WF_allVars(EndCycle) /\ WF_allVars(Time)

----------------------------------------------------------------------------
(* Properties *)

CmdTypeOK ==
    /\ cycle \in {"sleep", "early", "service", "dispatch", "send"}
    /\ lag \in 0 .. MaxLag
    /\ rc_slot \in {NoMessage} \cup
                    [pending : {TRUE}, input : RemoteInputs, age : 0 .. MaxWait]
    /\ remote \in [input : RemoteInputs, updated : BOOLEAN, seen : BOOLEAN,
                   age : 0 .. MaxRemoteAge]
    /\ neutral \in [seen : BOOLEAN, age : 0 .. MaxNeutralAge]
    /\ shooter_down_seen \in BOOLEAN
    /\ s_output \in [enabled : BOOLEAN, friction : BOOLEAN, feed : BOOLEAN]
    /\ calm \in 0 .. NeutralTime
    /\ heard \in 0 .. MaxHeard

(* The outputs are only armed when every bus was healthy for StableTime,   *)
(* and every message the controller got in the last NeutralTime was        *)
(* neutral: no fault, loss of the receiver or movement in between is       *)
(* missed, whenever in the cycle it happened.                              *)
ArmOnlyStable ==
    [][~s_outputs_armed /\ s_outputs_armed' =>
         /\ s_healthy_seen /\ healthyAge >= StableTime
         /\ calm >= NeutralTime
         /\ RemoteOnline]_allVars

(* After every stop, by a fault or by the loss of the receiver, the        *)
(* shooter starts only when its switch was down in a cycle that already    *)
(* commands the robot: never in the first one.                             *)
ShooterStartsDown ==
    [][~s_output.enabled /\ s_output'.enabled =>
         ~s_output'.friction /\ ~s_output'.feed]_allVars

(* The robot is told to stop when the receiver is silent: the message that *)
(* an enabled command came from is at most RemoteTimeout old and the time  *)
(* it waited for its dispatch and the cycle after it, and the command      *)
(* lasts until the next cycle.                                             *)
StopsWithoutRemote ==
    s_output.enabled => heard <= RemoteTimeout + 3 * MaxGap + MaxLag

(* Does not hold.  bsp_can.h:85 says of arming "Both buses must be healthy for 500 ms".    *)
ReadyMeansStable ==
    cycle = "service" /\ service.at = "idle" /\ RecoveryReady(lag)
        => healthyAge >= StableTime

(* When the buses work and the controllers answer, the receiver is online  *)
(* in every cycle and the operator leaves everything neutral, the outputs  *)
(* are armed again after every fault.                                      *)
NeutralArms ==
    /\ \A b \in Buses : bus[b].started
    /\ <>[](\A b \in Buses : controller[b].esr = "ok")
    /\ <>[][Time => Answers]_allVars
    /\ <>[](Neutral(remote.input))
    /\ <>[](cycle = "service" /\ service.at = "idle" => RemoteOnline)
    => []<>s_outputs_armed

=============================================================================
