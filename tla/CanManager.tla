----------------------------- MODULE CanManager -----------------------------
(***************************************************************************)
(* The CAN manager (modules/can_comm/can_manager.c): it collects the       *)
(* commands of the DJI motors, four of which share a frame, and hands the  *)
(* frames to the driver once in a control cycle.  A command ages from the  *)
(* moment it is given: it is sent in time or replaced by zero, also while  *)
(* the other motors of its frame go on; a fault clears all of them.        *)
(*                                                                         *)
(* Concurrency.  One control cycle is BspCan_Service and the arming, the   *)
(* commands of the controllers, and FlushTx of one bus after the other.    *)
(* The controllers of the buses send and time passes at any point of it.   *)
(*                                                                         *)
(* Abstraction.  A current is zero or not, times count down to a deadline. *)
(* The driver is what CanPort promises, with any answer it may give.       *)
(***************************************************************************)
EXTENDS Integers, FiniteSetsExt

CONSTANTS
    BusCount,       \* CAN1 and CAN2
    FrameCount,     \* CAN_TX_FRAME_COUNT
    Slots,          \* motors of a frame: 0 .. 3
    Ttl,            \* tx_command_ttl_ms of a slot
    Slack           \* how long the driver keeps a command past its deadline

Buses == 1 .. BusCount
Ids == 1 .. FrameCount

(* What MCMotors and MCProgress assume of each instance. *)
ManagerAssumption ==
    /\ BusCount \in Nat \ {0} /\ FrameCount \in Nat \ {0} /\ Slack \in Nat
    /\ IsFiniteSet(Slots) /\ Slots # {} /\ Ttl \in [Slots -> Nat \ {0}]

VARIABLES
    slot,       \* currents, generated_ms + ttl_ms and valid_mask of a slot
    pending,    \* pending of a frame
    cycle,      \* where the control cycle is: at, and bus and frame of FlushTx
    armed,      \* BspCan_OutputsArmed()
    services,   \* services since the last fault, up to the two arming takes
    mailbox,    \* the frame of an identifier that is in flight on a bus
    wire        \* history: slots whose last sent current is not zero

vars == <<slot, pending, cycle, armed, services, mailbox, wire>>

Longest == Max({Ttl[s] : s \in Slots})
Least == -(Slack + Longest)

(* `due`: history, the time left of the command that was given last.        *)
NoCommand ==
    [valid |-> FALSE, nonzero |-> FALSE, left |-> 0, due |-> 0, old |-> FALSE]
Slot == [valid : BOOLEAN, nonzero : BOOLEAN, left : 0 .. Longest,
         due : Least .. Longest, old : BOOLEAN]

(* `commands`: slots that are not zero; `left`: until the frame's deadline; *)
(* `due`: history, until the earliest of its commands is out of date.       *)
Empty == [full |-> FALSE]
Frame == [full : {TRUE}, commands : SUBSET Slots, left : -Slack .. Longest,
          due : Least .. Longest, old : BOOLEAN]

Idle == [at |-> "idle", bus |-> 1, frame |-> 0]

----------------------------------------------------------------------------
(* What the driver does with what it holds when a bus fails. *)
Fault(slots) ==
    /\ armed' = FALSE
    /\ services' = 0
    /\ slot' = [b \in Buses |-> [i \in Ids |-> [s \in Slots |->
                  [slots[b][i][s] EXCEPT !.old = slots[b][i][s].nonzero]]]]

OldMailboxes ==
    [b \in Buses |-> [i \in Ids |->
       IF mailbox[b][i].full THEN [mailbox[b][i] EXCEPT !.old = TRUE]
                             ELSE Empty]]

NothingOld == \A b \in Buses, i \in Ids : mailbox[b][i].full => ~mailbox[b][i].old

(* BspCan_Service finds a fault, or the outputs are armed: both buses were  *)
(* found healthy, and the operator at neutral, by the service of an earlier *)
(* cycle.                                                                   *)
Service ==
    /\ cycle.at = "idle"
    /\ cycle' = [cycle EXCEPT !.at = "dispatch"]
    /\ \/ Fault(slot) /\ mailbox' = OldMailboxes
       \/ /\ armed' \in {armed, armed \/ (services = 2 /\ NothingOld)}
          /\ services' = IF services < 2 THEN services + 1 ELSE 2
          /\ UNCHANGED <<slot, mailbox>>
    /\ UNCHANGED <<pending, wire>>

Command(s, nonzero) == [valid |-> TRUE, nonzero |-> nonzero, left |-> Ttl[s],
                        due |-> Ttl[s], old |-> FALSE]

(* Mutant: an update of one motor renews the whole frame. *)
Updated_WholeFrame(slots, s, nonzero) ==
    [t \in Slots |-> IF t = s THEN Command(s, nonzero)
                     ELSE [slots[t] EXCEPT !.left = Ttl[t]]]

Updated(slots, s, nonzero) == [slots EXCEPT ![s] = Command(s, nonzero)]

(* CAN_Manager_SendMotorCurrent *)
SendMotorCurrent(b, i, s, nonzero) ==
    /\ cycle.at = "dispatch"
    /\ slot' = [slot EXCEPT ![b][i] = Updated(@, s, nonzero)]
    /\ pending' = [pending EXCEPT ![b][i] = TRUE]
    /\ UNCHANGED <<cycle, armed, services, mailbox, wire>>

(* Another sender's frame finds the fault. *)
OtherFault ==
    /\ cycle.at = "dispatch"
    /\ Fault(slot)
    /\ mailbox' = OldMailboxes
    /\ UNCHANGED <<pending, cycle, wire>>

BeginFlush ==
    /\ cycle.at = "dispatch"
    /\ cycle' = [at |-> "flush", bus |-> 1, frame |-> 0]
    /\ UNCHANGED <<slot, pending, armed, services, mailbox, wire>>

----------------------------------------------------------------------------
(* CAN_Manager_FlushTx of the bus cycle.bus *)

(* Mutant: only the ages are forgotten, the currents stay. *)
Cleared_KeepsCurrents(c) == [c EXCEPT !.left = Longest]

Cleared(c) == NoCommand

(* On entry (frame 0) and on exit: disarmed outputs clear every frame. *)
Purge ==
    LET b == cycle.bus IN
    /\ cycle.at = "flush"
    /\ cycle.frame \in {0, FrameCount + 1}
    /\ IF armed
       THEN UNCHANGED <<slot, pending>>
       ELSE /\ pending' = [pending EXCEPT ![b] = [i \in Ids |->
                             @[i] \/ \E s \in Slots : slot[b][i][s].valid]]
            /\ slot' = [slot EXCEPT ![b] = [i \in Ids |-> [s \in Slots |->
                          Cleared(@[i][s])]]]
    /\ cycle' = CASE cycle.frame = 0 -> [cycle EXCEPT !.frame = 1]
                  [] cycle.frame # 0 /\ b < BusCount ->
                       [cycle EXCEPT !.bus = b + 1, !.frame = 0]
                  [] OTHER -> Idle
    /\ UNCHANGED <<armed, services, mailbox, wire>>

OutOfDate(c) == c.valid /\ c.left <= 0

Fresh(slots) == [s \in Slots |-> IF OutOfDate(slots[s]) THEN NoCommand ELSE slots[s]]

CommandsOf(slots) == {s \in Slots : slots[s].nonzero}

(* Mutant: a command that runs out leaves the frame as it was sent. *)
MustSend_NewOnly(b, i) == pending[b][i]

MustSend(b, i) ==
    pending[b][i] \/ \E s \in Slots : OutOfDate(slot[b][i][s])

(* The earliest deadline of the commands. *)
Deadline(slots) == Min({slots[s].left : s \in CommandsOf(slots)})

NewFrame(slots) ==
    LET commands == CommandsOf(slots)
    IN  [full |-> TRUE, commands |-> commands,
         left |-> IF commands = {} THEN 0 ELSE Deadline(slots),
         due |-> IF commands = {} THEN 0 ELSE Min({slots[s].due : s \in commands}),
         old |-> \E s \in commands : slots[s].old]

(* The driver's answers to BspCan_TryWriteDeadline. *)
Accepted(b, i) ==
    LET slots == Fresh(slot[b][i]) IN
    /\ CommandsOf(slots) # {} => armed
    /\ ~mailbox[b][i].full
    /\ mailbox' = [mailbox EXCEPT ![b][i] = NewFrame(slots)]
    /\ pending' = [pending EXCEPT ![b][i] = FALSE]
    /\ slot' = [slot EXCEPT ![b][i] = slots]
    /\ UNCHANGED <<armed, services>>

BusyOrError(b, i) ==
    LET slots == [slot EXCEPT ![b][i] = Fresh(@)] IN
    /\ pending' = [pending EXCEPT ![b][i] = TRUE]
    /\ \/ slot' = slots /\ UNCHANGED <<armed, services, mailbox>>
       \/ Fault(slots) /\ mailbox' = OldMailboxes

NextFrame == cycle' = [cycle EXCEPT !.frame = @ + 1] /\ UNCHANGED wire

AtFrame(b, i) == cycle = [at |-> "flush", bus |-> b, frame |-> i]

FlushAccepted(b, i) == AtFrame(b, i) /\ MustSend(b, i) /\ Accepted(b, i) /\ NextFrame

FlushFrame(b, i) ==
    /\ AtFrame(b, i)
    /\ IF MustSend(b, i)
       THEN Accepted(b, i) \/ BusyOrError(b, i)
       ELSE /\ slot' = [slot EXCEPT ![b][i] = Fresh(@)]
            /\ UNCHANGED <<pending, armed, services, mailbox>>
    /\ NextFrame

----------------------------------------------------------------------------
(* The controllers of the buses, and the time. *)

(* The driver aborts commands, but a zero frame only for a fault. *)
Leaves(b, i, sent) ==
    /\ mailbox[b][i].full
    /\ sent \/ mailbox[b][i].commands # {} \/ mailbox[b][i].old
    /\ mailbox' = [mailbox EXCEPT ![b][i] = Empty]
    /\ wire' = IF sent THEN [wire EXCEPT ![b][i] = mailbox[b][i].commands] ELSE wire
    /\ UNCHANGED <<slot, pending, cycle, armed, services>>

Less(time, least) == IF time > least THEN time - 1 ELSE time

OlderFrame(f) ==
    IF ~f.full \/ f.commands = {} THEN f
    ELSE [f EXCEPT !.left = Less(@, -Slack), !.due = Less(@, Least)]

OlderSlot(c) ==
    [c EXCEPT !.left = Less(@, 0), !.due = IF c.valid THEN Less(@, Least) ELSE 0]

(* No command stays in its mailbox longer than the driver's slack. *)
Tick ==
    /\ \A b \in Buses, i \in Ids :
         LET f == mailbox[b][i]
         IN  f.full /\ ~f.old /\ f.commands # {} => f.left > -Slack
    /\ slot' = [b \in Buses |-> [i \in Ids |-> [s \in Slots |->
                  OlderSlot(slot[b][i][s])]]]
    /\ mailbox' = [b \in Buses |-> [i \in Ids |-> OlderFrame(mailbox[b][i])]]
    /\ UNCHANGED <<pending, cycle, armed, services, wire>>

(* CAN_Manager_Init *)
Init ==
    /\ slot = [b \in Buses |-> [i \in Ids |-> [s \in Slots |-> NoCommand]]]
    /\ pending = [b \in Buses |-> [i \in Ids |-> FALSE]]
    /\ cycle = Idle
    /\ armed = FALSE
    /\ services = 0
    /\ mailbox = [b \in Buses |-> [i \in Ids |-> Empty]]
    /\ wire = [b \in Buses |-> [i \in Ids |-> {}]]

Control ==
    \/ Service
    \/ BeginFlush
    \/ Purge
    \/ \E b \in Buses, i \in Ids : FlushFrame(b, i)

Next ==
    \/ Control
    \/ \E b \in Buses, i \in Ids :
          \/ \E s \in Slots, nonzero \in BOOLEAN : SendMotorCurrent(b, i, s, nonzero)
          \/ \E sent \in BOOLEAN : Leaves(b, i, sent)
    \/ OtherFault
    \/ Tick

Spec == Init /\ [][Next]_vars

(* The control task runs and time passes; a driver asked again and again    *)
(* accepts a frame, and sends one of those it accepted.                     *)
FairSpec ==
    /\ Spec
    /\ WF_vars(Control) /\ WF_vars(Tick)
    /\ \A b \in Buses, i \in Ids :
         /\ SF_vars(FlushAccepted(b, i))
         /\ WF_vars(\E sent \in BOOLEAN : Leaves(b, i, sent))
         /\ SF_vars(Leaves(b, i, TRUE))

----------------------------------------------------------------------------
(* Properties *)

TypeOK ==
    /\ slot \in [Buses -> [Ids -> [Slots -> Slot]]]
    /\ pending \in [Buses -> [Ids -> BOOLEAN]]
    /\ cycle \in [at : {"idle", "dispatch", "flush"}, bus : Buses,
                  frame : 0 .. FrameCount + 1]
    /\ armed \in BOOLEAN
    /\ services \in 0 .. 2
    /\ mailbox \in [Buses -> [Ids -> Frame \cup {Empty}]]
    /\ wire \in [Buses -> [Ids -> SUBSET Slots]]

(* A command leaves no later than its time to live and the driver's slack   *)
(* after it was given, although it shares its frame with younger ones, is   *)
(* sent again with every update of another motor and waits for a busy bus.  *)
NoLateCommand ==
    \A b \in Buses, i \in Ids :
        LET f == mailbox[b][i]
        IN  f.full /\ ~f.old /\ f.commands # {} => f.due >= -Slack

(* Armed again, the robot holds no command of before the fault, neither in  *)
(* a slot of either bus nor in a mailbox, wherever in the cycle the fault   *)
(* was found.                                                               *)
ForgetsAtFault ==
    armed => \A b \in Buses, i \in Ids :
               /\ \A s \in Slots : ~slot[b][i][s].old
               /\ mailbox[b][i].full => ~mailbox[b][i].old

(* The manager in every state: nothing leaves late, and nothing of before a *)
(* fault is kept.                                                           *)
ManagerInv ==
    /\ TypeOK
    /\ NoLateCommand
    /\ ForgetsAtFault

(* A motor of the frame runs, or will when the frame leaves the mailbox. *)
Runs(b, i) == wire[b][i] # {} \/ (mailbox[b][i].full /\ mailbox[b][i].commands # {})

(* The frame is due, or its zeros are in flight, or it has a command, which *)
(* is renewed or runs out.                                                  *)
StopIsDue(b, i) ==
    \/ pending[b][i]
    \/ mailbox[b][i].full /\ mailbox[b][i].commands = {}
    \/ CommandsOf(slot[b][i]) # {}

Stoppable(b, i) == Runs(b, i) => StopIsDue(b, i)

ZerosAborted(b, i) ==
    /\ mailbox[b][i].full /\ mailbox[b][i].commands = {} /\ mailbox[b][i].old
    /\ ~mailbox'[b][i].full /\ wire'[b][i] = wire[b][i]

(* While a motor of a frame runs, a frame that stops it is due, on its way,  *)
(* or becomes due when the last command in the frame runs out: whatever the  *)
(* driver refuses, and however a command ends (a zero, its time to live, a   *)
(* fault).  Only zeros that are aborted with a fault are lost.               *)
KeepsStops ==
    /\ \A b \in Buses, i \in Ids : Stoppable(b, i)
    /\ [][\A b \in Buses, i \in Ids :
             Stoppable(b, i) => Stoppable(b, i)' \/ ZerosAborted(b, i)]_vars

Renewed(b, i, s) == slot[b][i][s].left = Ttl[s]

(* A motor whose commands stop is sent zero, although its last command has  *)
(* long left the mailbox and other motors of the frame go on; unless a      *)
(* fault comes, which may abort the zero too.                               *)
SilenceStops ==
    \A b \in Buses, i \in Ids, s \in Slots :
        armed /\ slot[b][i][s].nonzero
            ~> s \notin wire[b][i] \/ ~armed \/ Renewed(b, i, s)

(* The frames in flight, as the driver's promise speaks of them. *)
Full == {p \in Buses \X Ids : mailbox[p[1]][p[2]].full}
View(p) == [bus |-> p[1], id |-> p[2],
            nonzero |-> mailbox[p[1]][p[2]].commands # {},
            old |-> mailbox[p[1]][p[2]].old]
Flight == {View(p) : p \in Full}

(* The manager uses the driver as the driver's promise allows. *)
Port == INSTANCE CanPort WITH flight <- Flight

PortSpec == Port!Spec

==============================================================================
