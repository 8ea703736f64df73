------------------------------- MODULE BspCan -------------------------------
(***************************************************************************)
(* The CAN driver (bsp/can/bsp_can.c): who may send, which frame occupies  *)
(* which transmit mailbox, and how both buses stop and come back after a   *)
(* fault.                                                                  *)
(*                                                                         *)
(* Motor outputs are armed or not.  A fault of one bus disarms them, aborts*)
(* the mailboxes of both buses, and takes the faulty bus through a recovery*)
(* (abort, enter and leave initialisation, bus synchronisation) that waits *)
(* and retries when a step takes too long.  Arming again takes both buses  *)
(* healthy for a while and the operator's request.                         *)
(*                                                                         *)
(* Concurrency.  Every function runs in the control task; the controllers  *)
(* send, fail and acknowledge on their own.  BspCan_Service is one action  *)
(* per bus up to the abort requests of a fault and one from there on, so a *)
(* mailbox may be released in between; the other calls are one action each.*)
(*                                                                         *)
(* Abstraction.  A timestamp is kept as the time since it was taken, up to *)
(* the largest value the code compares it with; a deadline as the time     *)
(* left.  A frame is its identifier and whether it commands anything: all  *)
(* callers send eight bytes, and the driver only asks if they are all zero.*)
(* The trace ring, the diagnostics and reception are not part of it.       *)
(***************************************************************************)
EXTENDS Integers, FiniteSets

CONSTANTS
    BusCount,       \* CAN1 and CAN2
    MailboxCount,   \* transmit mailboxes of a controller: 3
    Ids,            \* standard identifiers in use
    StepTimeout,    \* CAN_RECOVERY_STEP_TIMEOUT_MS
    RetryTime,      \* CAN_RECOVERY_RETRY_MS
    StableTime,     \* CAN_RECOVERY_STABLE_MS
    CommandTtl,     \* the longest time a command stays valid
    AbortTimeout,   \* abort_timeout_ms of the callers, never 0
    MaxGap,         \* longest time between two BspCan_Service calls
    MaxLag,         \* longest age of the time passed to BspCan_TryArm
    AbortMayFail    \* HAL_CAN_AbortTxRequest may return an error

Buses == 1 .. BusCount
Mailboxes == 1 .. MailboxCount

ASSUME SizeAssumption ==
    /\ BusCount \in Nat \ {0} /\ MailboxCount \in Nat \ {0}
    /\ StepTimeout \in Nat /\ RetryTime \in Nat \ {0} /\ StepTimeout <= RetryTime
    /\ StableTime \in Nat \ {0} /\ CommandTtl \in Nat /\ AbortTimeout \in Nat \ {0}
    /\ MaxGap \in Nat \ {0} /\ MaxLag \in Nat
    /\ AbortMayFail \in BOOLEAN

VARIABLES
    bus,             \* s_started, s_recovery and s_abort_pending of a bus
    s_tx,            \* the driver's table of its mailboxes
    s_outputs_armed,
    s_healthy_seen,
    healthyAge,      \* time since s_healthy_since_ms, read if s_healthy_seen
    service,         \* BspCan_Service: where it is and its local variables
    controller,      \* hardware: error state, INRQ and INAK of a controller
    box,             \* hardware: what a mailbox holds
    sinceService     \* time since the last BspCan_Service call

vars == <<bus, s_tx, s_outputs_armed, s_healthy_seen, healthyAge, service,
          controller, box, sinceService>>

hardware == <<controller, box>>
outputVars == <<s_outputs_armed, s_healthy_seen, healthyAge>>

Ready == 0
Abort == 1
EnterInit == 2
LeaveInit == 3
BusSync == 4
RetryWait == 5

(* Ages and deadlines stop counting where no comparison sees a difference. *)
MaxOverdue == AbortTimeout + 2 * MaxGap
TimeLeft == -MaxOverdue .. CommandTtl

NoEntry == [active |-> FALSE]
Entry == [active : {TRUE}, id : Ids, nonzero : BOOLEAN,
          abort_requested : BOOLEAN, left : TimeLeft, wait : 0 .. AbortTimeout]

(* `old`: history, the frame was there when a bus failed. *)
Empty == [pending |-> FALSE]
Frame == [pending : {TRUE}, id : Ids, nonzero : BOOLEAN, aborting : BOOLEAN,
          old : BOOLEAN]

BusState == [started : BOOLEAN, phase : 0 .. 5, age : 0 .. RetryTime,
             abort_pending : BOOLEAN]
Controller == [esr : {"ok", "warning", "off"}, inrq : BOOLEAN, inak : BOOLEAN]
Service == [at : {"idle", "check", "advance"}, bus : Buses,
            esr : {"ok", "warning", "off"}, healthy : BOOLEAN]

ServiceIdle == [at |-> "idle", bus |-> 1, esr |-> "ok", healthy |-> FALSE]

AllFree(b) == \A m \in Mailboxes : ~box[b][m].pending

Aborted(frame) ==
    IF frame.pending THEN [frame EXCEPT !.aborting = TRUE] ELSE frame

----------------------------------------------------------------------------
(* Faults and deadlines *)

(* What latch_bus_fault leaves of the mailboxes of the bus b; `failed` are  *)
(* the buses whose abort request returns an error, which is ignored.        *)
BoxesAfterFault(boxes, failed) ==
    [b \in Buses |-> [m \in Mailboxes |->
        LET frame == boxes[b][m]
            kept  == IF frame.pending THEN [frame EXCEPT !.old = TRUE] ELSE frame
        IN  IF bus[b].started /\ b \notin failed THEN Aborted(kept) ELSE kept]]

(* Mutant: only the faulty bus waits for its mailboxes. *)
BusAfterFault_OneBus(b) ==
    [i \in Buses |->
       IF i = b THEN [bus[i] EXCEPT !.phase = Abort, !.age = 0,
                                    !.abort_pending = @ \/ bus[i].started]
       ELSE bus[i]]

BusAfterFault(b) ==
    [i \in Buses |->
       LET waiting == [bus[i] EXCEPT !.abort_pending = @ \/ bus[i].started]
       IN  IF i = b THEN [waiting EXCEPT !.phase = Abort, !.age = 0]
                    ELSE waiting]

(* latch_bus_fault, when the mailboxes hold `boxes`. *)
LatchFault(b, boxes) ==
    \E failed \in IF AbortMayFail THEN SUBSET Buses ELSE {{}} :
        /\ bus' = BusAfterFault(b)
        /\ s_outputs_armed' = FALSE
        /\ s_healthy_seen' = FALSE
        /\ healthyAge' = 0
        /\ box' = BoxesAfterFault(boxes, failed)

AbortResults == IF AbortMayFail THEN SUBSET Mailboxes ELSE {{}}

Stuck(b) ==
    {m \in Mailboxes : /\ s_tx[b][m].active /\ box[b][m].pending
                       /\ s_tx[b][m].abort_requested
                       /\ s_tx[b][m].wait >= AbortTimeout}

(* Mutant: a command is still good at its deadline. *)
Expired_Late(b) ==
    {m \in Mailboxes : /\ s_tx[b][m].active /\ box[b][m].pending
                       /\ s_tx[b][m].nonzero /\ ~s_tx[b][m].abort_requested
                       /\ s_tx[b][m].left < 0}

(* Zero frames do not expire. *)
Expired(b) ==
    {m \in Mailboxes : /\ s_tx[b][m].active /\ box[b][m].pending
                       /\ s_tx[b][m].nonzero /\ ~s_tx[b][m].abort_requested
                       /\ s_tx[b][m].left <= 0}

(* service_deadlines looks at the mailboxes in order and stops at the first *)
(* that does not obey; `failed` are those whose abort request fails.        *)
Disobeying(b, failed) == Stuck(b) \cup (Expired(b) \cap failed)
Visited(b, failed) == {m \in Mailboxes : \A d \in Disobeying(b, failed) : m < d}

AbortEntry(e) == [e EXCEPT !.abort_requested = TRUE, !.wait = 0]

TxAfterDeadlines(b, failed) ==
    [s_tx EXCEPT ![b] = [m \in Mailboxes |->
        IF m \notin Visited(b, failed) THEN @[m]
        ELSE IF ~box[b][m].pending THEN NoEntry
        ELSE IF m \in Expired(b) THEN AbortEntry(@[m]) ELSE @[m]]]

BoxesAfterDeadlines(b, failed) ==
    [box EXCEPT ![b] = [m \in Mailboxes |->
        IF m \in Visited(b, failed) \cap Expired(b) THEN Aborted(@[m]) ELSE @[m]]]

----------------------------------------------------------------------------
(* BspCan_Service *)

(* The control task sleeps between two cycles. *)
BeginService ==
    /\ service.at = "idle"
    /\ sinceService > 0
    /\ service' = [at |-> "check", bus |-> 1, esr |-> "ok",
                   healthy |-> \A b \in Buses : bus[b].started]
    /\ UNCHANGED <<bus, s_tx, outputVars, hardware, sinceService>>

(* Deadlines, and a fault if a mailbox does not obey or the bus is off. *)
CheckBus ==
    LET b == service.bus IN
    /\ service.at = "check"
    /\ service' = [service EXCEPT !.at = "advance", !.esr = controller[b].esr]
    /\ IF bus[b].started /\ bus[b].phase = Ready
       THEN \E failed \in AbortResults :
              /\ s_tx' = TxAfterDeadlines(b, failed)
              /\ IF Disobeying(b, failed) # {} \/ controller[b].esr = "off"
                 THEN LatchFault(b, BoxesAfterDeadlines(b, failed))
                 ELSE /\ box' = BoxesAfterDeadlines(b, failed)
                      /\ UNCHANGED <<bus, outputVars>>
       ELSE UNCHANGED <<bus, s_tx, outputVars, box>>
    /\ UNCHANGED <<controller, sinceService>>

(* Mutant: initialisation starts with frames pending. *)
NextPhase_InitEarly(b) ==
    CASE bus[b].phase = Abort -> EnterInit
      [] bus[b].phase = EnterInit /\ controller[b].inak -> LeaveInit
      [] bus[b].phase = LeaveInit /\ ~controller[b].inak -> BusSync
      [] bus[b].phase = BusSync /\ service.esr # "off" -> Ready
      [] OTHER -> bus[b].phase

(* Mutant: waiting for the retry has no end. *)
TimeAllowed_NoRetry(phase) ==
    IF phase \in {Abort, EnterInit} THEN StepTimeout ELSE RetryTime + 1

(* The time a phase may take before recovery waits, and the wait itself. *)
TimeAllowed(phase) ==
    IF phase \in {Abort, EnterInit} THEN StepTimeout ELSE RetryTime

NextPhase(b) ==
    CASE bus[b].phase = Abort /\ AllFree(b) -> EnterInit
      [] bus[b].phase = EnterInit /\ controller[b].inak -> LeaveInit
      [] bus[b].phase = LeaveInit /\ ~controller[b].inak -> BusSync
      [] bus[b].phase = BusSync /\ service.esr # "off" -> Ready
      [] OTHER ->
           IF bus[b].phase # Ready /\ bus[b].age >= TimeAllowed(bus[b].phase)
           THEN IF bus[b].phase = RetryWait THEN Abort ELSE RetryWait
           ELSE bus[b].phase

(* A new phase starts its own clock; Ready has none. *)
AgeAfter(b) == IF NextPhase(b) = bus[b].phase THEN bus[b].age ELSE 0

AbortsAgain(b) == bus[b].phase = RetryWait /\ NextPhase(b) = Abort

StaysHealthy(b) ==
    /\ service.healthy
    /\ NextPhase(b) = Ready
    /\ service.esr = "ok"

(* Mutant: the buses that still abort are forgotten. *)
NoAbortPending_Ignored(buses) == TRUE

NoAbortPending(buses) == \A i \in Buses : ~buses[i].abort_pending

(* The end of BspCan_Service, when the last bus was looked at. *)
EndService(buses, healthy) ==
    LET ok == healthy /\ NoAbortPending(buses) IN
    /\ service' = ServiceIdle
    /\ sinceService' = 0
    /\ s_healthy_seen' = ok
    /\ healthyAge' = IF ok /\ s_healthy_seen THEN healthyAge ELSE 0

(* The recovery of the bus, and what it tells about its health. *)
AdvanceBus ==
    LET b == service.bus
        started == bus[b].started
        healthy == IF started THEN StaysHealthy(b) ELSE service.healthy
    IN
    /\ service.at = "advance"
    /\ bus' = IF ~started THEN bus
              ELSE [bus EXCEPT ![b].abort_pending = @ /\ ~AllFree(b),
                               ![b].phase = NextPhase(b),
                               ![b].age = AgeAfter(b)]
    /\ controller' = IF started /\ NextPhase(b) # bus[b].phase
                     THEN [controller EXCEPT ![b].inrq =
                             CASE NextPhase(b) = EnterInit -> TRUE
                               [] NextPhase(b) = LeaveInit -> FALSE
                               [] OTHER -> @]
                     ELSE controller
    /\ IF started /\ AbortsAgain(b)
       THEN \E ok \in IF AbortMayFail THEN BOOLEAN ELSE {TRUE} :
              box' = IF ok THEN [box EXCEPT ![b] =
                                   [m \in Mailboxes |-> Aborted(@[m])]]
                           ELSE box
       ELSE UNCHANGED box
    /\ IF b < BusCount
       THEN /\ service' = [service EXCEPT !.at = "check", !.bus = b + 1,
                                          !.healthy = healthy]
            /\ UNCHANGED <<s_healthy_seen, healthyAge, sinceService>>
       ELSE EndService(bus', healthy)
    /\ UNCHANGED <<s_tx, s_outputs_armed>>

----------------------------------------------------------------------------
(* BspCan_RecoveryReady and BspCan_TryArm, at a time `lag` ago.  Times are *)
(* unsigned: one before s_healthy_since_ms seems to be very long after it. *)

RecoveryReady(lag) ==
    /\ s_healthy_seen
    /\ healthyAge < lag \/ healthyAge - lag >= StableTime

MayArm(lag) ==
    /\ RecoveryReady(lag)
    /\ \A b \in Buses : bus[b].phase = Ready /\ controller[b].esr = "ok"

TryArm(lag) ==
    /\ service.at = "idle"
    /\ s_outputs_armed' = (s_outputs_armed \/ MayArm(lag))
    /\ UNCHANGED <<bus, s_tx, s_healthy_seen, healthyAge, service, hardware,
                   sinceService>>

----------------------------------------------------------------------------
(* write_frame *)

NewEntry(id, nonzero, left) ==
    [active |-> TRUE, id |-> id, nonzero |-> nonzero, abort_requested |-> FALSE,
     left |-> left, wait |-> 0]

NewFrame(id, nonzero) ==
    [pending |-> TRUE, id |-> id, nonzero |-> nonzero, aborting |-> FALSE,
     old |-> FALSE]

(* Mutant: the search stops at the first mailbox in use. *)
InFlight_First(b, id) ==
    {m \in Mailboxes : /\ s_tx[b][m].active /\ box[b][m].pending
                       /\ s_tx[b][m].id = id
                       /\ \A n \in Mailboxes : s_tx[b][n].active => m <= n}

InFlight(b, id) ==
    {m \in Mailboxes : s_tx[b][m].active /\ box[b][m].pending /\ s_tx[b][m].id = id}

(* Mutant: the operator's interlock is not asked. *)
Refused_Unlocked(b, nonzero, left) ==
    \/ bus[b].phase # Ready
    \/ bus[b].abort_pending
    \/ nonzero /\ left <= 0

Refused(b, nonzero, left) ==
    \/ bus[b].phase # Ready
    \/ bus[b].abort_pending
    \/ nonzero /\ ~s_outputs_armed
    \/ nonzero /\ left <= 0

(* A frame of that identifier is on its way: a stop aborts it, once. *)
WriteBusy(b, m, nonzero, tx, boxes) ==
    IF nonzero \/ ~tx[b][m].nonzero \/ tx[b][m].abort_requested
    THEN s_tx' = tx /\ box' = boxes /\ UNCHANGED <<bus, outputVars>>
    ELSE \/ /\ s_tx' = [tx EXCEPT ![b][m] = AbortEntry(@)]
            /\ box' = [boxes EXCEPT ![b][m] = Aborted(@)]
            /\ UNCHANGED <<bus, outputVars>>
         \/ AbortMayFail /\ s_tx' = tx /\ LatchFault(b, boxes)

WriteFree(b, id, nonzero, left, tx, boxes) ==
    /\ IF \E m \in Mailboxes : ~boxes[b][m].pending
       THEN \E m \in Mailboxes :
              /\ ~boxes[b][m].pending
              /\ s_tx' = [tx EXCEPT ![b][m] = NewEntry(id, nonzero, left)]
              /\ box' = [boxes EXCEPT ![b][m] = NewFrame(id, nonzero)]
       ELSE s_tx' = tx /\ box' = boxes
    /\ UNCHANGED <<bus, outputVars>>

Write(b, id, nonzero, left) ==
    /\ service.at = "idle"
    /\ bus[b].started
    /\ \E failed \in IF bus[b].phase = Ready THEN AbortResults ELSE {{}} :
         LET watched == bus[b].phase = Ready
             tx      == IF watched THEN TxAfterDeadlines(b, failed) ELSE s_tx
             boxes   == IF watched THEN BoxesAfterDeadlines(b, failed) ELSE box
             fault   == watched /\ (Disobeying(b, failed) # {}
                                      \/ controller[b].esr = "off")
         IN
         IF fault THEN s_tx' = tx /\ LatchFault(b, boxes)
         ELSE IF Refused(b, nonzero, left)
         THEN s_tx' = tx /\ box' = boxes /\ UNCHANGED <<bus, outputVars>>
         ELSE IF InFlight(b, id) # {}
         THEN \E m \in InFlight(b, id) :
                /\ \A n \in InFlight(b, id) : m <= n
                /\ WriteBusy(b, m, nonzero, tx, boxes)
         ELSE WriteFree(b, id, nonzero, left, tx, boxes)
    /\ UNCHANGED <<service, controller, sinceService>>

----------------------------------------------------------------------------
(* The hardware *)

(* A frame was sent, or its abort took effect. *)
Release(b, m) ==
    /\ box[b][m].pending
    /\ box[b][m].aborting \/ (controller[b].esr # "off" /\ ~controller[b].inak)
    /\ box' = [box EXCEPT ![b][m] = Empty]
    /\ UNCHANGED <<bus, s_tx, outputVars, service, controller, sinceService>>

ErrorState(b, esr) ==
    /\ bus[b].started
    /\ controller[b].esr # esr
    /\ controller' = [controller EXCEPT ![b].esr = esr]
    /\ UNCHANGED <<bus, s_tx, outputVars, service, box, sinceService>>

InitAcknowledge(b) ==
    /\ controller[b].inak # controller[b].inrq
    /\ controller' = [controller EXCEPT ![b].inak = controller[b].inrq]
    /\ UNCHANGED <<bus, s_tx, outputVars, service, box, sinceService>>

Older(age, bound) == IF age < bound THEN age + 1 ELSE age

(* The deadline of a zero frame is never read. *)
OlderEntry(e) ==
    IF ~e.active THEN e
    ELSE [e EXCEPT !.left = IF e.nonzero /\ @ > -MaxOverdue THEN @ - 1 ELSE @,
                   !.wait = IF e.abort_requested THEN Older(@, AbortTimeout) ELSE 0]

(* One unit of time, between the calls. *)
Tick ==
    /\ service.at = "idle"
    /\ sinceService < MaxGap
    /\ sinceService' = sinceService + 1
    /\ healthyAge' = IF s_healthy_seen THEN Older(healthyAge, StableTime + MaxLag)
                                       ELSE healthyAge
    /\ bus' = [b \in Buses |-> [bus[b] EXCEPT !.age =
                 IF bus[b].phase = Ready THEN @ ELSE Older(@, RetryTime)]]
    /\ s_tx' = [b \in Buses |-> [m \in Mailboxes |-> OlderEntry(s_tx[b][m])]]
    /\ UNCHANGED <<s_outputs_armed, s_healthy_seen, service, hardware>>

----------------------------------------------------------------------------
(* BspCan_Start was called for every bus; nobody looks if it succeeded. *)
Init ==
    /\ \E running \in SUBSET Buses :
         bus = [b \in Buses |-> [started |-> b \in running, phase |-> Ready,
                                 age |-> 0, abort_pending |-> FALSE]]
    /\ s_tx = [b \in Buses |-> [m \in Mailboxes |-> NoEntry]]
    /\ s_outputs_armed = FALSE
    /\ s_healthy_seen = FALSE
    /\ healthyAge = 0
    /\ service = ServiceIdle
    /\ controller = [b \in Buses |->
                       [esr |-> "ok", inrq |-> FALSE, inak |-> FALSE]]
    /\ box = [b \in Buses |-> [m \in Mailboxes |-> Empty]]
    /\ sinceService = 0

ServiceStep == BeginService \/ CheckBus \/ AdvanceBus

Hardware ==
    \E b \in Buses :
        \/ \E m \in Mailboxes : Release(b, m)
        \/ \E esr \in {"ok", "warning", "off"} : ErrorState(b, esr)
        \/ InitAcknowledge(b)

Next ==
    \/ ServiceStep
    \/ \E lag \in 0 .. MaxLag : TryArm(lag)
    \/ \E b \in Buses, id \in Ids :
          \/ Write(b, id, FALSE, CommandTtl)
          \/ \E left \in 0 .. CommandTtl : Write(b, id, TRUE, left)
    \/ Hardware
    \/ Tick

Spec == Init /\ [][Next]_vars

(* The control task runs in every period, time passes, and a controller     *)
(* sends or gives up a frame when it can and answers to INRQ.               *)
FairSpec ==
    /\ Spec
    /\ \A b \in Buses : WF_vars(InitAcknowledge(b))
    /\ \A b \in Buses, m \in Mailboxes : WF_vars(Release(b, m))
    /\ WF_vars(ServiceStep) /\ WF_vars(Tick)

----------------------------------------------------------------------------
(* Properties *)

TypeOK ==
    /\ bus \in [Buses -> BusState]
    /\ s_tx \in [Buses -> [Mailboxes -> Entry \cup {NoEntry}]]
    /\ s_outputs_armed \in BOOLEAN
    /\ s_healthy_seen \in BOOLEAN
    /\ healthyAge \in 0 .. StableTime + MaxLag
    /\ service \in Service
    /\ controller \in [Buses -> Controller]
    /\ box \in [Buses -> [Mailboxes -> Frame \cup {Empty}]]
    /\ sinceService \in 0 .. MaxGap

(* Outputs are armed, and the time of stable operation runs, only while no  *)
(* bus recovers and none still waits for the mailboxes of an earlier fault, *)
(* although any call of the control task may discover a fault.              *)
OnlineWhenArmed ==
    s_outputs_armed \/ s_healthy_seen =>
        \A b \in Buses : bus[b].phase = Ready /\ ~bus[b].abort_pending

(* Arming again never lets a command out that was given before the fault:   *)
(* whatever the aborts did, no frame of before it is left in a mailbox.     *)
NoOldCommand ==
    s_outputs_armed =>
        \A b \in Buses, m \in Mailboxes : box[b][m].pending => ~box[b][m].old

(* A controller is never taken into initialisation with frames in its       *)
(* mailboxes: they could leave when it comes back.                          *)
NothingAcrossInit ==
    \A b \in Buses : controller[b].inrq => AllFree(b)

(* A command that cannot be sent does not stay in its mailbox: past its     *)
(* deadline it is aborted and, if the mailbox does not give it up, the      *)
(* outputs are disarmed: at most the abort timeout and two service periods  *)
(* late, a tick less for each since the service ends a period.              *)
NoStaleCommand ==
    s_outputs_armed =>
        \A b \in Buses, m \in Mailboxes :
            box[b][m].pending /\ box[b][m].nonzero =>
                /\ s_tx[b][m].active
                /\ s_tx[b][m].left >= -(AbortTimeout + 2 * (MaxGap - 1))

(* With the outputs disarmed every command in a mailbox is being aborted,   *)
(* on the healthy bus too, if the aborts are accepted.                      *)
DisarmedIsSilent ==
    ~s_outputs_armed =>
        \A b \in Buses, m \in Mailboxes :
            box[b][m].pending /\ box[b][m].nonzero => box[b][m].aborting

Answers == \A b \in Buses : controller[b].inak = controller[b].inrq

(* When both buses run and stay without errors, and the controllers answer  *)
(* within the time a phase allows, the recovery of every fault ends and the *)
(* buses are found healthy again: no retry waits for ever, and no bus for   *)
(* one that waits for it.                                                   *)
HealthyAgain ==
    /\ \A b \in Buses : bus[b].started
    /\ <>[](\A b \in Buses : controller[b].esr = "ok")
    /\ <>[][Tick => Answers]_vars
    => []<>s_healthy_seen

(* What those that send through the driver may rely on (CanPort): a frame   *)
(* of an identifier at a time, commands only while armed, and no frame of   *)
(* before a fault in a mailbox when the outputs are armed again.            *)
Occupied == {p \in Buses \X Mailboxes : box[p[1]][p[2]].pending}
View(p) == [bus |-> p[1], id |-> box[p[1]][p[2]].id,
            nonzero |-> box[p[1]][p[2]].nonzero, old |-> box[p[1]][p[2]].old]
Flight == {View(p) : p \in Occupied}

Port == INSTANCE CanPort WITH armed <- s_outputs_armed, flight <- Flight

PortSpec == Port!Spec

============================================================================
