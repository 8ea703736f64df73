------------------------- MODULE CmdControllerProofs -------------------------
(***************************************************************************)
(* Proofs about CmdController, for every set of receiver messages and      *)
(* every timing constant: the control task keeps the driver within what    *)
(* BspCanProofs says of it, the outputs are armed only after a whole       *)
(* period without fault and movement, and a silent receiver stops the      *)
(* robot in time.                                                          *)
(***************************************************************************)
EXTENDS CmdController, BspCanProofs

(* BspCan_Service is over, and the router has not worked yet. *)
Served == cycle = "service" /\ service.at = "idle"

(* BspCan_Service runs in its part of the cycle only, and is never due     *)
(* while the router works.                                                 *)
InCycle ==
    /\ cycle # "service" => service.at = "idle"
    /\ Served => sinceService = 0

(* A bus that fails cannot be back at the end of the same service. *)
Failed ==
    \E b \in Buses :
        \/ bus[b].phase = Abort
        \/ service.at # "idle" /\ b < service.bus /\ bus[b].phase # Ready

(* Before the service the time without fault covers the cycle, as far as it *)
(* got; it starts anew in this service only if no neutral position counts. *)
HealthKnown ==
    /\ cycle \in {"early", "service"} /\ ~Served /\ s_healthy_seen =>
          healthyAge >= lag
    /\ Served /\ neutral.seen /\ s_healthy_seen => healthyAge >= lag
    /\ ~Served /\ neutral.seen /\ ~s_healthy_seen => Failed

(* The time of the neutral position is one without any other message. *)
CalmKnown ==
    /\ cycle \in {"early", "service"} /\ Neutral(remote.input) =>
          calm >= lag \/ calm = NeutralTime
    /\ neutral.seen /\ Neutral(remote.input) =>
          calm >= neutral.age \/ calm = NeutralTime
    /\ cycle = "dispatch" /\ neutral.seen => Neutral(remote.input)

(* A robot that is stopped has its shooter locked. *)
LockedWhenStopped == ~s_output.enabled => ~shooter_down_seen

(* How old the message is that waits, that was just dispatched, that the   *)
(* receiver counts as online by, and that the robot moves by.              *)
WaitBound == IF cycle = "dispatch" \/ Served THEN MaxGap + sinceService ELSE sinceService
NewBound == IF Served THEN 2 * MaxGap ELSE MaxGap + sinceService
UseBound == IF Served THEN 3 * MaxGap ELSE 2 * MaxGap + sinceService

HeardKnown ==
    /\ rc_slot.pending => rc_slot.age <= WaitBound
    /\ remote.updated => cycle # "dispatch" /\ heard <= NewBound
    /\ remote.seen /\ ~remote.updated /\ remote.age < MaxRemoteAge =>
          heard <= remote.age + 2 * MaxGap
    /\ s_output.enabled => heard <= RemoteTimeout + MaxLag + UseBound

CmdInv ==
    /\ Inv /\ CmdTypeOK
    /\ InCycle /\ HealthKnown /\ CalmKnown /\ LockedWhenStopped /\ HeardKnown

Parts == CmdTypeOK /\ InCycle /\ HealthKnown /\ CalmKnown /\ LockedWhenStopped
            /\ HeardKnown

----------------------------------------------------------------------------
(* The control task as a user of the driver *)

LEMMA TaskSteps ==
    ASSUME lag \in 0 .. MaxLag, [CmdNext]_allVars
    PROVE  [Next]_vars
<1>1. CASE UNCHANGED allVars
  BY <1>1 DEF allVars
<1>2. CASE Route
  BY <1>2 DEF Route, ArmingInterlock, Next
<1>3. CASE Send
  <2>1. PICK b \in Buses, id \in Ids, nonzero \in BOOLEAN :
               Write(b, id, nonzero, CommandTtl)
    BY <1>3 DEF Send
  <2>2. CommandTtl \in 0 .. CommandTtl
    BY SizeAssumption
  <2>3. nonzero = TRUE \/ nonzero = FALSE
    OBVIOUS
  <2>4. QED BY <2>1, <2>2, <2>3 DEF Next
<1>4. CASE CanService
  BY <1>4 DEF CanService, ServiceStep, Next
<1>5. CASE CanHardware \/ Time
  BY <1>5 DEF CanHardware, Time, Next
<1>6. CASE (\E input \in RemoteInputs : ReceiveRemote(input)) \/ Wake \/ DispatchRemote
             \/ EndCycle
  BY <1>6 DEF ReceiveRemote, Wake, DispatchRemote, EndCycle
<1>7. QED BY <1>1, <1>2, <1>3, <1>4, <1>5, <1>6 DEF CmdNext

(* What a call may do to a bus and to the outputs. *)
Faulted(b) == /\ bus'[b].phase = Abort
              /\ s_healthy_seen' = FALSE /\ s_outputs_armed' = FALSE

LEMMA FaultOnBus ==
    ASSUME bus \in BusTable, NEW b \in Buses, NEW boxes, LatchFault(b, boxes)
    PROVE  Faulted(b)
<1>1. bus'[b].phase = Abort
  BY DEF LatchFault, BusAfterFault, BusTable, BusState
<1>2. QED BY <1>1 DEF LatchFault, Faulted

LEMMA WriteOnBus ==
    ASSUME bus \in BusTable, NEW b \in Buses, NEW id, NEW nonzero, NEW left,
           Write(b, id, nonzero, left)
    PROVE  /\ UNCHANGED <<bus, outputVars>> \/ Faulted(b)
           /\ UNCHANGED <<service, controller, sinceService>>
<1>1. PICK failed \in IF bus[b].phase = Ready THEN AbortResults ELSE {{}} :
         LET watched == bus[b].phase = Ready
             tx      == IF watched THEN TxAfterDeadlines(b, failed) ELSE s_tx
             boxes   == IF watched THEN BoxesAfterDeadlines(b, failed) ELSE box
             fault   == watched /\ (Disobeying(b, failed) # {}
                                      \/ controller[b].esr = "off")
         IN
         IF fault THEN s_tx' = tx /\ LatchFault(b, boxes)
         ELSE IF Refused(b, nonzero, left)
         THEN s_tx' = tx /\ box' = boxes /\ UNCHANGED <<bus, outputVars>>
         ELSE IF InFlight(b, id) # {}
         THEN \E m \in InFlight(b, id) :
                /\ \A n \in InFlight(b, id) : m <= n
                /\ WriteBusy(b, m, nonzero, tx, boxes)
         ELSE WriteFree(b, id, nonzero, left, tx, boxes)
  BY DEF Write
<1> DEFINE watched == bus[b].phase = Ready
           tx == IF watched THEN TxAfterDeadlines(b, failed) ELSE s_tx
           boxes == IF watched THEN BoxesAfterDeadlines(b, failed) ELSE box
<1> HIDE DEF watched, tx, boxes
<1>2. \/ LatchFault(b, boxes)
      \/ UNCHANGED <<bus, outputVars>>
      \/ \E m : WriteBusy(b, m, nonzero, tx, boxes)
      \/ WriteFree(b, id, nonzero, left, tx, boxes)
  BY <1>1 DEF watched, tx, boxes
<1>3. \/ LatchFault(b, boxes)
      \/ UNCHANGED <<bus, outputVars>>
  BY <1>2 DEF WriteBusy, WriteFree
<1>4. QED BY <1>3, FaultOnBus DEF Write

LEMMA CheckOnBus ==
    ASSUME Inv, CheckBus
    PROVE  /\ service.at = "check" /\ service'.at = "advance"
           /\ service'.bus = service.bus /\ service.bus \in Buses
           /\ UNCHANGED <<bus, outputVars>> \/ Faulted(service.bus)
           /\ sinceService' = sinceService
<1>1. service \in Service /\ bus \in BusTable
  BY DEF Inv, TypeOK, BusTable
<1>2. /\ service.at = "check" /\ service'.at = "advance"
      /\ service'.bus = service.bus /\ service.bus \in Buses
      /\ sinceService' = sinceService
  BY <1>1 DEF CheckBus, Service
<1>3. \/ \E boxes : LatchFault(service.bus, boxes)
      \/ UNCHANGED <<bus, outputVars>>
  BY DEF CheckBus
<1>4. QED BY <1>1, <1>2, <1>3, FaultOnBus

LEMMA AdvanceOnBus ==
    ASSUME Inv, AdvanceBus
    PROVE  /\ service.at = "advance" /\ service.bus \in Buses
           /\ s_outputs_armed' = s_outputs_armed
           /\ \A b \in Buses : b # service.bus => bus'[b].phase = bus[b].phase
           /\ bus[service.bus].phase = Abort => bus'[service.bus].phase # Ready
           /\ \/ /\ service'.at = "check" /\ service'.bus = service.bus + 1
                 /\ UNCHANGED <<outputVars, sinceService>>
              \/ /\ service.bus = BusCount /\ service'.at = "idle" /\ sinceService' = 0
                 /\ s_healthy_seen' => s_healthy_seen \/ ~Failed
                 /\ s_healthy_seen /\ s_healthy_seen' => healthyAge' = healthyAge
<1> DEFINE b == service.bus
           healthy == IF bus[b].started THEN StaysHealthy(b) ELSE service.healthy
<1>1. /\ service \in Service /\ bus \in BusTable /\ b \in Buses
      /\ service.at = "advance" /\ s_outputs_armed' = s_outputs_armed
  BY DEF Inv, TypeOK, BusTable, Service, AdvanceBus
<1>2. OthersSame(b) /\ Advanced(b) /\ PhaseStays(b)
  BY <1>1, AdvanceBuses
<1>3. bus[b].phase = Abort => NextPhase(b) # Ready
  BY DEF NextPhase, Abort, EnterInit, LeaveInit, BusSync, RetryWait, Ready
<1>4. bus[b].phase = Abort => bus'[b].phase # Ready
  BY <1>2, <1>3 DEF Advanced, PhaseStays, Abort, Ready
<1>5. \A i \in Buses : i # b => bus'[i].phase = bus[i].phase
  BY <1>2 DEF OthersSame
<1>6. CASE b < BusCount
  <2>1. service'.at = "check" /\ service'.bus = b + 1
        /\ UNCHANGED <<outputVars, sinceService>>
    BY <1>1, <1>6 DEF AdvanceBus, Service, outputVars
  <2>2. QED BY <1>1, <1>4, <1>5, <2>1
<1>7. CASE ~(b < BusCount)
  <2>1. b = BusCount
    BY <1>1, <1>7, SizeAssumption DEF Buses
  <2>2. EndService(bus', healthy)
    BY <1>7 DEF AdvanceBus
  <2>3. /\ service'.at = "idle" /\ sinceService' = 0
        /\ s_healthy_seen' => healthy
        /\ s_healthy_seen /\ s_healthy_seen' => healthyAge' = healthyAge
    BY <2>2 DEF EndService, ServiceIdle
  <2>4. ASSUME healthy, Failed PROVE FALSE
    <3>1. service.healthy
      BY <2>4 DEF StaysHealthy
    <3>2. /\ \A i \in Buses : bus[i].started
          /\ \A i \in Buses : i < b => bus[i].phase = Ready
      BY <1>1, <3>1 DEF Inv, HealthSound
    <3>3. NextPhase(b) = Ready
      BY <1>1, <2>4, <3>2 DEF StaysHealthy
    <3>4. PICK i \in Buses : bus[i].phase = Abort \/ (i < b /\ bus[i].phase # Ready)
      BY <2>4 DEF Failed
    <3>5. i < b \/ i = b
      BY <2>1, <3>4, SizeAssumption DEF Buses
    <3>6. QED BY <1>3, <3>2, <3>3, <3>4, <3>5 DEF Abort, Ready
  <2> HIDE DEF healthy
  <2>5. QED BY <1>1, <1>4, <1>5, <2>1, <2>3, <2>4
<1>8. QED BY <1>6, <1>7

----------------------------------------------------------------------------
(* The steps of a cycle keep the invariant. *)

LEMMA CmdNumbers ==
    ASSUME CmdInv
    PROVE  /\ lag \in Nat /\ lag <= MaxLag /\ MaxLag \in Nat /\ MaxGap \in Nat
           /\ sinceService \in Nat /\ sinceService <= MaxGap
           /\ healthyAge \in Nat /\ healthyAge <= StableTime + MaxLag
           /\ calm \in Nat /\ calm <= NeutralTime /\ NeutralTime \in Nat
           /\ heard \in Nat /\ heard <= MaxHeard /\ MaxHeard \in Nat
           /\ neutral.age \in Nat /\ remote.age \in Nat /\ RemoteTimeout \in Nat
           /\ StableTime \in Nat /\ StableTime > 0
           /\ MaxRemoteAge = RemoteTimeout + 1 + MaxLag
           /\ MaxNeutralAge = NeutralTime + MaxLag
           /\ rc_slot.pending => rc_slot.age \in Nat
           /\ s_healthy_seen \in BOOLEAN /\ s_outputs_armed \in BOOLEAN
<1>1. /\ lag \in 0 .. MaxLag /\ sinceService \in 0 .. MaxGap
      /\ healthyAge \in 0 .. StableTime + MaxLag /\ calm \in 0 .. NeutralTime
      /\ heard \in 0 .. MaxHeard /\ s_healthy_seen \in BOOLEAN
      /\ s_outputs_armed \in BOOLEAN
  BY DEF CmdInv, CmdTypeOK, Inv, TypeOK
<1>2. /\ neutral.age \in 0 .. MaxNeutralAge /\ remote.age \in 0 .. MaxRemoteAge
      /\ rc_slot.pending => rc_slot.age \in 0 .. MaxWait
  <2>1. /\ neutral \in [seen : BOOLEAN, age : 0 .. MaxNeutralAge]
        /\ remote \in [input : RemoteInputs, updated : BOOLEAN, seen : BOOLEAN,
                       age : 0 .. MaxRemoteAge]
        /\ rc_slot = NoMessage \/
              rc_slot \in [pending : {TRUE}, input : RemoteInputs, age : 0 .. MaxWait]
    BY DEF CmdInv, CmdTypeOK
  <2>2. NoMessage.pending = FALSE
    BY DEF NoMessage
  <2>3. rc_slot.pending => rc_slot.age \in 0 .. MaxWait
    BY <2>1, <2>2
  <2>4. neutral.age \in 0 .. MaxNeutralAge /\ remote.age \in 0 .. MaxRemoteAge
    BY <2>1
  <2>5. QED BY <2>3, <2>4
<1>3. QED BY <1>1, <1>2, SizeAssumption, CmdAssumption
          DEF MaxNeutralAge, MaxRemoteAge, MaxWait

LEMMA ReceiveKeeps ==
    ASSUME CmdInv, NEW input \in RemoteInputs, ReceiveRemote(input)
    PROVE  Parts'
<1>1. /\ rc_slot' = [pending |-> TRUE, input |-> input, age |-> 0]
      /\ UNCHANGED <<vars, cycle, lag, remote, neutral, shooter_down_seen, s_output,
                     calm, heard>>
      /\ UNCHANGED <<bus, s_healthy_seen, healthyAge, service, sinceService>>
  BY DEF ReceiveRemote, loopVars, cmdVars, vars
<1>2. CmdTypeOK'
  <2>1. 0 \in 0 .. MaxWait
    BY SizeAssumption DEF MaxWait
  <2>2. rc_slot' \in [pending : {TRUE}, input : RemoteInputs, age : 0 .. MaxWait]
    BY <1>1, <2>1
  <2>3. QED BY <1>1, <2>2 DEF CmdInv, CmdTypeOK
<1>3. HealthKnown' /\ InCycle' /\ Served' = Served
  BY <1>1 DEF CmdInv, HealthKnown, InCycle, Served, Failed
<1>4. CalmKnown' /\ LockedWhenStopped'
  BY <1>1 DEF CmdInv, CalmKnown, LockedWhenStopped, Neutral
<1>5. HeardKnown'
  <2>1. WaitBound' = WaitBound /\ NewBound' = NewBound /\ UseBound' = UseBound
    BY <1>1 DEF WaitBound, NewBound, UseBound, Served
  <2>2. 0 <= WaitBound
    BY CmdNumbers DEF WaitBound
  <2>3. QED BY <1>1, <2>1, <2>2 DEF CmdInv, HeardKnown
<1>6. QED BY <1>2, <1>3, <1>4, <1>5 DEF Parts

LEMMA WakeKeeps ==
    ASSUME CmdInv, Wake
    PROVE  Parts'
<1>1. /\ cycle = "sleep" /\ cycle' = "early" /\ lag' = 0
      /\ UNCHANGED <<remote, neutral, shooter_down_seen, s_output, calm, heard, rc_slot>>
      /\ UNCHANGED <<bus, s_healthy_seen, healthyAge, service, sinceService>>
  BY DEF Wake, cmdVars, vars
<1>2. CmdTypeOK'
  <2>1. 0 \in 0 .. MaxLag
    BY SizeAssumption
  <2>2. QED BY <1>1, <2>1 DEF CmdInv, CmdTypeOK
<1>3. HealthKnown' /\ InCycle'
  BY <1>1, CmdNumbers DEF CmdInv, HealthKnown, InCycle, Served, Failed
<1>4. CalmKnown' /\ LockedWhenStopped'
  BY <1>1, CmdNumbers DEF CmdInv, CalmKnown, LockedWhenStopped, Neutral
<1>5. HeardKnown'
  BY <1>1 DEF CmdInv, HeardKnown, WaitBound, NewBound, UseBound, Served
<1>6. QED BY <1>2, <1>3, <1>4, <1>5 DEF Parts

LEMMA EndCycleKeeps ==
    ASSUME CmdInv, EndCycle
    PROVE  Parts'
<1>1. /\ cycle = "send" /\ cycle' = "sleep"
      /\ UNCHANGED <<remote, neutral, shooter_down_seen, s_output, calm, heard, rc_slot,
                     lag>>
      /\ UNCHANGED <<bus, s_healthy_seen, healthyAge, service, sinceService>>
  BY DEF EndCycle, cmdVars, vars
<1>2. CmdTypeOK'
  BY <1>1 DEF CmdInv, CmdTypeOK
<1>3. HealthKnown' /\ InCycle'
  BY <1>1 DEF CmdInv, HealthKnown, InCycle, Served, Failed
<1>4. CalmKnown' /\ LockedWhenStopped'
  BY <1>1 DEF CmdInv, CalmKnown, LockedWhenStopped, Neutral
<1>5. HeardKnown'
  BY <1>1 DEF CmdInv, HeardKnown, WaitBound, NewBound, UseBound, Served
<1>6. QED BY <1>2, <1>3, <1>4, <1>5 DEF Parts

LEMMA StillKeeps ==
    ASSUME CmdInv,
           UNCHANGED <<remote, neutral, shooter_down_seen, s_output, calm, heard, rc_slot,
                       lag, cycle>>,
           UNCHANGED <<bus, s_healthy_seen, healthyAge, service, sinceService>>
    PROVE  Parts'
<1>1. CmdTypeOK'
  BY DEF CmdInv, CmdTypeOK
<1>2. HealthKnown' /\ InCycle'
  BY DEF CmdInv, HealthKnown, InCycle, Served, Failed
<1>3. CalmKnown' /\ LockedWhenStopped'
  BY DEF CmdInv, CalmKnown, LockedWhenStopped, Neutral
<1>4. HeardKnown'
  BY DEF CmdInv, HeardKnown, WaitBound, NewBound, UseBound, Served
<1>5. QED BY <1>1, <1>2, <1>3, <1>4 DEF Parts

LEMMA HardwareKeeps ==
    ASSUME CmdInv, CanHardware
    PROVE  Parts'
BY StillKeeps DEF CanHardware, Hardware, Release, ErrorState, InitAcknowledge, outputVars,
                  cmdVars, loopVars

LEMMA SendKeeps ==
    ASSUME CmdInv, Send
    PROVE  Parts'
<1>1. PICK b \in Buses, id \in Ids, nonzero \in BOOLEAN : Write(b, id, nonzero, CommandTtl)
  BY DEF Send
<1>2. /\ cycle \in {"early", "send"}
      /\ UNCHANGED <<remote, neutral, shooter_down_seen, s_output, calm, heard, rc_slot,
                     lag, cycle>>
  BY DEF Send, cmdVars, loopVars
<1>3. /\ UNCHANGED <<bus, outputVars>> \/ Faulted(b)
      /\ UNCHANGED <<service, sinceService>>
  BY <1>1, WriteOnBus DEF CmdInv, Inv, TypeOK, BusTable
<1>4. CmdTypeOK'
  BY <1>2 DEF CmdInv, CmdTypeOK
<1>5. InCycle' /\ ~Served /\ ~Served'
  BY <1>2, <1>3 DEF CmdInv, InCycle, Served
<1>6. HealthKnown'
  <2>1. CASE UNCHANGED <<bus, outputVars>>
    BY <1>2, <1>3, <1>5, <2>1 DEF CmdInv, HealthKnown, Failed, outputVars
  <2>2. CASE Faulted(b)
    BY <1>5, <2>2 DEF HealthKnown, Failed, Faulted
  <2>3. QED BY <1>3, <2>1, <2>2
<1>7. CalmKnown' /\ LockedWhenStopped'
  BY <1>2 DEF CmdInv, CalmKnown, LockedWhenStopped, Neutral
<1>8. HeardKnown'
  BY <1>2, <1>3, <1>5 DEF CmdInv, HeardKnown, WaitBound, NewBound, UseBound
<1>9. QED BY <1>4, <1>5, <1>6, <1>7, <1>8 DEF Parts

LEMMA TimeKeeps ==
    ASSUME CmdInv, Time
    PROVE  Parts'
<1>1. /\ cycle' = cycle /\ cycle \in {"early", "dispatch", "send", "sleep"}
      /\ IF cycle = "early" THEN lag < MaxLag /\ lag' = lag + 1 ELSE lag' = lag
      /\ UNCHANGED <<s_healthy_seen, service, shooter_down_seen, s_output>>
      /\ service.at = "idle" /\ sinceService < MaxGap
      /\ sinceService' = sinceService + 1
      /\ healthyAge' = IF s_healthy_seen THEN Older(healthyAge, StableTime + MaxLag)
                                         ELSE healthyAge
      /\ calm' = Older(calm, NeutralTime) /\ heard' = Older(heard, MaxHeard)
  BY DEF Time, Tick
<1>2. \A b \in Buses : bus'[b].phase = bus[b].phase
  BY DEF Time, Tick, CmdInv, Inv, TypeOK, BusState
<1>3. /\ neutral \in [seen : BOOLEAN, age : 0 .. MaxNeutralAge]
      /\ remote \in [input : RemoteInputs, updated : BOOLEAN, seen : BOOLEAN,
                     age : 0 .. MaxRemoteAge]
      /\ rc_slot = NoMessage \/
            rc_slot \in [pending : {TRUE}, input : RemoteInputs, age : 0 .. MaxWait]
  BY DEF CmdInv, CmdTypeOK
<1>4. /\ remote'.input = remote.input /\ remote'.updated = remote.updated
      /\ remote'.seen = remote.seen
      /\ remote'.age = IF remote.seen THEN Older(remote.age, MaxRemoteAge)
                                      ELSE remote.age
      /\ remote' = [remote EXCEPT !.age = remote'.age]
  BY <1>3 DEF Time
<1>5. /\ neutral'.seen = neutral.seen
      /\ neutral'.age = IF neutral.seen THEN Older(neutral.age, MaxNeutralAge)
                                        ELSE neutral.age
      /\ neutral' = [neutral EXCEPT !.age = neutral'.age]
  BY <1>3 DEF Time
<1>6. /\ rc_slot'.pending = rc_slot.pending
      /\ rc_slot.pending => /\ rc_slot'.age = Older(rc_slot.age, MaxWait)
                            /\ rc_slot' = [rc_slot EXCEPT !.age = rc_slot'.age]
      /\ ~rc_slot.pending => rc_slot' = rc_slot
  BY <1>3 DEF Time, NoMessage
<1>7. /\ MaxNeutralAge \in Nat /\ MaxRemoteAge \in Nat /\ MaxWait \in Nat
      /\ NeutralTime \in Nat /\ MaxHeard \in Nat
  BY SizeAssumption, CmdAssumption DEF MaxNeutralAge, MaxRemoteAge, MaxWait
<1>8. CmdTypeOK'
  <2>1. lag' \in 0 .. MaxLag
    BY <1>1, CmdNumbers
  <2>2. neutral' \in [seen : BOOLEAN, age : 0 .. MaxNeutralAge]
    <3>1. neutral'.age \in 0 .. MaxNeutralAge
      BY <1>3, <1>5, <1>7, OlderType
    <3>2. QED BY <1>3, <1>5, <3>1
  <2>3. remote' \in [input : RemoteInputs, updated : BOOLEAN, seen : BOOLEAN,
                     age : 0 .. MaxRemoteAge]
    <3>1. remote'.age \in 0 .. MaxRemoteAge
      BY <1>3, <1>4, <1>7, OlderType
    <3>2. QED BY <1>3, <1>4, <3>1
  <2>4. rc_slot' = NoMessage \/
          rc_slot' \in [pending : {TRUE}, input : RemoteInputs, age : 0 .. MaxWait]
    <3>1. CASE rc_slot = NoMessage
      BY <1>6, <3>1 DEF NoMessage
    <3>2. CASE rc_slot \in [pending : {TRUE}, input : RemoteInputs, age : 0 .. MaxWait]
      <4>1. rc_slot'.age \in 0 .. MaxWait
        BY <1>6, <1>7, <3>2, OlderType
      <4>2. QED BY <1>6, <3>2, <4>1
    <3>3. QED BY <1>3, <3>1, <3>2
  <2>5. calm' \in 0 .. NeutralTime /\ heard' \in 0 .. MaxHeard
    BY <1>1, <1>7, OlderType DEF CmdInv, CmdTypeOK
  <2>6. QED BY <1>1, <2>1, <2>2, <2>3, <2>4, <2>5 DEF CmdInv, CmdTypeOK
<1>9. InCycle' /\ ~Served /\ ~Served'
  BY <1>1 DEF CmdInv, InCycle, Served
<1>10. HealthKnown'
  <2>1. Failed => Failed'
    BY <1>1, <1>2 DEF Failed
  <2>2. cycle = "early" /\ s_healthy_seen => healthyAge' >= lag'
    <3>1. cycle = "early" /\ s_healthy_seen => healthyAge >= lag
      BY <1>9 DEF CmdInv, HealthKnown
    <3>2. QED BY <1>1, <3>1, CmdNumbers DEF Older
  <2>3. neutral.seen /\ ~s_healthy_seen => Failed
    BY <1>9 DEF CmdInv, HealthKnown
  <2>4. QED BY <1>1, <1>5, <1>9, <2>1, <2>2, <2>3 DEF HealthKnown
<1>11. CalmKnown' /\ LockedWhenStopped'
  <2>1. cycle = "early" /\ Neutral(remote.input) => calm' >= lag' \/ calm' = NeutralTime
    <3>1. cycle = "early" /\ Neutral(remote.input) => calm >= lag \/ calm = NeutralTime
      BY DEF CmdInv, CalmKnown
    <3>2. QED BY <1>1, <3>1, CmdNumbers DEF Older
  <2>2. neutral.seen /\ Neutral(remote.input) =>
            calm' >= neutral'.age \/ calm' = NeutralTime
    <3>1. neutral.seen /\ Neutral(remote.input) =>
            calm >= neutral.age \/ calm = NeutralTime
      BY DEF CmdInv, CalmKnown
    <3>2. QED BY <1>1, <1>5, <3>1, CmdNumbers DEF Older
  <2>3. QED BY <1>1, <1>4, <1>5, <2>1, <2>2
            DEF CmdInv, CalmKnown, LockedWhenStopped, Neutral
<1>12. HeardKnown'
  <2>1. /\ WaitBound' = WaitBound + 1 /\ NewBound' = NewBound + 1
        /\ UseBound' = UseBound + 1
        /\ WaitBound \in Nat /\ NewBound \in Nat /\ UseBound \in Nat
    BY <1>1, <1>9, CmdNumbers DEF WaitBound, NewBound, UseBound
  <2>2. rc_slot.pending => rc_slot'.age <= WaitBound'
    <3>1. rc_slot.pending => rc_slot.age <= WaitBound
      BY DEF CmdInv, HeardKnown
    <3>2. QED BY <1>6, <2>1, <3>1, CmdNumbers DEF Older
  <2>3. heard' <= heard + 1 /\ heard' \in Nat
    BY <1>1, CmdNumbers DEF Older
  <2>4. remote.updated => cycle # "dispatch" /\ heard' <= NewBound'
    <3>1. remote.updated => cycle # "dispatch" /\ heard <= NewBound
      BY DEF CmdInv, HeardKnown
    <3>2. QED BY <2>1, <2>3, <3>1, CmdNumbers
  <2>5. remote.seen /\ ~remote.updated /\ remote'.age < MaxRemoteAge =>
            heard' <= remote'.age + 2 * MaxGap
    <3>1. remote.seen /\ ~remote.updated /\ remote.age < MaxRemoteAge =>
            heard <= remote.age + 2 * MaxGap
      BY DEF CmdInv, HeardKnown
    <3>2. remote.seen /\ remote'.age < MaxRemoteAge =>
             remote'.age = remote.age + 1 /\ remote.age < MaxRemoteAge
      BY <1>4, <1>7, CmdNumbers DEF Older
    <3>3. QED BY <2>3, <3>1, <3>2, CmdNumbers
  <2>6. s_output.enabled => heard' <= RemoteTimeout + MaxLag + UseBound'
    <3>1. s_output.enabled => heard <= RemoteTimeout + MaxLag + UseBound
      BY DEF CmdInv, HeardKnown
    <3>2. QED BY <2>1, <2>3, <3>1, CmdNumbers
  <2>7. QED BY <1>1, <1>4, <1>6, <2>2, <2>4, <2>5, <2>6 DEF HeardKnown
<1>13. QED BY <1>8, <1>9, <1>10, <1>11, <1>12 DEF Parts

LEMMA DispatchKeeps ==
    ASSUME CmdInv, DispatchRemote
    PROVE  Parts'
<1>1. /\ cycle = "dispatch" /\ cycle' = "send" /\ rc_slot' = NoMessage
      /\ UNCHANGED <<lag, neutral, shooter_down_seen, s_output>>
      /\ UNCHANGED <<bus, s_healthy_seen, healthyAge, service, sinceService>>
  BY DEF DispatchRemote, vars
<1>2. /\ remote \in [input : RemoteInputs, updated : BOOLEAN, seen : BOOLEAN,
                     age : 0 .. MaxRemoteAge]
      /\ rc_slot = NoMessage \/
            rc_slot \in [pending : {TRUE}, input : RemoteInputs, age : 0 .. MaxWait]
  BY DEF CmdInv, CmdTypeOK
<1>3. ~Served /\ ~Served' /\ service.at = "idle"
  BY <1>1 DEF Served, CmdInv, InCycle
<1>4. HealthKnown' /\ InCycle'
  BY <1>1, <1>3 DEF CmdInv, HealthKnown, InCycle, Failed
<1>5. LockedWhenStopped'
  BY <1>1 DEF CmdInv, LockedWhenStopped
<1>6. WaitBound = MaxGap + sinceService /\ NewBound' = MaxGap + sinceService
      /\ UseBound' = UseBound /\ UseBound = 2 * MaxGap + sinceService
  BY <1>1, <1>3 DEF WaitBound, NewBound, UseBound
<1>7. CASE ~rc_slot.pending
  <2>1. UNCHANGED <<remote, heard, calm>>
    BY <1>7 DEF DispatchRemote
  <2>2. CmdTypeOK'
    BY <1>1, <2>1 DEF CmdInv, CmdTypeOK
  <2>3. CalmKnown'
    BY <1>1, <2>1 DEF CmdInv, CalmKnown, Neutral
  <2>4. HeardKnown'
    BY <1>1, <1>6, <2>1 DEF CmdInv, HeardKnown, NoMessage
  <2>5. QED BY <1>4, <1>5, <2>2, <2>3, <2>4 DEF Parts
<1>8. CASE rc_slot.pending
  <2>1. /\ rc_slot.input \in RemoteInputs /\ rc_slot.age \in 0 .. MaxWait
        /\ rc_slot.age <= WaitBound
    <3>1. NoMessage.pending = FALSE
      BY DEF NoMessage
    <3>2. rc_slot \in [pending : {TRUE}, input : RemoteInputs, age : 0 .. MaxWait]
      BY <1>2, <1>8, <3>1
    <3>3. rc_slot.age <= WaitBound
      BY <1>8 DEF CmdInv, HeardKnown
    <3>4. QED BY <3>2, <3>3
  <2>2. /\ remote' = [remote EXCEPT !.input = rc_slot.input, !.updated = TRUE]
        /\ heard' = IF rc_slot.age < MaxHeard THEN rc_slot.age ELSE MaxHeard
        /\ calm' = IF Neutral(rc_slot.input) THEN calm ELSE 0
    BY <1>8 DEF DispatchRemote
  <2>3. /\ remote' \in [input : RemoteInputs, updated : BOOLEAN, seen : BOOLEAN,
                        age : 0 .. MaxRemoteAge]
        /\ remote'.input = rc_slot.input /\ remote'.updated = TRUE
    BY <1>2, <2>1, <2>2
  <2>4. heard' \in 0 .. MaxHeard /\ heard' <= rc_slot.age
    BY <2>1, <2>2, CmdNumbers, <1>8
  <2>5. calm' \in 0 .. NeutralTime
    BY <2>2, CmdNumbers
  <2>6. CmdTypeOK'
    BY <1>1, <2>3, <2>4, <2>5 DEF CmdInv, CmdTypeOK
  <2>7. CalmKnown'
    <3>1. neutral.seen /\ Neutral(remote'.input) =>
            calm' >= neutral.age \/ calm' = NeutralTime
      BY <1>1, <2>2, <2>3 DEF CmdInv, CalmKnown
    <3>2. QED BY <1>1, <3>1 DEF CalmKnown
  <2>8. HeardKnown'
    <3>1. heard' <= MaxGap + sinceService
      BY <1>6, <2>1, <2>4, CmdNumbers, <1>8
    <3>2. heard' <= RemoteTimeout + MaxLag + UseBound'
      BY <1>6, <2>4, <3>1, CmdNumbers
    <3>3. QED BY <1>1, <1>6, <2>3, <3>1, <3>2 DEF HeardKnown, NoMessage
  <2>9. QED BY <1>4, <1>5, <2>6, <2>7, <2>8 DEF Parts
<1>9. QED BY <1>7, <1>8

(* What the router does with the controller's memory, in a cycle that is   *)
(* served.                                                                 *)
LEMMA RouteKeeps ==
    ASSUME CmdInv, Route
    PROVE  Parts'
<1>1. /\ Served /\ cycle' = "dispatch" /\ cycle = "service" /\ lag' = 0
      /\ remote' = RemoteNow /\ ArmingInterlock /\ RouteCommands
      /\ UNCHANGED <<rc_slot, calm, heard>>
  BY DEF Route, Served
<1>2. UNCHANGED <<bus, s_healthy_seen, healthyAge, service, sinceService>>
  BY <1>1 DEF ArmingInterlock, TryArm, vars
<1>3. /\ remote \in [input : RemoteInputs, updated : BOOLEAN, seen : BOOLEAN,
                     age : 0 .. MaxRemoteAge]
      /\ neutral \in [seen : BOOLEAN, age : 0 .. MaxNeutralAge]
  BY DEF CmdInv, CmdTypeOK
<1>4. /\ remote'.input = remote.input /\ remote'.updated = FALSE
      /\ remote.updated => remote'.seen = TRUE /\ remote'.age = lag
      /\ ~remote.updated => remote' = remote
      /\ remote' \in [input : RemoteInputs, updated : BOOLEAN, seen : BOOLEAN,
                      age : 0 .. MaxRemoteAge]
  <2>1. lag \in 0 .. MaxRemoteAge
    BY CmdNumbers
  <2>2. CASE remote.updated
    <3>1. remote' = [remote EXCEPT !.updated = FALSE, !.seen = TRUE, !.age = lag]
      BY <1>1, <2>2 DEF RemoteNow
    <3>2. QED BY <1>3, <2>1, <2>2, <3>1
  <2>3. CASE ~remote.updated
    <3>1. remote' = remote
      BY <1>1, <2>3 DEF RemoteNow
    <3>2. QED BY <1>3, <2>3, <3>1
  <2>4. QED BY <2>2, <2>3
<1>5. \/ neutral' = [seen |-> FALSE, age |-> 0]
      \/ MayCountNeutral /\ neutral' = neutral
      \/ MayCountNeutral /\ neutral' = [seen |-> TRUE, age |-> lag]
  BY <1>1 DEF ArmingInterlock
<1>6. \/ shooter_down_seen' = FALSE /\ s_output' = NoCommand
      \/ RemoteOnline /\ RouteShooter
  BY <1>1 DEF RouteCommands, RoutedOnline
<1>7. CmdTypeOK'
  <2>1. neutral' \in [seen : BOOLEAN, age : 0 .. MaxNeutralAge]
    <3>1. 0 \in 0 .. MaxNeutralAge /\ lag \in 0 .. MaxNeutralAge
      BY CmdNumbers
    <3>2. /\ [seen |-> FALSE, age |-> 0] \in [seen : BOOLEAN, age : 0 .. MaxNeutralAge]
          /\ [seen |-> TRUE, age |-> lag] \in [seen : BOOLEAN, age : 0 .. MaxNeutralAge]
      BY <3>1
    <3>3. QED BY <1>3, <1>5, <3>2
  <2>2. /\ shooter_down_seen' \in BOOLEAN
        /\ s_output' \in [enabled : BOOLEAN, friction : BOOLEAN, feed : BOOLEAN]
    <3>1. CASE s_output' = NoCommand /\ shooter_down_seen' = FALSE
      BY <3>1 DEF NoCommand
    <3>2. CASE RouteShooter
      <4>1. (shooter_down_seen \/ remote.input.s0 = "down") \in BOOLEAN
        BY DEF CmdInv, CmdTypeOK
      <4>2. QED BY <3>2, <4>1 DEF RouteShooter
    <3>3. QED BY <1>6, <3>1, <3>2
  <2>3. 0 \in 0 .. MaxLag
    BY SizeAssumption
  <2>4. QED BY <1>1, <1>4, <2>1, <2>2, <2>3 DEF CmdInv, CmdTypeOK
<1>8. ~Served' /\ InCycle'
  BY <1>1, <1>2 DEF InCycle, Served
<1>9. HealthKnown'
  <2>1. MayCountNeutral => s_healthy_seen
    BY DEF MayCountNeutral, RecoveryReady
  <2>2. neutral'.seen => s_healthy_seen'
    BY <1>2, <1>5, <2>1
  <2>3. QED BY <1>1, <1>8, <2>2 DEF HealthKnown
<1>10. CalmKnown'
  <2>1. MayCountNeutral => Neutral(remote.input)
    BY DEF MayCountNeutral
  <2>2. neutral'.seen => Neutral(remote.input)
                          /\ (calm >= neutral'.age \/ calm = NeutralTime)
    <3>1. Neutral(remote.input) => calm >= lag \/ calm = NeutralTime
      BY <1>1 DEF CmdInv, CalmKnown
    <3>2. neutral.seen /\ Neutral(remote.input) =>
             calm >= neutral.age \/ calm = NeutralTime
      BY DEF CmdInv, CalmKnown
    <3>3. QED BY <1>5, <2>1, <3>1, <3>2
  <2>3. QED BY <1>1, <1>4, <2>2 DEF CalmKnown, Neutral
<1>11. LockedWhenStopped'
  BY <1>6 DEF LockedWhenStopped, RouteShooter
<1>12. HeardKnown'
  <2>1. /\ sinceService = 0 /\ WaitBound' = WaitBound /\ NewBound = 2 * MaxGap
        /\ UseBound' = 2 * MaxGap
    BY <1>1, <1>2, <1>8, CmdNumbers
    DEF CmdInv, InCycle, WaitBound, NewBound, UseBound
  <2>2. remote'.seen /\ remote'.age < MaxRemoteAge => heard <= remote'.age + 2 * MaxGap
    <3>1. remote.updated => heard <= 2 * MaxGap
      BY <2>1 DEF CmdInv, HeardKnown
    <3>2. remote.seen /\ ~remote.updated /\ remote.age < MaxRemoteAge =>
             heard <= remote.age + 2 * MaxGap
      BY DEF CmdInv, HeardKnown
    <3>3. CASE remote.updated
      BY <1>4, <3>1, <3>3, CmdNumbers
    <3>4. CASE ~remote.updated
      BY <1>4, <3>2, <3>4
    <3>5. QED BY <3>3, <3>4
  <2>3. s_output'.enabled => heard <= RemoteTimeout + MaxLag + UseBound'
    <3>1. SUFFICES ASSUME s_output'.enabled
                   PROVE  heard <= RemoteTimeout + MaxLag + 2 * MaxGap
      BY <2>1
    <3>2. RemoteOnline
      BY <1>6, <3>1 DEF NoCommand
    <3>3. remote'.seen /\ remote'.age - lag <= RemoteTimeout
      BY <1>1, <3>2 DEF RemoteOnline
    <3>4. remote'.age \in Nat
      BY <1>4
    <3>5. QED BY <2>2, <3>3, <3>4, CmdNumbers
  <2>4. QED BY <1>1, <1>4, <2>1, <2>2, <2>3 DEF CmdInv, HeardKnown
<1>13. QED BY <1>7, <1>8, <1>9, <1>10, <1>11, <1>12 DEF Parts

LEMMA ServiceKeeps ==
    ASSUME CmdInv, CanService
    PROVE  Parts'
<1>1. /\ cycle' = "service" /\ cycle \in {"early", "service"} /\ ~Served
      /\ UNCHANGED <<lag, rc_slot, remote, neutral, shooter_down_seen, s_output, calm,
                     heard>>
  BY DEF CanService, cmdVars, Served, CheckBus, AdvanceBus
<1>2. CmdTypeOK' /\ LockedWhenStopped' /\ CalmKnown'
  BY <1>1 DEF CmdInv, CmdTypeOK, LockedWhenStopped, CalmKnown, Neutral
<1>3. /\ s_healthy_seen => healthyAge >= lag
      /\ neutral.seen /\ ~s_healthy_seen => Failed
  BY <1>1 DEF CmdInv, HealthKnown
<1>4. /\ WaitBound = sinceService /\ NewBound = MaxGap + sinceService
      /\ UseBound = 2 * MaxGap + sinceService
  BY <1>1 DEF WaitBound, NewBound, UseBound
<1>5. CASE service'.at # "idle" /\ sinceService' = sinceService
  <2>1. ~Served' /\ InCycle'
    BY <1>1, <1>5 DEF Served, InCycle
  <2>2. HeardKnown'
    BY <1>1, <1>4, <1>5, <2>1
    DEF CmdInv, HeardKnown, WaitBound, NewBound, UseBound
  <2>3. ASSUME UNCHANGED <<s_healthy_seen, healthyAge>>, Failed => Failed'
        PROVE  HealthKnown'
    BY <1>1, <1>3, <2>1, <2>3 DEF HealthKnown
  <2>4. ASSUME NEW b \in Buses, Faulted(b)
        PROVE  HealthKnown'
    BY <2>1, <2>4 DEF HealthKnown, Failed, Faulted
  <2>5. HealthKnown'
    <3>1. CASE BeginService
      BY <2>3, <3>1 DEF BeginService, outputVars, Failed
    <3>2. CASE CheckBus
      BY <2>3, <2>4, <3>2, CheckOnBus DEF CmdInv, Failed, outputVars
    <3>3. CASE AdvanceBus
      <4>1. /\ \A b \in Buses : b # service.bus => bus'[b].phase = bus[b].phase
            /\ bus[service.bus].phase = Abort => bus'[service.bus].phase # Ready
            /\ service'.at = "check" /\ service'.bus = service.bus + 1
            /\ UNCHANGED outputVars /\ service.bus \in Buses
        BY <1>5, <3>3, AdvanceOnBus DEF CmdInv
      <4>2. ASSUME Failed PROVE Failed'
        <5>1. PICK b \in Buses : \/ bus[b].phase = Abort
                                 \/ b < service.bus /\ bus[b].phase # Ready
          BY <4>2 DEF Failed
        <5>2. service.bus \in Nat /\ b \in Nat
          BY <4>1, SizeAssumption DEF Buses
        <5>3. CASE b = service.bus
          BY <4>1, <5>1, <5>2, <5>3 DEF Failed
        <5>4. CASE b # service.bus
          BY <4>1, <5>1, <5>2, <5>4 DEF Failed
        <5>5. QED BY <5>3, <5>4
      <4>3. QED BY <2>3, <4>1, <4>2 DEF outputVars
    <3>4. QED BY <3>1, <3>2, <3>3 DEF CanService
  <2>6. QED BY <1>2, <2>1, <2>2, <2>5 DEF Parts
<1>6. CASE /\ service'.at = "idle" /\ sinceService' = 0
           /\ s_healthy_seen' => s_healthy_seen \/ ~Failed
           /\ s_healthy_seen /\ s_healthy_seen' => healthyAge' = healthyAge
  <2>1. Served' /\ InCycle'
    BY <1>1, <1>6 DEF Served, InCycle
  <2>2. HealthKnown'
    <3>1. neutral.seen /\ s_healthy_seen' => healthyAge' >= lag
      BY <1>3, <1>6
    <3>2. QED BY <1>1, <2>1, <3>1 DEF HealthKnown
  <2>3. HeardKnown'
    <3>1. WaitBound' = MaxGap /\ NewBound' = 2 * MaxGap /\ UseBound' = 3 * MaxGap
      BY <1>6, <2>1, CmdNumbers DEF WaitBound, NewBound, UseBound
    <3>2. rc_slot.pending => rc_slot.age <= MaxGap
      BY <1>4, CmdNumbers DEF CmdInv, HeardKnown
    <3>3. remote.updated => heard <= 2 * MaxGap
      BY <1>4, CmdNumbers DEF CmdInv, HeardKnown
    <3>4. s_output.enabled => heard <= RemoteTimeout + MaxLag + 3 * MaxGap
      BY <1>4, CmdNumbers DEF CmdInv, HeardKnown
    <3>5. QED BY <1>1, <3>1, <3>2, <3>3, <3>4 DEF CmdInv, HeardKnown
  <2>4. QED BY <1>2, <2>1, <2>2, <2>3 DEF Parts
<1>7. \/ service'.at # "idle" /\ sinceService' = sinceService
      \/ /\ service'.at = "idle" /\ sinceService' = 0
         /\ s_healthy_seen' => s_healthy_seen \/ ~Failed
         /\ s_healthy_seen /\ s_healthy_seen' => healthyAge' = healthyAge
  <2>1. CASE BeginService
    BY <2>1 DEF BeginService
  <2>2. CASE CheckBus
    BY <2>2, CheckOnBus DEF CmdInv
  <2>3. CASE AdvanceBus
    BY <2>3, AdvanceOnBus DEF CmdInv
  <2>4. QED BY <2>1, <2>2, <2>3 DEF CanService
<1>8. QED BY <1>5, <1>6, <1>7

LEMMA CmdInitInv ==
    ASSUME CmdInit
    PROVE  CmdInv
<1>1. Inv
  BY InitInv DEF CmdInit
<1>2. /\ cycle = "sleep" /\ lag = 0 /\ rc_slot = NoMessage
      /\ neutral = [seen |-> FALSE, age |-> 0] /\ shooter_down_seen = FALSE
      /\ s_output = NoCommand /\ calm = 0 /\ heard = MaxHeard
      /\ service.at = "idle"
  BY DEF CmdInit, Init, ServiceIdle
<1>3. PICK input \in RemoteInputs : /\ ~Neutral(input)
        /\ remote = [input |-> input, updated |-> FALSE, seen |-> FALSE, age |-> 0]
  BY DEF CmdInit
<1>4. CmdTypeOK
  <2>1. /\ 0 \in 0 .. MaxLag /\ 0 \in 0 .. MaxRemoteAge /\ 0 \in 0 .. MaxNeutralAge
        /\ 0 \in 0 .. NeutralTime /\ MaxHeard \in 0 .. MaxHeard
    BY SizeAssumption, CmdAssumption DEF MaxRemoteAge, MaxNeutralAge
  <2>2. s_output \in [enabled : BOOLEAN, friction : BOOLEAN, feed : BOOLEAN]
    BY <1>2 DEF NoCommand
  <2>3. QED BY <1>2, <1>3, <2>1, <2>2 DEF CmdTypeOK
<1>5. InCycle /\ HealthKnown /\ LockedWhenStopped
  BY <1>2 DEF InCycle, HealthKnown, LockedWhenStopped, Served
<1>6. CalmKnown
  BY <1>2, <1>3 DEF CalmKnown
<1>7. HeardKnown
  BY <1>2, <1>3 DEF HeardKnown, NoMessage, NoCommand
<1>8. QED BY <1>1, <1>4, <1>5, <1>6, <1>7 DEF CmdInv

LEMMA CmdStep ==
    ASSUME CmdInv, [CmdNext]_allVars
    PROVE  CmdInv'
<1>1. Inv'
  <2>1. lag \in 0 .. MaxLag /\ Inv
    BY DEF CmdInv, CmdTypeOK
  <2>2. QED BY <2>1, TaskSteps, InvStep
<1>2. CASE UNCHANGED allVars
  BY <1>1, <1>2, StillKeeps DEF allVars, vars, outputVars, loopVars, cmdVars, Parts, CmdInv
<1>3. CASE CmdNext
  <2>1. Parts'
    BY <1>3, ReceiveKeeps, WakeKeeps, ServiceKeeps, RouteKeeps, DispatchKeeps, SendKeeps,
       EndCycleKeeps, HardwareKeeps, TimeKeeps DEF CmdNext
  <2>2. QED BY <1>1, <2>1 DEF Parts, CmdInv
<1>4. QED BY <1>2, <1>3

----------------------------------------------------------------------------
(* The theorems *)

LEMMA CmdHolds == CmdSpec => []CmdInv
<1>1. CmdInit => CmdInv
  BY CmdInitInv
<1>2. CmdInv /\ [CmdNext]_allVars => CmdInv'
  BY CmdStep
<1>3. QED BY <1>1, <1>2, PTL DEF CmdSpec

(* The state of the command controller keeps its type: no time it measures *)
(* leaves its range, however the cycles and the messages fall.             *)
THEOREM CmdTypeCorrect == CmdSpec => []CmdTypeOK
<1>1. CmdInv => CmdTypeOK
  BY DEF CmdInv
<1>2. QED BY <1>1, CmdHolds, PTL

(* The control task, with optional modules, controllers and the arming     *)
(* interlock at work, drives the CAN driver as BspCan says: every theorem  *)
(* of BspCanProofs holds under the command controller.                     *)
THEOREM TaskUsesDriver == CmdSpec => Spec
<1>1. CmdInit => Init
  BY DEF CmdInit
<1>2. CmdInv /\ [CmdNext]_allVars => [Next]_vars
  BY TaskSteps DEF CmdInv, CmdTypeOK
<1>3. QED BY <1>1, <1>2, CmdHolds, PTL DEF CmdSpec, Spec

(* Outputs are armed only after every bus was healthy, every message was   *)
(* neutral and the receiver was online for the times the code asks for,    *)
(* although its clock of the cycle is older than that of the service.      *)
THEOREM ArmOnlyStableHolds == CmdSpec => ArmOnlyStable
<1> DEFINE Armed == ~s_outputs_armed /\ s_outputs_armed' =>
                       /\ s_healthy_seen /\ healthyAge >= StableTime
                       /\ calm >= NeutralTime
                       /\ RemoteOnline
<1>1. CmdInv /\ [CmdNext]_allVars => [Armed]_allVars
  <2> SUFFICES ASSUME CmdInv, CmdNext, ~s_outputs_armed, s_outputs_armed'
               PROVE  /\ s_healthy_seen /\ healthyAge >= StableTime
                      /\ calm >= NeutralTime
                      /\ RemoteOnline
    OBVIOUS
  <2>1. Route
    <3>1. CASE CanService
      <4>1. s_outputs_armed' = s_outputs_armed \/ s_outputs_armed' = FALSE
        BY <3>1, CheckOnBus, AdvanceOnBus
        DEF CanService, BeginService, CmdInv, Faulted, outputVars
      <4>2. QED BY <4>1
    <3>2. CASE Send
      <4>1. PICK b \in Buses, id \in Ids, nonzero \in BOOLEAN :
                   Write(b, id, nonzero, CommandTtl)
        BY <3>2 DEF Send
      <4>2. bus \in BusTable
        BY DEF CmdInv, Inv, TypeOK, BusTable
      <4>3. s_outputs_armed' = s_outputs_armed \/ s_outputs_armed' = FALSE
        BY <4>1, <4>2, WriteOnBus DEF Faulted, outputVars
      <4>4. QED BY <4>3
    <3>3. CASE CanHardware
      BY <3>3 DEF CanHardware, Hardware, Release, ErrorState, InitAcknowledge, outputVars
    <3>4. CASE Time
      BY <3>4 DEF Time, Tick
    <3>5. CASE (\E input \in RemoteInputs : ReceiveRemote(input)) \/ Wake \/ DispatchRemote
                 \/ EndCycle
      BY <3>5 DEF ReceiveRemote, Wake, DispatchRemote, EndCycle, vars
    <3>6. QED BY <3>1, <3>2, <3>3, <3>4, <3>5 DEF CmdNext
  <2>2. Served /\ MayCountNeutral /\ NeutralLongEnough /\ MayArm(lag)
    BY <2>1 DEF Route, Served, ArmingInterlock, TryArm, vars
  <2>3. s_healthy_seen /\ (healthyAge < lag \/ healthyAge - lag >= StableTime)
    BY <2>2 DEF MayArm, RecoveryReady
  <2>4. neutral.seen /\ neutral.age - lag >= NeutralTime /\ Neutral(remote.input)
        /\ RemoteOnline
    BY <2>2 DEF NeutralLongEnough, MayCountNeutral
  <2>5. healthyAge >= lag
    BY <2>2, <2>3, <2>4 DEF CmdInv, HealthKnown
  <2>6. calm >= neutral.age \/ calm = NeutralTime
    BY <2>4 DEF CmdInv, CalmKnown
  <2>7. QED BY <2>3, <2>4, <2>5, <2>6, CmdNumbers
<1>2. QED BY <1>1, CmdHolds, PTL DEF CmdSpec, ArmOnlyStable

(* After every stop the shooter starts only in a later cycle than the      *)
(* first that commands the robot, whatever its switch shows in that one.   *)
THEOREM ShooterStartsDownHolds == CmdSpec => ShooterStartsDown
<1> DEFINE Starts == ~s_output.enabled /\ s_output'.enabled =>
                        ~s_output'.friction /\ ~s_output'.feed
<1>1. CmdInv /\ [CmdNext]_allVars => [Starts]_allVars
  <2> SUFFICES ASSUME CmdInv, CmdNext, ~s_output.enabled, s_output'.enabled
               PROVE  ~s_output'.friction /\ ~s_output'.feed
    OBVIOUS
  <2>1. Route
    BY DEF CmdNext, ReceiveRemote, Wake, CanService, DispatchRemote, Send, EndCycle,
           CanHardware, Time, cmdVars
  <2>2. RouteShooter
    BY <2>1 DEF Route, RouteCommands, NoCommand
  <2>3. shooter_down_seen = FALSE
    BY DEF CmdInv, LockedWhenStopped, CmdTypeOK
  <2>4. QED BY <2>2, <2>3 DEF RouteShooter
<1>2. QED BY <1>1, CmdHolds, PTL DEF CmdSpec, ShooterStartsDown

(* An enabled command set rests on a message that is not older than the    *)
(* timeout, two service periods in which it waited, the cycle and the next *)
(* period: whatever delayed the cycles, a silent receiver stops the robot. *)
THEOREM StopsWithoutRemoteHolds == CmdSpec => []StopsWithoutRemote
<1>1. CmdInv => StopsWithoutRemote
  <2> SUFFICES ASSUME CmdInv, s_output.enabled
               PROVE  heard <= RemoteTimeout + 3 * MaxGap + MaxLag
    BY DEF StopsWithoutRemote
  <2>1. heard <= RemoteTimeout + MaxLag + UseBound
    BY DEF CmdInv, HeardKnown
  <2>2. QED BY <2>1, CmdNumbers DEF UseBound
<1>2. QED BY <1>1, CmdHolds, PTL
==============================================================================
