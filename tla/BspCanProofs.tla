---------------------------- MODULE BspCanProofs ----------------------------
(***************************************************************************)
(* Proofs about BspCan, for every number of buses, mailboxes and           *)
(* identifiers, every timing constant, and aborts that may be refused.     *)
(***************************************************************************)
EXTENDS BspCan, TLAPS

BusTable == [Buses -> BusState]
TxTable == [Buses -> [Mailboxes -> Entry \cup {NoEntry}]]
BoxTable == [Buses -> [Mailboxes -> Frame \cup {Empty}]]

(* A mailbox holds a frame only on a bus that was started. *)
FramesStarted ==
    \A b \in Buses, m \in Mailboxes : box[b][m].pending => bus[b].started

(* While BspCan_Service still finds the buses healthy, all of them run and *)
(* those it has looked at are ready.                                       *)
HealthSound ==
    service.at # "idle" /\ service.healthy =>
        /\ \A b \in Buses : bus[b].started
        /\ \A b \in Buses : b < service.bus => bus[b].phase = Ready

(* A frame of before a fault keeps its bus waiting for the aborts. *)
OldWaits ==
    \A b \in Buses, m \in Mailboxes :
        box[b][m].pending => (box[b][m].old => bus[b].abort_pending)

Inv == TypeOK /\ FramesStarted /\ HealthSound /\ OldWaits /\ OnlineWhenArmed

----------------------------------------------------------------------------
(* What the helpers return *)

LEMMA TimesType ==
    /\ MaxOverdue \in Nat
    /\ 0 .. CommandTtl \subseteq TimeLeft
    /\ 0 \in 0 .. AbortTimeout /\ 0 \in 0 .. RetryTime
    /\ 0 \in 0 .. StableTime + MaxLag /\ 0 \in 0 .. MaxGap
BY SizeAssumption DEF MaxOverdue, TimeLeft

LEMMA OlderType ==
    ASSUME NEW bound \in Nat, NEW age \in 0 .. bound
    PROVE  Older(age, bound) \in 0 .. bound
BY DEF Older

LEMMA AbortedType ==
    ASSUME NEW f \in Frame \cup {Empty}
    PROVE  /\ Aborted(f) \in Frame \cup {Empty}
           /\ Aborted(f).pending = f.pending
           /\ f.pending => Aborted(f).old = f.old
BY DEF Aborted, Frame, Empty

LEMMA AbortEntryType ==
    ASSUME NEW e \in Entry
    PROVE  AbortEntry(e) \in Entry
BY TimesType DEF AbortEntry, Entry

LEMMA NewEntryType ==
    ASSUME NEW id \in Ids, NEW nonzero \in BOOLEAN, NEW left \in TimeLeft
    PROVE  NewEntry(id, nonzero, left) \in Entry
BY TimesType DEF NewEntry, Entry

LEMMA NewFrameType ==
    ASSUME NEW id \in Ids, NEW nonzero \in BOOLEAN
    PROVE  /\ NewFrame(id, nonzero) \in Frame
           /\ ~NewFrame(id, nonzero).old
BY DEF NewFrame, Frame

(* The mailboxes hold the same frames in a call that releases and fills    *)
(* none, and those of before a fault are the same.                         *)
SameFrames(boxes) ==
    \A i \in Buses, m \in Mailboxes :
        boxes[i][m].pending <=> box[i][m].pending
SameOld(boxes) ==
    \A i \in Buses, m \in Mailboxes :
        box[i][m].pending => (boxes[i][m].old <=> box[i][m].old)

(* What a fault leaves: no output is armed, the faulty bus recovers, every *)
(* bus that runs waits for its mailboxes, and none of them is released.    *)
SameStarted == \A i \in Buses : bus'[i].started <=> bus[i].started
StartedWait == \A i \in Buses : bus[i].started => bus'[i].abort_pending
SamePhaseBut(b) == \A i \in Buses : i # b => bus'[i].phase = bus[i].phase

LEMMA FaultBuses ==
    ASSUME bus \in BusTable, NEW b \in Buses, NEW boxes, LatchFault(b, boxes)
    PROVE  bus' \in BusTable /\ SameStarted /\ StartedWait /\ SamePhaseBut(b)
<1>1. bus' = BusAfterFault(b)
  BY DEF LatchFault
<1>2. \A i \in Buses : bus[i] \in BusState
  BY DEF BusTable
<1>3. ASSUME NEW i \in Buses
      PROVE  bus'[i] \in BusState
  <2> DEFINE waiting == [bus[i] EXCEPT !.abort_pending = @ \/ bus[i].started]
  <2>1. bus'[i] = IF i = b THEN [waiting EXCEPT !.phase = Abort, !.age = 0]
                  ELSE waiting
    BY <1>1 DEF BusAfterFault
  <2>2. (bus[i].abort_pending \/ bus[i].started) \in BOOLEAN
    BY Zenon
  <2>3. waiting \in BusState
    BY <1>2, <2>2 DEF BusState
  <2>4. Abort \in 0 .. 5
    BY DEF Abort
  <2> HIDE DEF waiting
  <2>5. [waiting EXCEPT !.phase = Abort, !.age = 0] \in BusState
    BY <2>3, <2>4, TimesType DEF BusState
  <2>6. QED BY <2>1, <2>3, <2>5
<1>4. bus' \in BusTable
  BY <1>1, <1>3 DEF BusAfterFault, BusTable
<1>5. SameStarted /\ StartedWait /\ SamePhaseBut(b)
  BY <1>1, <1>2
  DEF BusAfterFault, BusState, SameStarted, StartedWait, SamePhaseBut
<1>6. QED BY <1>4, <1>5

LEMMA FaultBoxes ==
    ASSUME NEW b \in Buses, NEW boxes \in BoxTable, LatchFault(b, boxes)
    PROVE  /\ box' \in BoxTable
           /\ \A i \in Buses, m \in Mailboxes :
                 box'[i][m].pending <=> boxes[i][m].pending
<1>1. PICK failed \in SUBSET Buses : box' = BoxesAfterFault(boxes, failed)
  BY DEF LatchFault
<1>2. ASSUME NEW i \in Buses, NEW m \in Mailboxes
      PROVE  box'[i][m] \in Frame \cup {Empty}
             /\ (box'[i][m].pending <=> boxes[i][m].pending)
  <2> DEFINE f == boxes[i][m]
             kept == IF f.pending THEN [f EXCEPT !.old = TRUE] ELSE f
  <2>1. f \in Frame \cup {Empty}
    BY DEF BoxTable
  <2>2. kept \in Frame \cup {Empty} /\ kept.pending = f.pending
    BY <2>1 DEF Frame, Empty
  <2>3. Aborted(kept) \in Frame \cup {Empty} /\ Aborted(kept).pending = f.pending
    BY <2>2, AbortedType
  <2>4. box'[i][m] = IF bus[i].started /\ i \notin failed THEN Aborted(kept) ELSE kept
    BY <1>1 DEF BoxesAfterFault
  <2>5. QED BY <2>2, <2>3, <2>4
<1>3. box' \in BoxTable
  BY <1>1, <1>2 DEF BoxesAfterFault, BoxTable
<1>4. \A i \in Buses, m \in Mailboxes :
        box'[i][m].pending <=> boxes[i][m].pending
  BY <1>2
<1>5. QED BY <1>3, <1>4, Zenon

LEMMA FaultOutputs ==
    ASSUME NEW b, NEW boxes, LatchFault(b, boxes)
    PROVE  /\ ~s_outputs_armed' /\ s_outputs_armed' \in BOOLEAN
           /\ ~s_healthy_seen' /\ s_healthy_seen' \in BOOLEAN
           /\ healthyAge' \in 0 .. StableTime + MaxLag
<1>1. s_outputs_armed' = FALSE /\ s_healthy_seen' = FALSE /\ healthyAge' = 0
  BY DEF LatchFault
<1>2. QED BY <1>1, TimesType, Zenon

(* Watching the deadlines releases no mailbox and makes no frame old.      *)
LEMMA DeadlineEffect ==
    ASSUME s_tx \in TxTable, box \in BoxTable, NEW b \in Buses, NEW failed
    PROVE  /\ TxAfterDeadlines(b, failed) \in TxTable
           /\ BoxesAfterDeadlines(b, failed) \in BoxTable
           /\ SameFrames(BoxesAfterDeadlines(b, failed))
           /\ SameOld(BoxesAfterDeadlines(b, failed))
<1>1. ASSUME NEW m \in Mailboxes
      PROVE  TxAfterDeadlines(b, failed)[b][m] \in Entry \cup {NoEntry}
  <2>1. s_tx[b][m] \in Entry \cup {NoEntry}
    BY DEF TxTable
  <2>2. m \in Expired(b) => s_tx[b][m] \in Entry
    BY <2>1 DEF Expired, NoEntry
  <2>3. m \in Expired(b) => AbortEntry(s_tx[b][m]) \in Entry
    BY <2>2, AbortEntryType
  <2>4. TxAfterDeadlines(b, failed)[b][m] =
          IF m \notin Visited(b, failed) THEN s_tx[b][m]
          ELSE IF ~box[b][m].pending THEN NoEntry
          ELSE IF m \in Expired(b) THEN AbortEntry(s_tx[b][m]) ELSE s_tx[b][m]
    BY DEF TxAfterDeadlines, TxTable
  <2>5. QED BY <2>1, <2>3, <2>4
<1>2. TxAfterDeadlines(b, failed) \in TxTable
  BY <1>1 DEF TxAfterDeadlines, TxTable
<1>3. ASSUME NEW m \in Mailboxes
      PROVE  LET f == BoxesAfterDeadlines(b, failed)[b][m] IN
             /\ f \in Frame \cup {Empty}
             /\ f.pending <=> box[b][m].pending
             /\ box[b][m].pending => (f.old <=> box[b][m].old)
  <2>1. box[b][m] \in Frame \cup {Empty}
    BY DEF BoxTable
  <2>2. BoxesAfterDeadlines(b, failed)[b][m] =
          IF m \in Visited(b, failed) \cap Expired(b)
          THEN Aborted(box[b][m]) ELSE box[b][m]
    BY DEF BoxesAfterDeadlines, BoxTable
  <2>3. QED BY <2>1, <2>2, AbortedType
<1>4. BoxesAfterDeadlines(b, failed) \in BoxTable
  BY <1>3 DEF BoxesAfterDeadlines, BoxTable
<1>5. \A i \in Buses : i # b => BoxesAfterDeadlines(b, failed)[i] = box[i]
  BY DEF BoxesAfterDeadlines, BoxTable
<1>6. SameFrames(BoxesAfterDeadlines(b, failed))
  BY <1>3, <1>5 DEF SameFrames
<1>7. SameOld(BoxesAfterDeadlines(b, failed))
  BY <1>3, <1>5 DEF SameOld
<1>8. QED BY <1>2, <1>4, <1>6, <1>7

----------------------------------------------------------------------------
(* The operations *)

LEMMA InitInv ==
    ASSUME Init
    PROVE  Inv
<1>1. bus \in BusTable /\ s_tx \in TxTable /\ box \in BoxTable
  BY TimesType DEF Init, BusTable, TxTable, BoxTable, BusState, NoEntry, Empty, Ready
<1>2. 1 \in Buses
  BY SizeAssumption DEF Buses
<1>3. service \in Service /\ controller \in [Buses -> Controller]
  BY <1>2 DEF Init, Service, ServiceIdle, Controller
<1>4. TypeOK
  BY <1>1, <1>3, TimesType DEF Init, TypeOK, BusTable, TxTable, BoxTable
<1>5. \A b \in Buses, m \in Mailboxes : ~box[b][m].pending
  BY DEF Init, Empty
<1>6. QED
  BY <1>4, <1>5
  DEF Init, Inv, FramesStarted, HealthSound, OldWaits, OnlineWhenArmed, ServiceIdle

LEMMA BeginServiceInv ==
    ASSUME Inv, BeginService
    PROVE  Inv'
<1>1. 1 \in Buses /\ \A b \in Buses : ~(b < 1)
  BY SizeAssumption DEF Buses
<1>2. service' \in Service
  BY <1>1 DEF BeginService, Service
<1>3. HealthSound'
  <2>1. /\ service'.healthy = (\A b \in Buses : bus[b].started)
        /\ service'.bus = 1 /\ bus' = bus
    BY DEF BeginService
  <2>2. QED BY <1>1, <2>1 DEF HealthSound
<1>4. QED
  BY <1>2, <1>3
  DEF BeginService, Inv, TypeOK, FramesStarted, OldWaits, OnlineWhenArmed,
      outputVars, hardware

(* A call that latched a fault keeps everything that was said of frames.   *)
LEMMA FaultInv ==
    ASSUME Inv, NEW b \in Buses, NEW boxes \in BoxTable, LatchFault(b, boxes),
           SameFrames(boxes)
    PROVE  /\ FramesStarted' /\ OldWaits' /\ OnlineWhenArmed'
           /\ bus' \in BusTable /\ box' \in BoxTable
<1>1. bus \in BusTable
  BY DEF Inv, TypeOK, BusTable
<1>2. ASSUME NEW i \in Buses, NEW m \in Mailboxes, box'[i][m].pending
      PROVE  bus'[i].started /\ bus'[i].abort_pending
  <2>1. box[i][m].pending
    BY <1>2, FaultBoxes, Zenon DEF SameFrames
  <2>2. bus[i].started
    BY <2>1 DEF Inv, FramesStarted
  <2>3. QED BY <1>1, <2>2, FaultBuses, Zenon DEF SameStarted, StartedWait
<1>3. FramesStarted' /\ OldWaits'
  BY <1>2, Zenon DEF FramesStarted, OldWaits
<1>4. OnlineWhenArmed'
  BY FaultOutputs DEF OnlineWhenArmed
<1>5. bus' \in BusTable /\ box' \in BoxTable
  BY <1>1, FaultBuses, FaultBoxes, Zenon
<1>6. QED BY <1>3, <1>4, <1>5

(* A call that latched none, and changes no bus and releases no mailbox.   *)
LEMMA QuietInv ==
    ASSUME Inv, NEW boxes, SameFrames(boxes), SameOld(boxes), box' = boxes,
           UNCHANGED <<bus, outputVars>>
    PROVE  FramesStarted' /\ OldWaits' /\ OnlineWhenArmed'
<1>1. bus' = bus /\ s_outputs_armed' = s_outputs_armed
      /\ s_healthy_seen' = s_healthy_seen
  BY DEF outputVars
<1>2. FramesStarted'
  BY <1>1, Zenon DEF Inv, FramesStarted, SameFrames
<1>3. OldWaits'
  BY <1>1, Zenon DEF Inv, OldWaits, SameFrames, SameOld
<1>4. OnlineWhenArmed'
  BY <1>1 DEF Inv, OnlineWhenArmed
<1>5. QED BY <1>2, <1>3, <1>4

LEMMA CheckBusInv ==
    ASSUME Inv, CheckBus
    PROVE  Inv'
<1> DEFINE b == service.bus
<1>1. /\ bus \in BusTable /\ s_tx \in TxTable /\ box \in BoxTable
      /\ service \in Service /\ controller \in [Buses -> Controller] /\ b \in Buses
  BY DEF Inv, TypeOK, BusTable, TxTable, BoxTable, Service
<1>2. /\ service' = [service EXCEPT !.at = "advance", !.esr = controller[b].esr]
      /\ service' \in Service /\ service'.bus = b
      /\ service'.healthy = service.healthy /\ service.at = "check"
  <2>1. controller[b].esr \in {"ok", "warning", "off"}
    BY <1>1 DEF Controller
  <2>2. QED BY <1>1, <2>1 DEF CheckBus, Service
<1>3. UNCHANGED <<controller, sinceService>>
  BY DEF CheckBus
<1>4. CASE bus[b].started /\ bus[b].phase = Ready
  <2>1. PICK failed \in AbortResults :
          /\ s_tx' = TxAfterDeadlines(b, failed)
          /\ IF Disobeying(b, failed) # {} \/ controller[b].esr = "off"
             THEN LatchFault(b, BoxesAfterDeadlines(b, failed))
             ELSE /\ box' = BoxesAfterDeadlines(b, failed)
                  /\ UNCHANGED <<bus, outputVars>>
    BY <1>4 DEF CheckBus
  <2>2. s_tx' \in TxTable
    BY <1>1, <2>1, DeadlineEffect
  <2>3. CASE LatchFault(b, BoxesAfterDeadlines(b, failed))
    <3>1. BoxesAfterDeadlines(b, failed) \in BoxTable
          /\ SameFrames(BoxesAfterDeadlines(b, failed))
      BY <1>1, DeadlineEffect, Zenon
    <3>2. /\ FramesStarted' /\ OldWaits' /\ OnlineWhenArmed'
          /\ bus' \in BusTable /\ box' \in BoxTable
      BY <1>1, <2>3, <3>1, FaultInv, Zenon
    <3>3. SameStarted /\ SamePhaseBut(b)
      BY <1>1, <2>3, FaultBuses, Zenon
    <3>4. HealthSound'
      <4>1. \A i \in Buses : i < b => i # b
        BY <1>1, SizeAssumption DEF Buses
      <4>2. service.at # "idle" /\ (service'.healthy => service.healthy)
        BY <1>2
      <4>3. service'.healthy => /\ \A i \in Buses : bus[i].started
                                /\ \A i \in Buses : i < b => bus[i].phase = Ready
        BY <4>2, Zenon DEF Inv, HealthSound
      <4>4. service'.healthy => \A i \in Buses : bus'[i].started
        BY <3>3, <4>3, Zenon DEF SameStarted
      <4>5. service'.healthy => \A i \in Buses : i < b => bus'[i].phase = Ready
        BY <3>3, <4>1, <4>3, SMT DEF SamePhaseBut
      <4>6. QED BY <1>2, <4>4, <4>5, Zenon DEF HealthSound
    <3>5. TypeOK'
      BY <1>1, <1>2, <1>3, <2>2, <2>3, <3>2, FaultOutputs
      DEF Inv, TypeOK, BusTable, TxTable, BoxTable
    <3>6. QED BY <3>2, <3>4, <3>5 DEF Inv
  <2>4. CASE box' = BoxesAfterDeadlines(b, failed) /\ UNCHANGED <<bus, outputVars>>
    <3>1. box' \in BoxTable /\ FramesStarted' /\ OldWaits' /\ OnlineWhenArmed'
      BY <1>1, <2>4, DeadlineEffect, QuietInv
    <3>2. HealthSound'
      BY <1>2, <2>4 DEF Inv, HealthSound
    <3>3. TypeOK'
      BY <1>1, <1>2, <1>3, <2>2, <2>4, <3>1
      DEF Inv, TypeOK, BusTable, TxTable, BoxTable, outputVars
    <3>4. QED BY <3>1, <3>2, <3>3 DEF Inv
  <2>5. QED BY <2>1, <2>3, <2>4
<1>5. CASE ~(bus[b].started /\ bus[b].phase = Ready)
  <2>1. UNCHANGED <<bus, s_tx, outputVars, box>>
    BY <1>5 DEF CheckBus
  <2>2. QED
    BY <1>2, <1>3, <2>1
    DEF Inv, TypeOK, FramesStarted, OldWaits, OnlineWhenArmed, HealthSound, outputVars
<1>6. QED BY <1>4, <1>5

LEMMA NextPhaseType ==
    ASSUME bus \in BusTable, NEW b \in Buses
    PROVE  /\ NextPhase(b) \in 0 .. 5
           /\ AgeAfter(b) \in 0 .. RetryTime
           /\ bus[b].phase = Ready => NextPhase(b) = Ready
<1>1. bus[b].phase \in 0 .. 5 /\ bus[b].age \in 0 .. RetryTime
  BY DEF BusTable, BusState
<1>2. bus[b].phase = Ready => NextPhase(b) = Ready
  BY DEF NextPhase, Ready, Abort, EnterInit, LeaveInit, BusSync
<1>3. NextPhase(b) \in 0 .. 5
  BY <1>1
  DEF NextPhase, Ready, Abort, EnterInit, LeaveInit, BusSync, RetryWait
<1>4. AgeAfter(b) \in 0 .. RetryTime
  BY <1>1, TimesType DEF AgeAfter
<1>5. QED BY <1>2, <1>3, <1>4

(* What the recovery of the bus b changes of the buses. *)
OthersSame(b) == \A i \in Buses : i # b => bus'[i] = bus[i]
KeepsWaiting(b) ==
    /\ bus'[b].abort_pending => bus[b].abort_pending
    /\ bus[b].abort_pending /\ ~AllFree(b) => bus'[b].abort_pending
Advanced(b) == bus[b].started => bus'[b].phase = NextPhase(b)
PhaseStays(b) == ~bus[b].started => bus'[b].phase = bus[b].phase

LEMMA AdvanceBuses ==
    ASSUME bus \in BusTable, NEW b \in Buses, b = service.bus, AdvanceBus
    PROVE  /\ bus' \in BusTable /\ SameStarted
           /\ OthersSame(b) /\ KeepsWaiting(b) /\ Advanced(b) /\ PhaseStays(b)
<1>1. bus' = IF ~bus[b].started THEN bus
             ELSE [bus EXCEPT ![b].abort_pending = @ /\ ~AllFree(b),
                              ![b].phase = NextPhase(b),
                              ![b].age = AgeAfter(b)]
  BY DEF AdvanceBus
<1>2. CASE ~bus[b].started
  BY <1>1, <1>2
  DEF SameStarted, OthersSame, KeepsWaiting, Advanced, PhaseStays
<1>3. CASE bus[b].started
  <2> DEFINE pending == bus[b].abort_pending /\ ~AllFree(b)
             new == [bus[b] EXCEPT !.abort_pending = pending,
                                   !.phase = NextPhase(b), !.age = AgeAfter(b)]
  <2>1. bus' = [bus EXCEPT ![b] = new]
    BY <1>1, <1>3 DEF BusTable
  <2>2. pending \in BOOLEAN /\ bus[b] \in BusState
    BY DEF BusTable
  <2>3. /\ new \in BusState /\ new.started = bus[b].started
        /\ new.phase = NextPhase(b) /\ new.abort_pending = pending
    <3> HIDE DEF pending
    <3>1. QED BY <2>2, NextPhaseType DEF BusState
  <2> HIDE DEF new
  <2>4. bus' \in BusTable /\ bus'[b] = new /\ OthersSame(b)
    BY <2>1, <2>3 DEF BusTable, OthersSame
  <2>5. SameStarted
    BY <2>3, <2>4 DEF SameStarted, OthersSame
  <2>6. Advanced(b) /\ PhaseStays(b)
    BY <1>3, <2>3, <2>4 DEF Advanced, PhaseStays
  <2>7. KeepsWaiting(b)
    BY <2>3, <2>4 DEF KeepsWaiting
  <2>8. QED BY <2>4, <2>5, <2>6, <2>7
<1>4. QED BY <1>2, <1>3

LEMMA AdvanceBoxes ==
    ASSUME box \in BoxTable, AdvanceBus
    PROVE  box' \in BoxTable /\ SameFrames(box') /\ SameOld(box')
<1> DEFINE b == service.bus
<1>1. CASE box' = box
  BY <1>1 DEF SameFrames, SameOld
<1>2. CASE box' = [box EXCEPT ![b] = [m \in Mailboxes |-> Aborted(@[m])]]
  <2>1. ASSUME NEW i \in Buses, NEW m \in Mailboxes
        PROVE  /\ box'[i][m] \in Frame \cup {Empty}
               /\ box'[i][m].pending <=> box[i][m].pending
               /\ box[i][m].pending => (box'[i][m].old <=> box[i][m].old)
    <3>1. box[i][m] \in Frame \cup {Empty}
      BY DEF BoxTable
    <3>2. box'[i][m] = box[i][m] \/ box'[i][m] = Aborted(box[i][m])
      BY <1>2 DEF BoxTable
    <3>3. QED BY <3>1, <3>2, AbortedType
  <2>2. box' \in BoxTable
    BY <1>2, <2>1 DEF BoxTable
  <2>3. SameFrames(box')
    BY <2>1, Zenon DEF SameFrames
  <2>4. SameOld(box')
    BY <2>1, Zenon DEF SameOld
  <2>5. QED BY <2>2, <2>3, <2>4
<1>3. QED BY <1>1, <1>2 DEF AdvanceBus

LEMMA AdvanceTypes ==
    ASSUME TypeOK, AdvanceBus
    PROVE  TypeOK'
<1> DEFINE b == service.bus
           healthy == IF bus[b].started THEN StaysHealthy(b) ELSE service.healthy
<1>1. /\ bus \in BusTable /\ box \in BoxTable /\ service \in Service
      /\ controller \in [Buses -> Controller] /\ b \in Buses
  BY DEF TypeOK, BusTable, BoxTable, Service
<1>2. bus' \in BusTable /\ box' \in BoxTable
  BY <1>1, AdvanceBuses, AdvanceBoxes
<1>3. controller' \in [Buses -> Controller]
  BY <1>1 DEF AdvanceBus, Controller
<1>4. healthy \in BOOLEAN
  <2>1. StaysHealthy(b) \in BOOLEAN
    BY Zenon DEF StaysHealthy
  <2>2. service.healthy \in BOOLEAN
    BY <1>1 DEF Service
  <2>3. QED BY <2>1, <2>2
<1>5. /\ service' \in Service /\ s_healthy_seen' \in BOOLEAN
      /\ healthyAge' \in 0 .. StableTime + MaxLag /\ sinceService' \in 0 .. MaxGap
  <2>1. CASE b < BusCount
    <3>1. b + 1 \in Buses
      BY <1>1, <2>1, SizeAssumption DEF Buses
    <3>2. /\ service' = [service EXCEPT !.at = "check", !.bus = b + 1, !.healthy = healthy]
          /\ UNCHANGED <<s_healthy_seen, healthyAge, sinceService>>
      BY <2>1 DEF AdvanceBus
    <3> HIDE DEF healthy
    <3>3. service' \in Service
      BY <1>1, <1>4, <3>1, <3>2 DEF Service
    <3>4. QED BY <3>2, <3>3 DEF TypeOK
  <2>2. CASE ~(b < BusCount)
    <3>1. EndService(bus', healthy)
      BY <2>2 DEF AdvanceBus
    <3> HIDE DEF healthy
    <3>2. 1 \in Buses
      BY SizeAssumption DEF Buses
    <3>3. service' \in Service
      BY <3>1, <3>2 DEF EndService, ServiceIdle, Service
    <3>4. (healthy /\ NoAbortPending(bus')) \in BOOLEAN
      BY Zenon
    <3>5. s_healthy_seen' \in BOOLEAN
      BY <3>1, <3>4 DEF EndService
    <3>6. healthyAge' \in 0 .. StableTime + MaxLag /\ sinceService' \in 0 .. MaxGap
      BY <3>1, TimesType DEF EndService, TypeOK
    <3>7. QED BY <3>3, <3>5, <3>6
  <2>3. QED BY <2>1, <2>2
<1>6. UNCHANGED <<s_tx, s_outputs_armed>>
  BY DEF AdvanceBus
<1>7. QED
  BY <1>2, <1>3, <1>5, <1>6 DEF TypeOK, BusTable, BoxTable

LEMMA AdvanceBusInv ==
    ASSUME Inv, AdvanceBus
    PROVE  Inv'
<1> DEFINE b == service.bus
           healthy == IF bus[b].started THEN StaysHealthy(b) ELSE service.healthy
<1>1. bus \in BusTable /\ box \in BoxTable /\ b \in Buses /\ service.at # "idle"
  BY DEF Inv, TypeOK, BusTable, BoxTable, Service, AdvanceBus
<1>2. /\ bus' \in BusTable /\ SameStarted
      /\ OthersSame(b) /\ KeepsWaiting(b) /\ Advanced(b) /\ PhaseStays(b)
  BY <1>1, AdvanceBuses
<1>3. box' \in BoxTable /\ SameFrames(box') /\ SameOld(box')
  BY <1>1, AdvanceBoxes
<1>4. FramesStarted'
  BY <1>2, <1>3, Zenon DEF Inv, FramesStarted, SameFrames, SameStarted
<1>5. OldWaits'
  <2>1. ASSUME NEW i \in Buses, NEW m \in Mailboxes, box'[i][m].pending, box'[i][m].old
        PROVE  bus'[i].abort_pending
    <3>1. box[i][m].pending /\ box[i][m].old
      BY <1>3, <2>1, Zenon DEF SameFrames, SameOld
    <3>2. bus[i].abort_pending
      BY <3>1 DEF Inv, OldWaits
    <3>3. CASE i = b
      BY <1>2, <3>1, <3>2, <3>3 DEF KeepsWaiting, AllFree
    <3>4. CASE i # b
      BY <1>2, <3>2, <3>4 DEF OthersSame
    <3>5. QED BY <3>3, <3>4
  <2>2. QED BY <2>1, Zenon DEF OldWaits
<1>6. ASSUME \A i \in Buses : bus[i].phase = Ready /\ ~bus[i].abort_pending
      PROVE  \A i \in Buses : bus'[i].phase = Ready /\ ~bus'[i].abort_pending
  <2>1. bus'[b].phase = Ready
    BY <1>1, <1>2, <1>6, NextPhaseType DEF Advanced, PhaseStays
  <2>2. ~bus'[b].abort_pending
    BY <1>1, <1>2, <1>6 DEF KeepsWaiting
  <2>3. QED BY <1>2, <1>6, <2>1, <2>2 DEF OthersSame
<1>7. ASSUME healthy
      PROVE  /\ \A i \in Buses : bus'[i].started
             /\ \A i \in Buses : i < b + 1 => bus'[i].phase = Ready
  <2>1. service.healthy
    BY <1>7 DEF StaysHealthy
  <2>2. \A i \in Buses : bus[i].started
    BY <1>1, <2>1 DEF Inv, HealthSound
  <2>3. \A i \in Buses : i < b => bus[i].phase = Ready
    BY <1>1, <2>1 DEF Inv, HealthSound
  <2>4. NextPhase(b) = Ready
    BY <1>1, <1>7, <2>2 DEF StaysHealthy
  <2>5. bus'[b].phase = Ready
    BY <1>1, <1>2, <2>2, <2>4 DEF Advanced
  <2>6. \A i \in Buses : bus'[i].started
    BY <1>2, <2>2, Zenon DEF SameStarted
  <2>7. ASSUME NEW i \in Buses, i < b + 1
        PROVE  bus'[i].phase = Ready
    <3>1. i < b \/ i = b
      BY <1>1, <2>7, SizeAssumption DEF Buses
    <3>2. CASE i = b
      BY <2>5, <3>2
    <3>3. CASE i < b /\ i # b
      BY <1>2, <2>3, <3>3 DEF OthersSame
    <3>4. QED BY <3>1, <3>2, <3>3
  <2>8. QED BY <2>6, <2>7
<1>8. OnlineWhenArmed' /\ HealthSound'
  <2>1. CASE b < BusCount
    <3>1. /\ service' = [service EXCEPT !.at = "check", !.bus = b + 1, !.healthy = healthy]
          /\ UNCHANGED <<s_healthy_seen, s_outputs_armed>>
      BY <2>1 DEF AdvanceBus
    <3>2. OnlineWhenArmed'
      BY <1>6, <3>1 DEF Inv, OnlineWhenArmed
    <3>3. service'.bus = b + 1 /\ service'.healthy = healthy
      <4> HIDE DEF healthy
      <4>1. QED BY <3>1 DEF Inv, TypeOK, Service
    <3>4. HealthSound'
      BY <1>7, <3>3, Zenon DEF HealthSound
    <3>5. QED BY <3>2, <3>4
  <2>2. CASE ~(b < BusCount)
    <3>1. EndService(bus', healthy) /\ UNCHANGED s_outputs_armed
      BY <2>2 DEF AdvanceBus
    <3>2. HealthSound'
      BY <3>1 DEF EndService, ServiceIdle, HealthSound
    <3>3. s_healthy_seen' => healthy /\ NoAbortPending(bus')
      BY <3>1, Zenon DEF EndService
    <3>4. \A i \in Buses : i < b + 1
      BY <1>1, <2>2, SizeAssumption DEF Buses
    <3>5. s_healthy_seen' =>
            \A i \in Buses : bus'[i].phase = Ready /\ ~bus'[i].abort_pending
      <4>1. s_healthy_seen' => \A i \in Buses : ~bus'[i].abort_pending
        BY <3>3, Zenon DEF NoAbortPending
      <4>2. s_healthy_seen' => \A i \in Buses : bus'[i].phase = Ready
        BY <1>7, <3>3, <3>4
      <4>3. QED BY <4>1, <4>2
    <3>6. s_outputs_armed' =>
            \A i \in Buses : bus'[i].phase = Ready /\ ~bus'[i].abort_pending
      BY <1>6, <3>1 DEF Inv, OnlineWhenArmed
    <3>7. OnlineWhenArmed'
      BY <3>5, <3>6, Zenon DEF OnlineWhenArmed
    <3>8. QED BY <3>2, <3>7
  <2>3. QED BY <2>1, <2>2
<1>9. TypeOK'
  BY AdvanceTypes DEF Inv
<1>10. QED BY <1>4, <1>5, <1>8, <1>9 DEF Inv

LEMMA TryArmInv ==
    ASSUME Inv, NEW lag \in 0 .. MaxLag, TryArm(lag)
    PROVE  Inv'
<1>1. (s_outputs_armed \/ MayArm(lag)) \in BOOLEAN
  BY Zenon
<1>2. TypeOK'
  BY <1>1 DEF Inv, TypeOK, TryArm, hardware
<1>3. MayArm(lag) => s_healthy_seen
  BY DEF MayArm, RecoveryReady
<1>4. OnlineWhenArmed'
  <2>1. s_outputs_armed' \/ s_healthy_seen' => s_outputs_armed \/ s_healthy_seen
    BY <1>3, Zenon DEF TryArm
  <2>2. bus' = bus
    BY DEF TryArm
  <2>3. QED BY <2>1, <2>2, Zenon DEF Inv, OnlineWhenArmed
<1>5. FramesStarted' /\ HealthSound' /\ OldWaits'
  BY DEF Inv, FramesStarted, HealthSound, OldWaits, TryArm, hardware
<1>6. QED BY <1>2, <1>4, <1>5 DEF Inv

----------------------------------------------------------------------------
(* Sending *)

(* An entry in use stays one while its frame is in the mailbox. *)
LEMMA EntryStays ==
    ASSUME s_tx \in TxTable, NEW b \in Buses, NEW failed, NEW m \in Mailboxes,
           s_tx[b][m].active, box[b][m].pending
    PROVE  TxAfterDeadlines(b, failed)[b][m] \in Entry
<1>1. s_tx[b][m] \in Entry
  BY DEF TxTable, NoEntry
<1>2. TxAfterDeadlines(b, failed)[b][m] =
        IF m \notin Visited(b, failed) THEN s_tx[b][m]
        ELSE IF ~box[b][m].pending THEN NoEntry
        ELSE IF m \in Expired(b) THEN AbortEntry(s_tx[b][m]) ELSE s_tx[b][m]
  BY DEF TxAfterDeadlines, TxTable
<1>3. QED BY <1>1, <1>2, AbortEntryType

(* What every branch of write_frame has to show. *)
WriteKeeps ==
    /\ FramesStarted' /\ OldWaits' /\ OnlineWhenArmed'
    /\ bus' \in BusTable /\ s_tx' \in TxTable /\ box' \in BoxTable
    /\ s_outputs_armed' \in BOOLEAN /\ s_healthy_seen' \in BOOLEAN
    /\ healthyAge' \in 0 .. StableTime + MaxLag

LEMMA WriteFault ==
    ASSUME Inv, NEW b \in Buses, NEW boxes \in BoxTable, SameFrames(boxes),
           NEW tx \in TxTable, s_tx' = tx, LatchFault(b, boxes)
    PROVE  WriteKeeps
BY FaultInv, FaultOutputs DEF WriteKeeps

LEMMA WriteQuiet ==
    ASSUME Inv, NEW boxes \in BoxTable, SameFrames(boxes), SameOld(boxes),
           NEW tx \in TxTable, s_tx' = tx, box' = boxes,
           UNCHANGED <<bus, outputVars>>
    PROVE  WriteKeeps
<1>1. FramesStarted' /\ OldWaits' /\ OnlineWhenArmed'
  BY QuietInv
<1>2. QED
  BY <1>1 DEF Inv, TypeOK, BusTable, WriteKeeps, outputVars

LEMMA WriteBusyKeeps ==
    ASSUME Inv, NEW b \in Buses, NEW m \in Mailboxes, NEW nonzero,
           NEW tx \in TxTable, tx[b][m] \in Entry,
           NEW boxes \in BoxTable, SameFrames(boxes), SameOld(boxes),
           WriteBusy(b, m, nonzero, tx, boxes)
    PROVE  WriteKeeps
<1>1. CASE s_tx' = tx /\ box' = boxes /\ UNCHANGED <<bus, outputVars>>
  BY <1>1, WriteQuiet
<1>2. CASE /\ s_tx' = [tx EXCEPT ![b][m] = AbortEntry(@)]
           /\ box' = [boxes EXCEPT ![b][m] = Aborted(@)]
           /\ UNCHANGED <<bus, outputVars>>
  <2>1. AbortEntry(tx[b][m]) \in Entry
    BY AbortEntryType
  <2>2. s_tx' \in TxTable
    BY <1>2, <2>1 DEF TxTable
  <2>3. ASSUME NEW i \in Buses, NEW n \in Mailboxes
        PROVE  /\ box'[i][n] \in Frame \cup {Empty}
               /\ box'[i][n].pending <=> boxes[i][n].pending
               /\ boxes[i][n].pending => (box'[i][n].old <=> boxes[i][n].old)
    <3>1. boxes[i][n] \in Frame \cup {Empty}
      BY DEF BoxTable
    <3>2. box'[i][n] = boxes[i][n] \/ box'[i][n] = Aborted(boxes[i][n])
      BY <1>2 DEF BoxTable
    <3>3. QED BY <3>1, <3>2, AbortedType
  <2>4. box' \in BoxTable
    BY <1>2, <2>3 DEF BoxTable
  <2>5. SameFrames(box')
    BY <2>3, Zenon DEF SameFrames
  <2>6. SameOld(box')
    BY <2>3, Zenon DEF SameFrames, SameOld
  <2>7. QED BY <1>2, <2>2, <2>4, <2>5, <2>6, WriteQuiet
<1>3. CASE s_tx' = tx /\ LatchFault(b, boxes)
  BY <1>3, WriteFault
<1>4. QED BY <1>1, <1>2, <1>3 DEF WriteBusy

LEMMA WriteFreeKeeps ==
    ASSUME Inv, NEW b \in Buses, bus[b].started, NEW id \in Ids,
           NEW nonzero \in BOOLEAN, NEW left \in TimeLeft,
           NEW tx \in TxTable,
           NEW boxes \in BoxTable, SameFrames(boxes), SameOld(boxes),
           WriteFree(b, id, nonzero, left, tx, boxes)
    PROVE  WriteKeeps
<1>1. UNCHANGED <<bus, outputVars>>
  BY DEF WriteFree
<1>2. CASE s_tx' = tx /\ box' = boxes
  BY <1>1, <1>2, WriteQuiet
<1>3. ASSUME NEW m \in Mailboxes,
             s_tx' = [tx EXCEPT ![b][m] = NewEntry(id, nonzero, left)],
             box' = [boxes EXCEPT ![b][m] = NewFrame(id, nonzero)]
      PROVE  WriteKeeps
  <2>1. NewEntry(id, nonzero, left) \in Entry
    BY NewEntryType
  <2>2. s_tx' \in TxTable
    BY <1>3, <2>1 DEF TxTable
  <2>3. NewFrame(id, nonzero) \in Frame /\ ~NewFrame(id, nonzero).old
    BY NewFrameType
  <2>4. box' \in BoxTable
    BY <1>3, <2>3 DEF BoxTable
  <2>5. ASSUME NEW i \in Buses, NEW n \in Mailboxes
        PROVE  \/ i = b /\ box'[i][n] = NewFrame(id, nonzero)
               \/ box'[i][n] = boxes[i][n]
    BY <1>3 DEF BoxTable
  <2>6. FramesStarted'
    <3>1. ASSUME NEW i \in Buses, NEW n \in Mailboxes, box'[i][n].pending
          PROVE  bus[i].started
      <4>1. CASE i = b
        BY <4>1
      <4>2. CASE box'[i][n] = boxes[i][n]
        BY <3>1, <4>2, Zenon DEF SameFrames, Inv, FramesStarted
      <4>3. QED BY <2>5, <4>1, <4>2
    <3>2. QED BY <1>1, <3>1, Zenon DEF FramesStarted
  <2>7. OldWaits'
    <3>1. ASSUME NEW i \in Buses, NEW n \in Mailboxes, box'[i][n].pending, box'[i][n].old
          PROVE  bus[i].abort_pending
      <4>1. box'[i][n] = boxes[i][n]
        BY <2>3, <2>5, <3>1
      <4>2. QED BY <3>1, <4>1, Zenon DEF SameFrames, SameOld, Inv, OldWaits
    <3>2. QED BY <1>1, <3>1, Zenon DEF OldWaits
  <2>8. OnlineWhenArmed' /\ bus' \in BusTable /\ s_outputs_armed' \in BOOLEAN
        /\ s_healthy_seen' \in BOOLEAN /\ healthyAge' \in 0 .. StableTime + MaxLag
    BY <1>1 DEF Inv, TypeOK, BusTable, OnlineWhenArmed, outputVars
  <2>9. QED BY <2>2, <2>4, <2>6, <2>7, <2>8 DEF WriteKeeps
<1>4. QED BY <1>2, <1>3 DEF WriteFree

LEMMA WriteInv ==
    ASSUME Inv, NEW b \in Buses, NEW id \in Ids, NEW nonzero \in BOOLEAN,
           NEW left \in TimeLeft, Write(b, id, nonzero, left)
    PROVE  Inv'
<1>1. bus \in BusTable /\ s_tx \in TxTable /\ box \in BoxTable
  BY DEF Inv, TypeOK, BusTable, TxTable, BoxTable
<1>2. service.at = "idle" /\ bus[b].started /\ UNCHANGED <<service, controller, sinceService>>
  BY DEF Write
<1> DEFINE watched == bus[b].phase = Ready
           txOf(failed) == IF watched THEN TxAfterDeadlines(b, failed) ELSE s_tx
           boxesOf(failed) == IF watched THEN BoxesAfterDeadlines(b, failed) ELSE box
<1>3. ASSUME NEW failed
      PROVE  /\ txOf(failed) \in TxTable /\ boxesOf(failed) \in BoxTable
             /\ SameFrames(boxesOf(failed)) /\ SameOld(boxesOf(failed))
  <2>1. SameFrames(box) /\ SameOld(box)
    BY Zenon DEF SameFrames, SameOld
  <2>2. QED BY <1>1, <2>1, DeadlineEffect
<1>4. ASSUME NEW failed, NEW m \in InFlight(b, id)
      PROVE  m \in Mailboxes /\ txOf(failed)[b][m] \in Entry
  <2>1. m \in Mailboxes /\ s_tx[b][m].active /\ box[b][m].pending
    BY <1>4 DEF InFlight
  <2>2. s_tx[b][m] \in Entry
    BY <1>1, <2>1 DEF TxTable, NoEntry
  <2>3. QED BY <1>1, <2>1, <2>2, EntryStays
<1>5. WriteKeeps
  <2>1. PICK failed \in IF bus[b].phase = Ready THEN AbortResults ELSE {{}} :
          \/ s_tx' = txOf(failed) /\ LatchFault(b, boxesOf(failed))
          \/ s_tx' = txOf(failed) /\ box' = boxesOf(failed) /\ UNCHANGED <<bus, outputVars>>
          \/ \E m \in InFlight(b, id) :
                WriteBusy(b, m, nonzero, txOf(failed), boxesOf(failed))
          \/ WriteFree(b, id, nonzero, left, txOf(failed), boxesOf(failed))
    BY DEF Write
  <2> HIDE DEF txOf, boxesOf
  <2>2. CASE s_tx' = txOf(failed) /\ LatchFault(b, boxesOf(failed))
    BY <1>3, <2>2, WriteFault
  <2>3. CASE s_tx' = txOf(failed) /\ box' = boxesOf(failed) /\ UNCHANGED <<bus, outputVars>>
    BY <1>3, <2>3, WriteQuiet
  <2>4. CASE \E m \in InFlight(b, id) :
               WriteBusy(b, m, nonzero, txOf(failed), boxesOf(failed))
    BY <1>3, <1>4, <2>4, WriteBusyKeeps
  <2>5. CASE WriteFree(b, id, nonzero, left, txOf(failed), boxesOf(failed))
    BY <1>2, <1>3, <2>5, WriteFreeKeeps
  <2>6. QED BY <2>1, <2>2, <2>3, <2>4, <2>5
<1>6. HealthSound'
  BY <1>2 DEF HealthSound
<1>7. TypeOK'
  BY <1>2, <1>5 DEF Inv, TypeOK, WriteKeeps, BusTable, TxTable, BoxTable
<1>8. QED BY <1>5, <1>6, <1>7 DEF Inv, WriteKeeps

----------------------------------------------------------------------------
(* The hardware and time *)

LEMMA ReleaseInv ==
    ASSUME Inv, NEW b \in Buses, NEW m \in Mailboxes, Release(b, m)
    PROVE  Inv'
<1>1. box' = [box EXCEPT ![b][m] = Empty] /\ box \in BoxTable
  BY DEF Release, Inv, TypeOK, BoxTable
<1>2. UNCHANGED <<bus, s_tx, outputVars, service, controller, sinceService>>
  BY DEF Release
<1>3. box' \in BoxTable
  BY <1>1 DEF BoxTable
<1>4. ASSUME NEW i \in Buses, NEW n \in Mailboxes, box'[i][n].pending
      PROVE  box'[i][n] = box[i][n]
  BY <1>1, <1>4 DEF BoxTable, Empty
<1>5. FramesStarted' /\ OldWaits'
  BY <1>2, <1>4 DEF Inv, FramesStarted, OldWaits
<1>6. TypeOK'
  BY <1>2, <1>3 DEF Inv, TypeOK, BoxTable, outputVars
<1>7. HealthSound' /\ OnlineWhenArmed'
  BY <1>2 DEF Inv, HealthSound, OnlineWhenArmed, outputVars
<1>8. QED BY <1>5, <1>6, <1>7 DEF Inv

LEMMA ControllerInv ==
    ASSUME Inv, NEW b \in Buses,
           (\E esr \in {"ok", "warning", "off"} : ErrorState(b, esr))
             \/ InitAcknowledge(b)
    PROVE  Inv'
<1>1. UNCHANGED <<bus, s_tx, outputVars, service, box, sinceService>>
  BY DEF ErrorState, InitAcknowledge
<1>2. controller' \in [Buses -> Controller]
  <2>1. controller \in [Buses -> Controller]
    BY DEF Inv, TypeOK
  <2>2. ASSUME NEW esr \in {"ok", "warning", "off"}, ErrorState(b, esr)
        PROVE  controller' \in [Buses -> Controller]
    <3>1. [controller[b] EXCEPT !.esr = esr] \in Controller
      BY <2>1 DEF Controller
    <3>2. controller' = [controller EXCEPT ![b] = [controller[b] EXCEPT !.esr = esr]]
      BY <2>1, <2>2 DEF ErrorState
    <3>3. QED BY <2>1, <3>1, <3>2
  <2>3. ASSUME InitAcknowledge(b)
        PROVE  controller' \in [Buses -> Controller]
    <3>1. [controller[b] EXCEPT !.inak = controller[b].inrq] \in Controller
      BY <2>1 DEF Controller
    <3>2. controller' = [controller EXCEPT ![b] =
                           [controller[b] EXCEPT !.inak = controller[b].inrq]]
      BY <2>1, <2>3 DEF InitAcknowledge
    <3>3. QED BY <2>1, <3>1, <3>2
  <2>4. QED BY <2>2, <2>3
<1>3. QED
  BY <1>1, <1>2
  DEF Inv, TypeOK, FramesStarted, HealthSound, OldWaits, OnlineWhenArmed, outputVars

LEMMA OlderEntryType ==
    ASSUME NEW e \in Entry \cup {NoEntry}
    PROVE  OlderEntry(e) \in Entry \cup {NoEntry}
<1>1. CASE ~e.active
  BY <1>1 DEF OlderEntry
<1>2. CASE e.active
  <2> DEFINE left == IF e.nonzero /\ e.left > -MaxOverdue THEN e.left - 1 ELSE e.left
             wait == IF e.abort_requested THEN Older(e.wait, AbortTimeout) ELSE 0
  <2>1. e \in Entry
    BY <1>2 DEF NoEntry
  <2>2. left \in TimeLeft
    BY <2>1, TimesType, SizeAssumption DEF Entry, TimeLeft
  <2>3. wait \in 0 .. AbortTimeout
    BY <2>1, OlderType, SizeAssumption DEF Entry
  <2>4. OlderEntry(e) = [e EXCEPT !.left = left, !.wait = wait]
    BY <1>2, <2>1 DEF OlderEntry, Entry
  <2> HIDE DEF left, wait
  <2>5. QED BY <2>1, <2>2, <2>3, <2>4 DEF Entry
<1>3. QED BY <1>1, <1>2

LEMMA TickInv ==
    ASSUME Inv, Tick
    PROVE  Inv'
<1>1. bus \in BusTable /\ s_tx \in TxTable
  BY DEF Inv, TypeOK, BusTable, TxTable
<1>2. UNCHANGED <<s_outputs_armed, s_healthy_seen, service, controller, box>>
  BY DEF Tick, hardware
<1>3. ASSUME NEW b \in Buses
      PROVE  /\ bus'[b] \in BusState
             /\ bus'[b].started <=> bus[b].started
             /\ bus'[b].abort_pending <=> bus[b].abort_pending
             /\ bus'[b].phase = bus[b].phase
  <2> DEFINE age == IF bus[b].phase = Ready THEN bus[b].age
                    ELSE Older(bus[b].age, RetryTime)
  <2>1. bus[b] \in BusState
    BY <1>1 DEF BusTable
  <2>2. age \in 0 .. RetryTime
    BY <2>1, OlderType, SizeAssumption DEF BusState
  <2>3. bus'[b] = [bus[b] EXCEPT !.age = age]
    BY DEF Tick
  <2> HIDE DEF age
  <2>4. QED BY <2>1, <2>2, <2>3 DEF BusState
<1>4. bus' \in BusTable
  BY <1>3 DEF Tick, BusTable
<1>5. s_tx' \in TxTable
  BY <1>1, OlderEntryType DEF Tick, TxTable
<1>6. healthyAge' \in 0 .. StableTime + MaxLag
  <2>1. healthyAge \in 0 .. StableTime + MaxLag /\ StableTime + MaxLag \in Nat
    BY SizeAssumption DEF Inv, TypeOK
  <2>2. Older(healthyAge, StableTime + MaxLag) \in 0 .. StableTime + MaxLag
    BY <2>1, OlderType
  <2>3. QED BY <2>1, <2>2 DEF Tick
<1>7. sinceService' \in 0 .. MaxGap
  BY SizeAssumption DEF Tick, Inv, TypeOK
<1>8. TypeOK'
  BY <1>2, <1>4, <1>5, <1>6, <1>7 DEF Inv, TypeOK, BusTable, TxTable
<1>9. FramesStarted' /\ OldWaits'
  BY <1>2, <1>3, Zenon DEF Inv, FramesStarted, OldWaits
<1>10. OnlineWhenArmed'
  BY <1>2, <1>3 DEF Inv, OnlineWhenArmed
<1>11. HealthSound'
  BY <1>2, <1>3 DEF Inv, HealthSound, Tick
<1>12. QED BY <1>8, <1>9, <1>10, <1>11 DEF Inv

----------------------------------------------------------------------------
LEMMA InvStep ==
    ASSUME Inv, [Next]_vars
    PROVE  Inv'
<1>1. CASE UNCHANGED vars
  BY <1>1
  DEF vars, Inv, TypeOK, FramesStarted, HealthSound, OldWaits, OnlineWhenArmed
<1>2. CASE ServiceStep
  BY <1>2, BeginServiceInv, CheckBusInv, AdvanceBusInv DEF ServiceStep
<1>3. CASE \E lag \in 0 .. MaxLag : TryArm(lag)
  BY <1>3, TryArmInv
<1>4. CASE \E b \in Buses, id \in Ids :
             \/ Write(b, id, FALSE, CommandTtl)
             \/ \E left \in 0 .. CommandTtl : Write(b, id, TRUE, left)
  <2>1. CommandTtl \in 0 .. CommandTtl
    BY SizeAssumption
  <2>2. QED BY <1>4, <2>1, TimesType, WriteInv
<1>5. CASE Hardware
  BY <1>5, ReleaseInv, ControllerInv DEF Hardware
<1>6. CASE Tick
  BY <1>6, TickInv
<1>7. QED BY <1>1, <1>2, <1>3, <1>4, <1>5, <1>6 DEF Next

(* The inductive invariant: while a service looks at the buses in turn,    *)
(* those it found healthy stay so, and frames of before a fault keep their *)
(* bus waiting until its last mailbox is free.                             *)
THEOREM InvHolds == Spec => []Inv
<1>1. Init => Inv
  BY InitInv
<1>2. Inv /\ [Next]_vars => Inv'
  BY InvStep
<1>3. QED BY <1>1, <1>2, PTL DEF Spec

(* The state of the driver keeps its type: no deadline, age or phase leaves *)
(* its range in any sequence of faults, calls and waiting.                  *)
THEOREM TypeCorrect == Spec => []TypeOK
<1>1. Inv => TypeOK
  BY DEF Inv
<1>2. QED BY <1>1, InvHolds, PTL

(* Outputs are armed only while no bus recovers and none waits for the     *)
(* mailboxes of a fault: bsp_can.c latch_bus_fault, BspCan_Service, TryArm. *)
THEOREM ArmedIsOnline == Spec => []OnlineWhenArmed
<1>1. Inv => OnlineWhenArmed
  BY DEF Inv
<1>2. QED BY <1>1, InvHolds, PTL

(* No command of before a fault is in a mailbox of an armed robot, even if *)
(* the requests to abort it were refused.                                  *)
THEOREM ArmedForgets == Spec => []NoOldCommand
<1>1. Inv => NoOldCommand
  BY Zenon DEF Inv, OldWaits, OnlineWhenArmed, NoOldCommand
<1>2. QED BY <1>1, InvHolds, PTL

----------------------------------------------------------------------------
(* What a call leaves of a frame and of its entry, in the terms the second *)
(* invariant and the refinement speak of.                                  *)

SameFrame(f, g) ==
    /\ g.pending <=> f.pending
    /\ f.pending => /\ g.id = f.id /\ g.nonzero = f.nonzero /\ g.old = f.old
                    /\ f.aborting => g.aborting

FaultFrame(f, g) ==
    /\ g.pending <=> f.pending
    /\ f.pending => /\ g.id = f.id /\ g.nonzero = f.nonzero /\ g.old = TRUE
                    /\ AbortMayFail \/ g.aborting

KeptEntry(e, g) == g = e \/ (~e.abort_requested /\ g = AbortEntry(e))

SameBoxes(boxes) ==
    \A i \in Buses, m \in Mailboxes : SameFrame(box[i][m], boxes[i][m])
KeptTx(tx) ==
    \A i \in Buses, m \in Mailboxes :
        box[i][m].pending => KeptEntry(s_tx[i][m], tx[i][m])

(* A step is of one of these kinds, for the frames.                        *)
Quiet ==
    /\ SameBoxes(box') /\ KeptTx(s_tx')
    /\ s_outputs_armed' = s_outputs_armed

Latched ==
    /\ KeptTx(s_tx')
    /\ \A i \in Buses, m \in Mailboxes : FaultFrame(box[i][m], box'[i][m])
    /\ s_outputs_armed' = FALSE

Filled(b, m, id, nonzero, left) ==
    /\ ~box[b][m].pending
    /\ s_tx'[b][m] = NewEntry(id, nonzero, left)
    /\ box'[b][m] = NewFrame(id, nonzero)
    /\ \A i \in Buses, n \in Mailboxes : i # b \/ n # m =>
          /\ SameFrame(box[i][n], box'[i][n])
          /\ box[i][n].pending => KeptEntry(s_tx[i][n], s_tx'[i][n])
    /\ InFlight(b, id) = {}
    /\ nonzero => s_outputs_armed /\ left > 0
    /\ s_outputs_armed' = s_outputs_armed

LEMMA AbortedSame ==
    ASSUME NEW f \in Frame \cup {Empty}, NEW g \in Frame \cup {Empty}, SameFrame(f, g)
    PROVE  SameFrame(f, g) /\ SameFrame(f, Aborted(g))
BY DEF Aborted, Frame, Empty, SameFrame

LEMMA EntryKeeps ==
    ASSUME NEW e \in Entry, NEW g, KeptEntry(e, g)
    PROVE  /\ g \in Entry /\ g.active /\ g.id = e.id /\ g.nonzero = e.nonzero
           /\ g.left = e.left
           /\ g # e => ~e.abort_requested /\ g.abort_requested /\ g.wait = 0
<1>1. CASE g = e
  BY <1>1 DEF Entry
<1>2. CASE ~e.abort_requested /\ g = AbortEntry(e)
  BY <1>2, AbortEntryType DEF Entry, AbortEntry
<1>3. QED BY <1>1, <1>2 DEF KeptEntry

LEMMA DeadlineKeeps ==
    ASSUME s_tx \in TxTable, box \in BoxTable, NEW b \in Buses, NEW failed
    PROVE  /\ SameBoxes(BoxesAfterDeadlines(b, failed))
           /\ KeptTx(TxAfterDeadlines(b, failed))
<1>1. ASSUME NEW i \in Buses, NEW m \in Mailboxes
      PROVE  SameFrame(box[i][m], BoxesAfterDeadlines(b, failed)[i][m])
  <2>1. box[i][m] \in Frame \cup {Empty}
    BY DEF BoxTable
  <2>2. \/ BoxesAfterDeadlines(b, failed)[i][m] = box[i][m]
        \/ BoxesAfterDeadlines(b, failed)[i][m] = Aborted(box[i][m])
    BY DEF BoxesAfterDeadlines, BoxTable
  <2>3. SameFrame(box[i][m], box[i][m])
    BY DEF SameFrame
  <2>4. QED BY <2>1, <2>2, <2>3, AbortedSame
<1>2. ASSUME NEW i \in Buses, NEW m \in Mailboxes, box[i][m].pending
      PROVE  KeptEntry(s_tx[i][m], TxAfterDeadlines(b, failed)[i][m])
  <2>1. CASE i # b
    BY <2>1 DEF TxAfterDeadlines, TxTable, KeptEntry
  <2>2. CASE i = b
    <3>1. TxAfterDeadlines(b, failed)[b][m] =
            IF m \notin Visited(b, failed) THEN s_tx[b][m]
            ELSE IF ~box[b][m].pending THEN NoEntry
            ELSE IF m \in Expired(b) THEN AbortEntry(s_tx[b][m]) ELSE s_tx[b][m]
      BY DEF TxAfterDeadlines, TxTable
    <3>2. m \in Expired(b) => ~s_tx[b][m].abort_requested
      BY DEF Expired
    <3>3. QED BY <1>2, <2>2, <3>1, <3>2, Zenon DEF KeptEntry
  <2>3. QED BY <2>1, <2>2
<1>3. QED BY <1>1, <1>2 DEF SameBoxes, KeptTx

LEMMA FaultLatches ==
    ASSUME Inv, NEW b \in Buses, NEW boxes \in BoxTable, SameBoxes(boxes),
           LatchFault(b, boxes)
    PROVE  \A i \in Buses, m \in Mailboxes : FaultFrame(box[i][m], box'[i][m])
<1>1. PICK failed \in IF AbortMayFail THEN SUBSET Buses ELSE {{}} :
        box' = BoxesAfterFault(boxes, failed)
  BY DEF LatchFault
<1>2. ASSUME NEW i \in Buses, NEW m \in Mailboxes
      PROVE  FaultFrame(box[i][m], box'[i][m])
  <2> DEFINE f == boxes[i][m]
             kept == IF f.pending THEN [f EXCEPT !.old = TRUE] ELSE f
  <2>1. f \in Frame \cup {Empty} /\ box[i][m] \in Frame \cup {Empty}
    BY DEF BoxTable, Inv, TypeOK
  <2>2. /\ kept \in Frame \cup {Empty} /\ kept.pending = f.pending
        /\ f.pending => kept.id = f.id /\ kept.nonzero = f.nonzero /\ kept.old = TRUE
    <3>1. CASE ~f.pending
      BY <2>1, <3>1
    <3>2. CASE f.pending
      <4>1. f \in Frame
        BY <2>1, <3>2 DEF Empty
      <4>2. kept = [f EXCEPT !.old = TRUE]
        BY <3>2
      <4> HIDE DEF f, kept
      <4>3. /\ kept \in Frame /\ kept.pending = f.pending
            /\ kept.id = f.id /\ kept.nonzero = f.nonzero /\ kept.old = TRUE
        BY <4>1, <4>2 DEF Frame
      <4>4. QED BY <4>3
    <3>3. QED BY <3>1, <3>2
  <2>3. /\ Aborted(kept).pending <=> f.pending
        /\ f.pending => /\ Aborted(kept).id = f.id /\ Aborted(kept).nonzero = f.nonzero
                        /\ Aborted(kept).old = TRUE /\ Aborted(kept).aborting
    <3> HIDE DEF kept
    <3>1. QED BY <2>2 DEF Aborted, Frame, Empty
  <2>4. box'[i][m] = IF bus[i].started /\ i \notin failed THEN Aborted(kept) ELSE kept
    BY <1>1 DEF BoxesAfterFault
  <2>5. SameFrame(box[i][m], f)
    BY DEF SameBoxes
  <2> HIDE DEF f, kept
  <2>6. /\ box'[i][m].pending <=> box[i][m].pending
        /\ box[i][m].pending => /\ box'[i][m].id = box[i][m].id
                                /\ box'[i][m].nonzero = box[i][m].nonzero
                                /\ box'[i][m].old = TRUE
    BY <2>2, <2>3, <2>4, <2>5 DEF SameFrame
  <2>7. box[i][m].pending => AbortMayFail \/ box'[i][m].aborting
    <3>1. box[i][m].pending => bus[i].started
      BY DEF Inv, FramesStarted
    <3>2. ~AbortMayFail => i \notin failed
      BY <1>1
    <3>3. box[i][m].pending => f.pending
      BY <2>5 DEF SameFrame
    <3>4. QED BY <2>3, <2>4, <3>1, <3>2, <3>3
  <2>8. QED BY <2>6, <2>7, Zenon DEF FaultFrame
<1>3. QED BY <1>2

(* write_frame on a mailbox whose frame is to be stopped: once. *)
LEMMA BusyKeeps ==
    ASSUME Inv, NEW b \in Buses, NEW m \in Mailboxes, NEW nonzero,
           NEW tx \in TxTable, KeptTx(tx), tx[b][m] \in Entry,
           NEW boxes \in BoxTable, SameBoxes(boxes),
           s_tx' = [tx EXCEPT ![b][m] = AbortEntry(@)],
           box' = [boxes EXCEPT ![b][m] = Aborted(@)],
           ~tx[b][m].abort_requested
    PROVE  KeptTx(s_tx') /\ SameBoxes(box')
<1>1. ASSUME NEW i \in Buses, NEW n \in Mailboxes
      PROVE  SameFrame(box[i][n], box'[i][n])
  <2>1. boxes[i][n] \in Frame \cup {Empty} /\ box[i][n] \in Frame \cup {Empty}
    BY DEF BoxTable, Inv, TypeOK
  <2>2. box'[i][n] = boxes[i][n] \/ box'[i][n] = Aborted(boxes[i][n])
    BY DEF BoxTable
  <2>3. QED BY <2>1, <2>2, AbortedSame DEF SameBoxes
<1>2. ASSUME NEW i \in Buses, NEW n \in Mailboxes, box[i][n].pending
      PROVE  KeptEntry(s_tx[i][n], s_tx'[i][n])
  <2>1. KeptEntry(s_tx[i][n], tx[i][n])
    BY <1>2 DEF KeptTx
  <2>2. CASE i = b /\ n = m
    <3>1. s_tx'[b][m] = AbortEntry(tx[b][m])
      BY DEF TxTable
    <3>2. tx[b][m] = s_tx[b][m]
      <4>1. AbortEntry(s_tx[b][m]).abort_requested \/ s_tx[b][m] \notin Entry
        BY DEF AbortEntry, Entry
      <4>2. s_tx[b][m] \notin Entry => AbortEntry(s_tx[b][m]) \notin Entry
        <5>1. s_tx[b][m] \in Entry \cup {NoEntry}
          BY DEF Inv, TypeOK
        <5>2. AbortEntry(NoEntry) \notin Entry
          BY DEF AbortEntry, NoEntry, Entry
        <5>3. QED BY <5>1, <5>2
      <4>3. QED BY <2>1, <2>2, <4>1, <4>2 DEF KeptEntry
    <3>3. QED BY <2>2, <3>1, <3>2 DEF KeptEntry
  <2>3. CASE i # b \/ n # m
    <3>1. s_tx'[i][n] = tx[i][n]
      BY <2>3 DEF TxTable
    <3>2. QED BY <2>1, <3>1
  <2>4. QED BY <2>2, <2>3
<1>3. QED BY <1>1, <1>2, Zenon DEF SameBoxes, KeptTx

LEMMA WriteEffect ==
    ASSUME Inv, NEW b \in Buses, NEW id \in Ids, NEW nonzero \in BOOLEAN,
           NEW left \in TimeLeft, Write(b, id, nonzero, left)
    PROVE  \/ Quiet
           \/ Latched
           \/ bus[b].phase = Ready /\ \E m \in Mailboxes : Filled(b, m, id, nonzero, left)
<1>1. s_tx \in TxTable /\ box \in BoxTable
  BY DEF Inv, TypeOK, TxTable, BoxTable
<1> DEFINE watched == bus[b].phase = Ready
           txOf(failed) == IF watched THEN TxAfterDeadlines(b, failed) ELSE s_tx
           boxesOf(failed) == IF watched THEN BoxesAfterDeadlines(b, failed) ELSE box
<1>2. ASSUME NEW failed
      PROVE  /\ txOf(failed) \in TxTable /\ boxesOf(failed) \in BoxTable
             /\ KeptTx(txOf(failed)) /\ SameBoxes(boxesOf(failed))
  <2>1. SameBoxes(box) /\ KeptTx(s_tx)
    BY Zenon DEF SameBoxes, SameFrame, KeptTx, KeptEntry
  <2>2. QED BY <1>1, <2>1, DeadlineEffect, DeadlineKeeps
<1>3. ASSUME NEW failed, NEW m \in InFlight(b, id)
      PROVE  m \in Mailboxes /\ txOf(failed)[b][m] \in Entry
  <2>1. m \in Mailboxes /\ s_tx[b][m].active /\ box[b][m].pending
    BY <1>3 DEF InFlight
  <2>2. s_tx[b][m] \in Entry
    BY <1>1, <2>1 DEF TxTable, NoEntry
  <2>3. QED BY <1>1, <2>1, <2>2, EntryStays
<1>4. PICK failed \in IF bus[b].phase = Ready THEN AbortResults ELSE {{}} :
          \/ s_tx' = txOf(failed) /\ LatchFault(b, boxesOf(failed))
          \/ s_tx' = txOf(failed) /\ box' = boxesOf(failed) /\ UNCHANGED <<bus, outputVars>>
          \/ \E m \in InFlight(b, id) :
                WriteBusy(b, m, nonzero, txOf(failed), boxesOf(failed))
          \/ /\ ~Refused(b, nonzero, left) /\ ~(InFlight(b, id) # {})
             /\ WriteFree(b, id, nonzero, left, txOf(failed), boxesOf(failed))
  BY DEF Write
<1> DEFINE tx == txOf(failed)
           boxes == boxesOf(failed)
<1>5. tx \in TxTable /\ boxes \in BoxTable /\ KeptTx(tx) /\ SameBoxes(boxes)
  BY <1>2
<1>6. \A m \in InFlight(b, id) : m \in Mailboxes /\ tx[b][m] \in Entry
  BY <1>3
<1>7. \/ s_tx' = tx /\ LatchFault(b, boxes)
      \/ s_tx' = tx /\ box' = boxes /\ UNCHANGED <<bus, outputVars>>
      \/ \E m \in InFlight(b, id) : WriteBusy(b, m, nonzero, tx, boxes)
      \/ /\ ~Refused(b, nonzero, left) /\ ~(InFlight(b, id) # {})
         /\ WriteFree(b, id, nonzero, left, tx, boxes)
  BY <1>4
<1> HIDE DEF tx, boxes
<1>8. ASSUME s_tx' = tx, LatchFault(b, boxes)
      PROVE  Latched
  <2>1. s_outputs_armed' = FALSE
    BY <1>8 DEF LatchFault
  <2>2. QED BY <1>5, <1>8, <2>1, FaultLatches DEF Latched
<1>9. ASSUME s_tx' = tx, box' = boxes, UNCHANGED <<bus, outputVars>>
      PROVE  Quiet
  BY <1>5, <1>9 DEF Quiet, outputVars
<1>10. ASSUME NEW m \in InFlight(b, id), WriteBusy(b, m, nonzero, tx, boxes)
       PROVE  Quiet \/ Latched
  <2>1. CASE /\ ~tx[b][m].abort_requested
             /\ s_tx' = [tx EXCEPT ![b][m] = AbortEntry(@)]
             /\ box' = [boxes EXCEPT ![b][m] = Aborted(@)]
             /\ UNCHANGED <<bus, outputVars>>
    <3>1. m \in Mailboxes /\ tx[b][m] \in Entry
      BY <1>6
    <3>2. KeptTx(s_tx') /\ SameBoxes(box')
      BY <1>5, <2>1, <3>1, BusyKeeps
    <3>3. QED BY <2>1, <3>2 DEF Quiet, outputVars
  <2>2. QED BY <1>8, <1>9, <1>10, <2>1 DEF WriteBusy
<1>11. ASSUME ~Refused(b, nonzero, left), InFlight(b, id) = {},
              WriteFree(b, id, nonzero, left, tx, boxes)
       PROVE  \/ Quiet
              \/ bus[b].phase = Ready /\ \E m \in Mailboxes : Filled(b, m, id, nonzero, left)
  <2>1. /\ bus[b].phase = Ready
        /\ nonzero => s_outputs_armed /\ left > 0
    BY <1>11, SizeAssumption DEF Refused, TimeLeft, MaxOverdue
  <2>2. UNCHANGED <<bus, outputVars>>
    BY <1>11 DEF WriteFree
  <2>3. CASE s_tx' = tx /\ box' = boxes
    BY <1>9, <2>2, <2>3
  <2>4. ASSUME NEW m \in Mailboxes, ~boxes[b][m].pending,
               s_tx' = [tx EXCEPT ![b][m] = NewEntry(id, nonzero, left)],
               box' = [boxes EXCEPT ![b][m] = NewFrame(id, nonzero)]
        PROVE  Filled(b, m, id, nonzero, left)
    <3>1. s_tx'[b][m] = NewEntry(id, nonzero, left) /\ box'[b][m] = NewFrame(id, nonzero)
      BY <1>5, <2>4 DEF TxTable, BoxTable
    <3>2. ASSUME NEW i \in Buses, NEW n \in Mailboxes, i # b \/ n # m
          PROVE  /\ SameFrame(box[i][n], box'[i][n])
                 /\ box[i][n].pending => KeptEntry(s_tx[i][n], s_tx'[i][n])
      <4>1. box'[i][n] = boxes[i][n] /\ s_tx'[i][n] = tx[i][n]
        BY <1>5, <2>4, <3>2 DEF TxTable, BoxTable
      <4>2. QED BY <1>5, <4>1 DEF SameBoxes, KeptTx
    <3>3. ~box[b][m].pending
      BY <1>5, <2>4 DEF SameBoxes, SameFrame
    <3>4. QED BY <1>11, <2>1, <2>2, <3>1, <3>2, <3>3 DEF Filled, outputVars
  <2>5. QED BY <1>11, <2>1, <2>3, <2>4 DEF WriteFree
<1>12. QED BY <1>7, <1>8, <1>9, <1>10, <1>11

(* BspCan_Service on a bus: when the outputs stay armed, every mailbox of  *)
(* the bus was looked at and obeyed.                                       *)
LEMMA CheckBusEffect ==
    ASSUME Inv, CheckBus
    PROVE  \/ Latched
           \/ /\ Quiet
              /\ bus' = bus
              /\ LET b == service.bus IN
                 bus[b].started /\ bus[b].phase = Ready =>
                    \A m \in Mailboxes : box[b][m].pending /\ s_tx[b][m].active =>
                       /\ m \notin Stuck(b)
                       /\ s_tx'[b][m] = IF m \in Expired(b) THEN AbortEntry(s_tx[b][m])
                                        ELSE s_tx[b][m]
<1> DEFINE b == service.bus
<1>1. s_tx \in TxTable /\ box \in BoxTable /\ b \in Buses
  BY DEF Inv, TypeOK, TxTable, BoxTable, Service
<1>2. CASE bus[b].started /\ bus[b].phase = Ready
  <2>1. PICK failed \in AbortResults :
          /\ s_tx' = TxAfterDeadlines(b, failed)
          /\ IF Disobeying(b, failed) # {} \/ controller[b].esr = "off"
             THEN LatchFault(b, BoxesAfterDeadlines(b, failed))
             ELSE /\ box' = BoxesAfterDeadlines(b, failed)
                  /\ UNCHANGED <<bus, outputVars>>
    BY <1>2 DEF CheckBus
  <2> DEFINE boxes == BoxesAfterDeadlines(b, failed)
  <2>2. boxes \in BoxTable /\ SameBoxes(boxes) /\ KeptTx(s_tx')
    BY <1>1, <2>1, DeadlineEffect, DeadlineKeeps
  <2>3. CASE LatchFault(b, boxes)
    <3>1. s_outputs_armed' = FALSE
      BY <2>3 DEF LatchFault
    <3> HIDE DEF boxes
    <3>2. QED BY <1>1, <2>2, <2>3, <3>1, FaultLatches DEF Latched
  <2>4. CASE /\ Disobeying(b, failed) = {} /\ box' = boxes
             /\ UNCHANGED <<bus, outputVars>>
    <3>1. ASSUME NEW m \in Mailboxes, box[b][m].pending, s_tx[b][m].active
          PROVE  /\ m \notin Stuck(b)
                 /\ s_tx'[b][m] = IF m \in Expired(b) THEN AbortEntry(s_tx[b][m])
                                  ELSE s_tx[b][m]
      <4>1. m \notin Stuck(b) /\ m \in Visited(b, failed)
        BY <2>4 DEF Disobeying, Visited
      <4>2. s_tx'[b][m] =
              IF m \notin Visited(b, failed) THEN s_tx[b][m]
              ELSE IF ~box[b][m].pending THEN NoEntry
              ELSE IF m \in Expired(b) THEN AbortEntry(s_tx[b][m]) ELSE s_tx[b][m]
        BY <1>1, <2>1 DEF TxAfterDeadlines, TxTable
      <4>3. QED BY <3>1, <4>1, <4>2
    <3>2. Quiet
      BY <2>2, <2>4 DEF Quiet, outputVars
    <3>3. QED BY <2>4, <3>1, <3>2
  <2>5. QED BY <2>1, <2>3, <2>4
<1>3. CASE ~(bus[b].started /\ bus[b].phase = Ready)
  <2>1. UNCHANGED <<bus, s_tx, outputVars, box>>
    BY <1>3 DEF CheckBus
  <2>2. Quiet
    BY <2>1, Zenon DEF Quiet, SameBoxes, SameFrame, KeptTx, KeptEntry, outputVars
  <2>3. QED BY <1>3, <2>1, <2>2
<1>4. QED BY <1>2, <1>3

LEMMA AdvanceEffect ==
    ASSUME Inv, AdvanceBus
    PROVE  Quiet /\ s_tx' = s_tx
<1>1. box \in BoxTable /\ UNCHANGED <<s_tx, s_outputs_armed>>
  BY DEF Inv, TypeOK, BoxTable, AdvanceBus
<1> DEFINE b == service.bus
<1>2. \/ box' = box
      \/ box' = [box EXCEPT ![b] = [m \in Mailboxes |-> Aborted(@[m])]]
  BY DEF AdvanceBus
<1>3. ASSUME NEW i \in Buses, NEW m \in Mailboxes
      PROVE  SameFrame(box[i][m], box'[i][m])
  <2>1. box[i][m] \in Frame \cup {Empty}
    BY <1>1 DEF BoxTable
  <2>2. box'[i][m] = box[i][m] \/ box'[i][m] = Aborted(box[i][m])
    BY <1>1, <1>2 DEF BoxTable
  <2>3. SameFrame(box[i][m], box[i][m])
    BY DEF SameFrame
  <2>4. QED BY <2>1, <2>2, <2>3, AbortedSame
<1>4. QED BY <1>1, <1>3, Zenon DEF Quiet, SameBoxes, KeptTx, KeptEntry

----------------------------------------------------------------------------
(* The frames: what the driver's table and the outputs say about them. *)

(* A frame in a mailbox is the one the table was told of, if it was told   *)
(* of any since: s_tx keeps its entry until the mailbox is found free.     *)
Tracked ==
    \A b \in Buses, m \in Mailboxes : box[b][m].pending =>
        /\ s_tx[b][m].active
        /\ s_tx[b][m].id = box[b][m].id
        /\ s_tx[b][m].nonzero = box[b][m].nonzero

(* No two mailboxes of a bus hold frames of the same identifier. *)
OneOfAnId ==
    \A b \in Buses, m \in Mailboxes, n \in Mailboxes :
        box[b][m].pending /\ box[b][n].pending /\ box[b][m].id = box[b][n].id => m = n

(* What was not armed since the last fault commands nothing new. *)
DisarmedOld ==
    ~s_outputs_armed =>
        \A b \in Buses, m \in Mailboxes :
            box[b][m].pending => (box[b][m].nonzero => box[b][m].old)

Silenced == ~AbortMayFail => DisarmedIsSilent

FramesInv == Tracked /\ OneOfAnId /\ DisarmedOld /\ Silenced

LEMMA FrameTypes ==
    ASSUME Inv, NEW b \in Buses, NEW m \in Mailboxes
    PROVE  /\ box[b][m] \in Frame \cup {Empty}
           /\ box[b][m].pending => box[b][m] \in Frame
           /\ s_tx[b][m] \in Entry \cup {NoEntry}
           /\ s_tx[b][m].active => s_tx[b][m] \in Entry
BY DEF Inv, TypeOK, Empty, NoEntry

LEMMA FramesQuiet ==
    ASSUME Inv, FramesInv, Quiet
    PROVE  FramesInv'
<1>1. ASSUME NEW b \in Buses, NEW m \in Mailboxes, box'[b][m].pending
      PROVE  /\ box[b][m].pending
             /\ box'[b][m].id = box[b][m].id /\ box'[b][m].nonzero = box[b][m].nonzero
             /\ box'[b][m].old = box[b][m].old
             /\ box[b][m].aborting => box'[b][m].aborting
             /\ s_tx'[b][m].active /\ s_tx'[b][m].id = box[b][m].id
             /\ s_tx'[b][m].nonzero = box[b][m].nonzero
  <2>1. SameFrame(box[b][m], box'[b][m])
    BY DEF Quiet, SameBoxes
  <2>2. box[b][m].pending
    BY <1>1, <2>1 DEF SameFrame
  <2>3. s_tx[b][m] \in Entry /\ KeptEntry(s_tx[b][m], s_tx'[b][m])
    BY <2>2, FrameTypes DEF FramesInv, Tracked, Quiet, KeptTx
  <2>4. s_tx[b][m].id = box[b][m].id /\ s_tx[b][m].nonzero = box[b][m].nonzero
    BY <2>2 DEF FramesInv, Tracked
  <2>5. QED BY <2>1, <2>2, <2>3, <2>4, EntryKeeps DEF SameFrame
<1>2. s_outputs_armed' = s_outputs_armed
  BY DEF Quiet
<1>3. Tracked'
  BY <1>1 DEF Tracked
<1>4. OneOfAnId'
  BY <1>1 DEF FramesInv, OneOfAnId
<1>5. DisarmedOld'
  BY <1>1, <1>2 DEF FramesInv, DisarmedOld
<1>6. Silenced'
  BY <1>1, <1>2 DEF FramesInv, Silenced, DisarmedIsSilent
<1>7. QED BY <1>3, <1>4, <1>5, <1>6 DEF FramesInv

LEMMA FramesLatched ==
    ASSUME Inv, FramesInv, Latched
    PROVE  FramesInv'
<1>1. ASSUME NEW b \in Buses, NEW m \in Mailboxes, box'[b][m].pending
      PROVE  /\ box[b][m].pending
             /\ box'[b][m].id = box[b][m].id /\ box'[b][m].nonzero = box[b][m].nonzero
             /\ box'[b][m].old
             /\ AbortMayFail \/ box'[b][m].aborting
             /\ s_tx'[b][m].active /\ s_tx'[b][m].id = box[b][m].id
             /\ s_tx'[b][m].nonzero = box[b][m].nonzero
  <2>1. FaultFrame(box[b][m], box'[b][m])
    BY DEF Latched
  <2>2. box[b][m].pending
    BY <1>1, <2>1 DEF FaultFrame
  <2>3. s_tx[b][m] \in Entry /\ KeptEntry(s_tx[b][m], s_tx'[b][m])
    BY <2>2, FrameTypes DEF FramesInv, Tracked, Latched, KeptTx
  <2>4. s_tx[b][m].id = box[b][m].id /\ s_tx[b][m].nonzero = box[b][m].nonzero
    BY <2>2 DEF FramesInv, Tracked
  <2>5. QED BY <2>1, <2>2, <2>3, <2>4, EntryKeeps DEF FaultFrame
<1>3. Tracked'
  BY <1>1 DEF Tracked
<1>4. OneOfAnId'
  BY <1>1 DEF FramesInv, OneOfAnId
<1>5. DisarmedOld'
  BY <1>1 DEF DisarmedOld
<1>6. Silenced'
  BY <1>1 DEF Silenced, DisarmedIsSilent
<1>7. QED BY <1>3, <1>4, <1>5, <1>6 DEF FramesInv

LEMMA FramesFilled ==
    ASSUME Inv, FramesInv, NEW b \in Buses, NEW m \in Mailboxes, NEW id \in Ids,
           NEW nonzero \in BOOLEAN, NEW left \in TimeLeft,
           Filled(b, m, id, nonzero, left)
    PROVE  FramesInv'
<1>1. ASSUME NEW i \in Buses, NEW n \in Mailboxes, box'[i][n].pending, i # b \/ n # m
      PROVE  /\ box[i][n].pending
             /\ box'[i][n].id = box[i][n].id /\ box'[i][n].nonzero = box[i][n].nonzero
             /\ box'[i][n].old = box[i][n].old
             /\ box[i][n].aborting => box'[i][n].aborting
             /\ s_tx'[i][n].active /\ s_tx'[i][n].id = box[i][n].id
             /\ s_tx'[i][n].nonzero = box[i][n].nonzero
  <2>1. SameFrame(box[i][n], box'[i][n])
    BY <1>1 DEF Filled
  <2>2. box[i][n].pending
    BY <1>1, <2>1 DEF SameFrame
  <2>3. s_tx[i][n] \in Entry /\ KeptEntry(s_tx[i][n], s_tx'[i][n])
    BY <1>1, <2>2, FrameTypes DEF FramesInv, Tracked, Filled
  <2>4. s_tx[i][n].id = box[i][n].id /\ s_tx[i][n].nonzero = box[i][n].nonzero
    BY <2>2 DEF FramesInv, Tracked
  <2>5. QED BY <2>1, <2>2, <2>3, <2>4, EntryKeeps DEF SameFrame
<1>2. /\ s_tx'[b][m].active /\ s_tx'[b][m].id = id /\ s_tx'[b][m].nonzero = nonzero
      /\ box'[b][m].id = id /\ box'[b][m].nonzero = nonzero
  BY DEF Filled, NewEntry, NewFrame
<1>3. \A n \in Mailboxes : box[b][n].pending => box[b][n].id # id
  BY DEF Filled, InFlight, FramesInv, Tracked
<1>4. s_outputs_armed' = s_outputs_armed /\ (nonzero => s_outputs_armed)
  BY DEF Filled
<1>5. Tracked'
  BY <1>1, <1>2 DEF Tracked
<1>6. OneOfAnId'
  <2>1. ASSUME NEW i \in Buses, NEW n \in Mailboxes, NEW k \in Mailboxes,
               box'[i][n].pending, box'[i][k].pending, box'[i][n].id = box'[i][k].id,
               n # k
        PROVE  FALSE
    <3>1. CASE i = b /\ n = m
      BY <1>1, <1>2, <1>3, <2>1, <3>1
    <3>2. CASE i = b /\ k = m
      BY <1>1, <1>2, <1>3, <2>1, <3>2
    <3>3. CASE (i # b \/ n # m) /\ (i # b \/ k # m)
      <4>1. box[i][n].pending /\ box[i][k].pending /\ box[i][n].id = box[i][k].id
        BY <1>1, <2>1, <3>3
      <4>2. QED BY <2>1, <4>1 DEF FramesInv, OneOfAnId
    <3>4. QED BY <3>1, <3>2, <3>3
  <2>2. QED BY <2>1, Zenon DEF OneOfAnId
<1>7. DisarmedOld'
  BY <1>1, <1>2, <1>4 DEF FramesInv, DisarmedOld
<1>8. Silenced'
  BY <1>1, <1>2, <1>4 DEF FramesInv, Silenced, DisarmedIsSilent
<1>9. QED BY <1>5, <1>6, <1>7, <1>8 DEF FramesInv

LEMMA FramesReleased ==
    ASSUME Inv, FramesInv, NEW b \in Buses, NEW m \in Mailboxes, Release(b, m)
    PROVE  FramesInv'
<1>1. ASSUME NEW i \in Buses, NEW n \in Mailboxes, box'[i][n].pending
      PROVE  box'[i][n] = box[i][n]
  BY <1>1 DEF Release, Empty, Inv, TypeOK
<1>2. s_outputs_armed' = s_outputs_armed /\ s_tx' = s_tx
  BY DEF Release, outputVars
<1>3. Tracked' /\ OneOfAnId'
  BY <1>1, <1>2 DEF FramesInv, Tracked, OneOfAnId
<1>4. DisarmedOld' /\ Silenced'
  BY <1>1, <1>2 DEF FramesInv, DisarmedOld, Silenced, DisarmedIsSilent
<1>5. QED BY <1>3, <1>4 DEF FramesInv

(* When the outputs are armed, no frame of before is left. *)
LEMMA ArmingForgets ==
    ASSUME Inv, NEW lag, MayArm(lag)
    PROVE  \A b \in Buses, m \in Mailboxes : box[b][m].pending => ~box[b][m].old
<1>1. \A b \in Buses : ~bus[b].abort_pending
  BY DEF MayArm, RecoveryReady, Inv, OnlineWhenArmed
<1>2. QED BY <1>1, Zenon DEF Inv, OldWaits

LEMMA FramesArmed ==
    ASSUME Inv, FramesInv, NEW lag, TryArm(lag)
    PROVE  FramesInv'
<1>1. s_tx' = s_tx /\ box' = box /\ (s_outputs_armed => s_outputs_armed')
  BY DEF TryArm, hardware
<1>2. Tracked' /\ OneOfAnId'
  BY <1>1 DEF FramesInv, Tracked, OneOfAnId
<1>3. DisarmedOld' /\ Silenced'
  BY <1>1 DEF FramesInv, DisarmedOld, Silenced, DisarmedIsSilent
<1>4. QED BY <1>2, <1>3 DEF FramesInv

LEMMA OlderKeeps ==
    ASSUME NEW e \in Entry
    PROVE  /\ OlderEntry(e) \in Entry /\ OlderEntry(e).active
           /\ OlderEntry(e).id = e.id /\ OlderEntry(e).nonzero = e.nonzero
           /\ OlderEntry(e).abort_requested <=> e.abort_requested
           /\ OlderEntry(e).left =
                IF e.nonzero /\ e.left > -MaxOverdue THEN e.left - 1 ELSE e.left
           /\ OlderEntry(e).wait =
                IF e.abort_requested THEN Older(e.wait, AbortTimeout) ELSE 0
<1> DEFINE left == IF e.nonzero /\ e.left > -MaxOverdue THEN e.left - 1 ELSE e.left
           wait == IF e.abort_requested THEN Older(e.wait, AbortTimeout) ELSE 0
<1>1. left \in TimeLeft
  BY TimesType, SizeAssumption DEF Entry, TimeLeft
<1>2. wait \in 0 .. AbortTimeout
  BY OlderType, SizeAssumption DEF Entry
<1>3. OlderEntry(e) = [e EXCEPT !.left = left, !.wait = wait]
  BY DEF OlderEntry, Entry
<1>4. /\ OlderEntry(e) \in Entry /\ OlderEntry(e).active
      /\ OlderEntry(e).id = e.id /\ OlderEntry(e).nonzero = e.nonzero
      /\ OlderEntry(e).abort_requested <=> e.abort_requested
      /\ OlderEntry(e).left = left /\ OlderEntry(e).wait = wait
  <2> HIDE DEF left, wait
  <2>1. QED BY <1>1, <1>2, <1>3 DEF Entry
<1>5. QED BY <1>4

LEMMA FramesTick ==
    ASSUME Inv, FramesInv, Tick
    PROVE  FramesInv'
<1>1. box' = box /\ s_outputs_armed' = s_outputs_armed
  BY DEF Tick, hardware
<1>2. ASSUME NEW b \in Buses, NEW m \in Mailboxes, box[b][m].pending
      PROVE  /\ s_tx'[b][m].active /\ s_tx'[b][m].id = s_tx[b][m].id
             /\ s_tx'[b][m].nonzero = s_tx[b][m].nonzero
  <2>1. s_tx[b][m] \in Entry
    BY <1>2, FrameTypes DEF FramesInv, Tracked
  <2>2. s_tx'[b][m] = OlderEntry(s_tx[b][m])
    BY DEF Tick
  <2>3. QED BY <2>1, <2>2, OlderKeeps
<1>3. Tracked'
  BY <1>1, <1>2 DEF FramesInv, Tracked
<1>4. OneOfAnId' /\ DisarmedOld' /\ Silenced'
  BY <1>1 DEF FramesInv, OneOfAnId, DisarmedOld, Silenced, DisarmedIsSilent
<1>5. QED BY <1>3, <1>4 DEF FramesInv

----------------------------------------------------------------------------
(* Initialisation: a controller asked for it is in a phase that ends with  *)
(* leaving it, and write_frame refuses such a bus.                         *)
InitClean ==
    \A b \in Buses : controller[b].inrq =>
        bus[b].phase \in {Abort, EnterInit, RetryWait} /\ AllFree(b)

PhasesHold == \A i \in Buses : bus[i].phase # Ready => bus'[i].phase = bus[i].phase
NoNewFrames ==
    \A i \in Buses, m \in Mailboxes :
        bus[i].phase # Ready /\ box'[i][m].pending => box[i][m].pending

LEMMA CleanKept ==
    ASSUME InitClean, PhasesHold, NoNewFrames,
           \A i \in Buses : controller'[i].inrq => controller[i].inrq
    PROVE  InitClean'
<1>1. ASSUME NEW i \in Buses, controller'[i].inrq
      PROVE  bus'[i].phase \in {Abort, EnterInit, RetryWait}
             /\ \A m \in Mailboxes : ~box'[i][m].pending
  <2>1. /\ bus[i].phase \in {Abort, EnterInit, RetryWait}
        /\ \A m \in Mailboxes : ~box[i][m].pending
    BY <1>1 DEF InitClean, AllFree
  <2>2. bus[i].phase # Ready
    BY <2>1 DEF Abort, EnterInit, RetryWait, Ready
  <2>3. QED BY <2>1, <2>2 DEF PhasesHold, NoNewFrames
<1>2. QED BY <1>1 DEF InitClean, AllFree

LEMMA FaultPhases ==
    ASSUME Inv, NEW b \in Buses, bus[b].phase = Ready, NEW boxes, LatchFault(b, boxes)
    PROVE  PhasesHold
<1>1. SamePhaseBut(b)
  BY FaultBuses DEF Inv, TypeOK, BusTable
<1>2. QED BY <1>1 DEF SamePhaseBut, PhasesHold

LEMMA QuietFrames ==
    ASSUME Quiet \/ Latched
    PROVE  NoNewFrames
BY Zenon DEF Quiet, Latched, SameBoxes, SameFrame, FaultFrame, NoNewFrames

LEMMA CheckBusClean ==
    ASSUME Inv, InitClean, CheckBus
    PROVE  InitClean'
<1> DEFINE b == service.bus
<1>1. b \in Buses /\ controller' = controller
  BY DEF Inv, TypeOK, Service, CheckBus
<1>2. \/ bus' = bus
      \/ bus[b].phase = Ready /\ \E boxes : LatchFault(b, boxes)
  BY DEF CheckBus
<1>3. PhasesHold
  BY <1>1, <1>2, FaultPhases DEF PhasesHold
<1>4. NoNewFrames
  BY CheckBusEffect, QuietFrames
<1>5. QED BY <1>1, <1>3, <1>4, CleanKept

LEMMA WriteClean ==
    ASSUME Inv, InitClean, NEW b \in Buses, NEW id \in Ids, NEW nonzero \in BOOLEAN,
           NEW left \in TimeLeft, Write(b, id, nonzero, left)
    PROVE  InitClean'
<1>1. \/ bus' = bus
      \/ bus[b].phase = Ready /\ \E boxes : LatchFault(b, boxes)
  BY DEF Write, WriteBusy, WriteFree, Refused
<1>2. PhasesHold
  BY <1>1, FaultPhases DEF PhasesHold
<1>3. NoNewFrames
  <2>1. ASSUME NEW m \in Mailboxes, Filled(b, m, id, nonzero, left), bus[b].phase = Ready
        PROVE  NoNewFrames
    BY <2>1 DEF Filled, NoNewFrames, SameFrame
  <2>2. QED BY <2>1, WriteEffect, QuietFrames
<1>4. controller' = controller
  BY DEF Write
<1>5. QED BY <1>2, <1>3, <1>4, CleanKept

LEMMA AdvanceClean ==
    ASSUME Inv, InitClean, AdvanceBus
    PROVE  InitClean'
<1> DEFINE b == service.bus
<1>1. b \in Buses /\ bus \in BusTable /\ controller \in [Buses -> Controller]
  BY DEF Inv, TypeOK, BusTable, Service
<1>2. OthersSame(b) /\ Advanced(b) /\ (~bus[b].started => bus' = bus)
  BY <1>1, AdvanceBuses DEF AdvanceBus
<1>3. \A i \in Buses, m \in Mailboxes : box'[i][m].pending => box[i][m].pending
  BY AdvanceEffect, Zenon DEF Quiet, SameBoxes, SameFrame
<1>4. controller' = IF bus[b].started /\ NextPhase(b) # bus[b].phase
                    THEN [controller EXCEPT ![b].inrq =
                            CASE NextPhase(b) = EnterInit -> TRUE
                              [] NextPhase(b) = LeaveInit -> FALSE
                              [] OTHER -> @]
                    ELSE controller
  BY DEF AdvanceBus
<1>5. ASSUME NEW i \in Buses, i # b, controller'[i].inrq
      PROVE  bus'[i].phase \in {Abort, EnterInit, RetryWait}
             /\ \A m \in Mailboxes : ~box'[i][m].pending
  <2>1. controller'[i] = controller[i] /\ bus'[i] = bus[i]
    BY <1>1, <1>2, <1>4, <1>5 DEF OthersSame
  <2>2. QED BY <1>3, <1>5, <2>1 DEF InitClean, AllFree
<1>6. ASSUME controller'[b].inrq
      PROVE  bus'[b].phase \in {Abort, EnterInit, RetryWait}
             /\ \A m \in Mailboxes : ~box'[b][m].pending
  <2>1. CASE ~bus[b].started
    BY <1>1, <1>2, <1>3, <1>4, <1>6, <2>1 DEF InitClean, AllFree
  <2>2. CASE bus[b].started /\ NextPhase(b) = bus[b].phase
    <3>1. bus'[b].phase = bus[b].phase /\ controller' = controller
      BY <1>2, <1>4, <2>2 DEF Advanced
    <3>2. QED BY <1>1, <1>3, <1>6, <3>1 DEF InitClean, AllFree
  <2>3. CASE bus[b].started /\ NextPhase(b) # bus[b].phase
    <3>1. bus'[b].phase = NextPhase(b)
      BY <1>2, <2>3 DEF Advanced
    <3>2. controller'[b].inrq =
            CASE NextPhase(b) = EnterInit -> TRUE
              [] NextPhase(b) = LeaveInit -> FALSE
              [] OTHER -> controller[b].inrq
      BY <1>1, <1>4, <2>3 DEF Controller
    <3>3. CASE NextPhase(b) = EnterInit
      <4>1. bus[b].phase = Abort /\ AllFree(b)
        BY <2>3, <3>3
        DEF NextPhase, Ready, Abort, EnterInit, LeaveInit, BusSync, RetryWait
      <4>2. QED BY <1>1, <1>3, <3>1, <3>3, <4>1 DEF AllFree
    <3>4. CASE NextPhase(b) # EnterInit
      <4>1. NextPhase(b) # LeaveInit /\ controller[b].inrq
        BY <1>6, <3>2, <3>4
      <4>2. bus[b].phase \in {Abort, EnterInit, RetryWait} /\ AllFree(b)
        BY <1>1, <4>1 DEF InitClean
      <4>3. NextPhase(b) \in {Abort, EnterInit, RetryWait}
        BY <4>1, <4>2
        DEF NextPhase, Ready, Abort, EnterInit, LeaveInit, BusSync, RetryWait
      <4>4. QED BY <1>1, <1>3, <3>1, <4>2, <4>3 DEF AllFree
    <3>5. QED BY <3>3, <3>4
  <2>4. QED BY <2>1, <2>2, <2>3
<1>7. QED BY <1>5, <1>6 DEF InitClean, AllFree

LEMMA OthersClean ==
    ASSUME Inv, InitClean,
           \/ BeginService \/ Tick
           \/ \E lag \in 0 .. MaxLag : TryArm(lag)
           \/ Hardware
    PROVE  InitClean'
<1>1. \A i \in Buses : bus'[i].phase = bus[i].phase
  <2>1. CASE Tick
    BY <2>1 DEF Tick, Inv, TypeOK, BusState
  <2>2. CASE ~Tick
    BY <2>2 DEF BeginService, TryArm, Hardware, Release, ErrorState, InitAcknowledge
  <2>3. QED BY <2>1, <2>2
<1>2. \A i \in Buses, m \in Mailboxes : box'[i][m].pending => box[i][m].pending
  <2>1. CASE \E b \in Buses, m \in Mailboxes : Release(b, m)
    BY <2>1 DEF Release, Inv, TypeOK, Empty
  <2>2. CASE box' = box
    BY <2>2
  <2>3. QED
    BY <2>1, <2>2 DEF BeginService, Tick, TryArm, Hardware, ErrorState, InitAcknowledge,
                      hardware
<1>3. \A i \in Buses : controller'[i].inrq => controller[i].inrq
  <2>1. CASE \E b \in Buses, esr \in {"ok", "warning", "off"} : ErrorState(b, esr)
    BY <2>1 DEF ErrorState, Inv, TypeOK, Controller
  <2>2. CASE \E b \in Buses : InitAcknowledge(b)
    BY <2>2 DEF InitAcknowledge, Inv, TypeOK, Controller
  <2>3. CASE controller' = controller
    BY <2>3
  <2>4. QED
    BY <2>1, <2>2, <2>3 DEF BeginService, Tick, TryArm, Hardware, Release, hardware
<1>4. QED BY <1>1, <1>2, <1>3, CleanKept DEF PhasesHold, NoNewFrames

----------------------------------------------------------------------------
(* Deadlines.  Between two looks of the service at a bus pass at most      *)
(* MaxGap units: a command good at one is at most MaxGap - 1 late at the   *)
(* next, is aborted there, and after the abort timeout its bus fails.      *)

Checked(b) ==
    service.at # "idle" /\ (b < service.bus \/ (b = service.bus /\ service.at = "advance"))

(* Time since the service looked at the bus. *)
SinceCheck(b) == IF Checked(b) THEN 0 ELSE sinceService

InTime(e, since) ==
    IF e.abort_requested
    THEN /\ e.left >= 2 - MaxGap - AbortTimeout - since
         /\ e.wait < AbortTimeout => e.left + e.wait >= 1 - MaxGap
    ELSE e.left >= 1 - since

Timely ==
    s_outputs_armed =>
        \A b \in Buses, m \in Mailboxes :
            box[b][m].pending => (box[b][m].nonzero => InTime(s_tx[b][m], SinceCheck(b)))

LEMMA EntryTimes ==
    ASSUME NEW e \in Entry
    PROVE  e.left \in Int /\ e.wait \in Nat /\ e.wait <= AbortTimeout
BY SizeAssumption DEF Entry, TimeLeft, MaxOverdue

LEMMA SinceType ==
    ASSUME Inv, NEW b \in Buses
    PROVE  SinceCheck(b) \in 0 .. MaxGap
BY TimesType DEF SinceCheck, Inv, TypeOK

(* Aborting a command in time, now or at the look of the service. *)
LEMMA AbortInTime ==
    ASSUME NEW e \in Entry, NEW since \in 0 .. MaxGap, ~e.abort_requested,
           InTime(e, since)
    PROVE  InTime(AbortEntry(e), 0) /\ InTime(AbortEntry(e), since)
<1>1. /\ AbortEntry(e).abort_requested /\ AbortEntry(e).wait = 0
      /\ AbortEntry(e).left = e.left
  BY DEF AbortEntry, Entry
<1>2. e.left \in Int /\ e.left >= 1 - since
  BY SizeAssumption DEF InTime, Entry, TimeLeft, MaxOverdue
<1>3. MaxGap \in Nat /\ AbortTimeout \in Nat /\ AbortTimeout >= 1 /\ since \in Nat
      /\ since <= MaxGap
  BY SizeAssumption
<1>4. e.left >= 2 - MaxGap - AbortTimeout - 0 /\ e.left + 0 >= 1 - MaxGap
      /\ e.left >= 2 - MaxGap - AbortTimeout - since
  BY <1>2, <1>3
<1>5. QED BY <1>1, <1>4 DEF InTime

(* What obeyed at the look of the service is good for another period. *)
LEMMA ObeyingInTime ==
    ASSUME NEW e \in Entry, NEW since \in 0 .. MaxGap, InTime(e, since),
           ~e.abort_requested => e.left > 0,
           e.abort_requested => e.wait < AbortTimeout
    PROVE  InTime(e, 0)
<1>1. e.left \in Int /\ e.wait \in Nat
  BY EntryTimes
<1>2. MaxGap \in Nat /\ AbortTimeout \in Nat /\ AbortTimeout >= 1 /\ since \in Nat
  BY SizeAssumption
<1>3. CASE e.abort_requested
  <2>1. e.left + e.wait >= 1 - MaxGap /\ e.wait < AbortTimeout
    BY <1>3 DEF InTime
  <2>2. e.left >= 2 - MaxGap - AbortTimeout - 0
    BY <1>1, <1>2, <2>1
  <2>3. QED BY <1>3, <2>1, <2>2 DEF InTime
<1>4. CASE ~e.abort_requested
  BY <1>1, <1>4 DEF InTime
<1>5. QED BY <1>3, <1>4

(* A command that is kept or aborted stays in time. *)
LEMMA KeptInTime ==
    ASSUME NEW e \in Entry, NEW g, KeptEntry(e, g), NEW since \in 0 .. MaxGap,
           InTime(e, since)
    PROVE  InTime(g, since)
BY AbortInTime DEF KeptEntry

LEMMA NewInTime ==
    ASSUME NEW id \in Ids, NEW left \in TimeLeft, left > 0, NEW since \in 0 .. MaxGap
    PROVE  InTime(NewEntry(id, TRUE, left), since)
<1>1. left \in Int /\ since \in Nat
  BY SizeAssumption DEF TimeLeft, MaxOverdue
<1>2. left >= 1 - since
  BY <1>1
<1>3. QED BY <1>2 DEF InTime, NewEntry

LEMMA OlderInTime ==
    ASSUME NEW e \in Entry, e.nonzero, NEW since \in 0 .. MaxGap, since + 1 <= MaxGap,
           InTime(e, since)
    PROVE  InTime(OlderEntry(e), since + 1)
<1>1. e.left \in Int /\ e.wait \in Nat /\ e.wait <= AbortTimeout
  BY EntryTimes
<1>2. MaxGap \in Nat /\ AbortTimeout \in Nat /\ AbortTimeout >= 1 /\ since \in Nat
  BY SizeAssumption
<1>3. e.left > -MaxOverdue
  BY <1>1, <1>2 DEF InTime, MaxOverdue
<1>4. OlderEntry(e).left = e.left - 1
  BY <1>3, OlderKeeps
<1>5. CASE e.abort_requested
  <2>1. OlderEntry(e).abort_requested /\ OlderEntry(e).wait = Older(e.wait, AbortTimeout)
    BY <1>5, OlderKeeps
  <2>2. OlderEntry(e).left >= 2 - MaxGap - AbortTimeout - (since + 1)
    BY <1>1, <1>2, <1>4, <1>5 DEF InTime
  <2>3. OlderEntry(e).wait < AbortTimeout =>
          OlderEntry(e).left + OlderEntry(e).wait >= 1 - MaxGap
    BY <1>1, <1>2, <1>4, <1>5, <2>1 DEF InTime, Older
  <2>4. QED BY <2>1, <2>2, <2>3 DEF InTime
<1>6. CASE ~e.abort_requested
  <2>1. ~OlderEntry(e).abort_requested
    BY <1>6, OlderKeeps
  <2>2. OlderEntry(e).left >= 1 - (since + 1)
    BY <1>1, <1>2, <1>4, <1>6 DEF InTime
  <2>3. QED BY <2>1, <2>2 DEF InTime
<1>7. QED BY <1>5, <1>6

(* A call that keeps the frames, between two looks of the service. *)
LEMMA TimelyKept ==
    ASSUME Inv, Tracked, Timely, Quiet \/ Latched,
           \A b \in Buses : SinceCheck(b)' = SinceCheck(b)
    PROVE  Timely'
<1>1. ASSUME Quiet, s_outputs_armed', NEW b \in Buses, NEW m \in Mailboxes,
             box'[b][m].pending, box'[b][m].nonzero
      PROVE  InTime(s_tx'[b][m], SinceCheck(b)')
  <2>1. box[b][m].pending /\ box[b][m].nonzero /\ s_outputs_armed
    BY <1>1 DEF Quiet, SameBoxes, SameFrame
  <2>2. s_tx[b][m] \in Entry /\ KeptEntry(s_tx[b][m], s_tx'[b][m])
    BY <1>1, <2>1, FrameTypes DEF Tracked, Quiet, KeptTx
  <2>3. InTime(s_tx[b][m], SinceCheck(b))
    BY <2>1 DEF Timely
  <2>4. InTime(s_tx'[b][m], SinceCheck(b))
    BY <2>2, <2>3, SinceType, KeptInTime
  <2>5. SinceCheck(b)' = SinceCheck(b)
    OBVIOUS
  <2>6. QED BY <2>4, <2>5
<1>2. CASE Latched
  BY <1>2 DEF Latched, Timely
<1>3. CASE Quiet
  BY <1>1, <1>3 DEF Timely
<1>4. QED BY <1>2, <1>3

LEMMA WriteTimely ==
    ASSUME Inv, Tracked, Timely, NEW b \in Buses, NEW id \in Ids,
           NEW nonzero \in BOOLEAN, NEW left \in TimeLeft, Write(b, id, nonzero, left)
    PROVE  Timely'
<1>1. service' = service /\ sinceService' = sinceService
  BY DEF Write
<1>2. \A i \in Buses : SinceCheck(i)' = SinceCheck(i)
  BY <1>1 DEF SinceCheck, Checked
<1>3. CASE Quiet \/ Latched
  BY <1>2, <1>3, TimelyKept
<1>4. ASSUME NEW m \in Mailboxes, Filled(b, m, id, nonzero, left)
      PROVE  Timely'
  <2>1. ASSUME s_outputs_armed', NEW i \in Buses, NEW n \in Mailboxes,
               box'[i][n].pending, box'[i][n].nonzero
        PROVE  InTime(s_tx'[i][n], SinceCheck(i))
    <3>1. CASE i = b /\ n = m
      <4>1. s_tx'[b][m] = NewEntry(id, nonzero, left) /\ box'[b][m].nonzero = nonzero
        BY <1>4 DEF Filled, NewFrame
      <4>2. nonzero = TRUE /\ left > 0
        BY <1>4, <2>1, <3>1, <4>1 DEF Filled
      <4>3. QED BY <3>1, <4>1, <4>2, NewInTime, SinceType
    <3>2. CASE i # b \/ n # m
      <4>1. box[i][n].pending /\ box[i][n].nonzero /\ s_outputs_armed
        BY <1>4, <2>1, <3>2 DEF Filled, SameFrame
      <4>2. s_tx[i][n] \in Entry /\ KeptEntry(s_tx[i][n], s_tx'[i][n])
        BY <1>4, <3>2, <4>1, FrameTypes DEF Tracked, Filled
      <4>3. InTime(s_tx[i][n], SinceCheck(i))
        BY <4>1 DEF Timely
      <4>4. QED BY <4>2, <4>3, SinceType, KeptInTime
    <3>3. QED BY <3>1, <3>2
  <2>2. QED BY <1>2, <2>1 DEF Timely
<1>5. QED BY <1>3, <1>4, WriteEffect

(* The look of the service at a bus. *)
LEMMA CheckBusTimely ==
    ASSUME Inv, Tracked, Timely, CheckBus
    PROVE  Timely'
<1> DEFINE b == service.bus
<1>1. /\ b \in Buses /\ service.at = "check"
      /\ service'.at = "advance" /\ service'.bus = b /\ sinceService' = sinceService
  BY DEF Inv, TypeOK, Service, CheckBus
<1>2. \A i \in Buses : IF i = b THEN SinceCheck(i)' = 0
                        ELSE SinceCheck(i)' = SinceCheck(i)
  BY <1>1 DEF SinceCheck, Checked
<1>3. CASE Latched
  BY <1>3 DEF Latched, Timely
<1>4. CASE /\ Quiet
           /\ bus' = bus
           /\ bus[b].started /\ bus[b].phase = Ready =>
                 \A m \in Mailboxes : box[b][m].pending /\ s_tx[b][m].active =>
                    /\ m \notin Stuck(b)
                    /\ s_tx'[b][m] = IF m \in Expired(b) THEN AbortEntry(s_tx[b][m])
                                     ELSE s_tx[b][m]
  <2>1. ASSUME s_outputs_armed', NEW i \in Buses, NEW m \in Mailboxes,
               box'[i][m].pending, box'[i][m].nonzero
        PROVE  InTime(s_tx'[i][m], SinceCheck(i)')
    <3>1. box[i][m].pending /\ box[i][m].nonzero /\ s_outputs_armed
      BY <1>4, <2>1 DEF Quiet, SameBoxes, SameFrame
    <3>2. /\ s_tx[i][m] \in Entry /\ KeptEntry(s_tx[i][m], s_tx'[i][m])
          /\ s_tx[i][m].active /\ s_tx[i][m].nonzero
      BY <1>4, <3>1, FrameTypes DEF Tracked, Quiet, KeptTx
    <3>3. InTime(s_tx[i][m], SinceCheck(i)) /\ SinceCheck(i) \in 0 .. MaxGap
      BY <3>1, SinceType DEF Timely
    <3>4. CASE i # b
      BY <1>2, <3>2, <3>3, <3>4, KeptInTime
    <3>5. CASE i = b
      <4>1. bus[b].started /\ bus[b].phase = Ready
        BY <3>1, <3>5 DEF Inv, FramesStarted, OnlineWhenArmed
      <4>2. /\ m \notin Stuck(b)
            /\ s_tx'[b][m] = IF m \in Expired(b) THEN AbortEntry(s_tx[b][m])
                             ELSE s_tx[b][m]
        BY <1>4, <3>1, <3>2, <3>5, <4>1
      <4>3. CASE m \in Expired(b)
        <5>1. ~s_tx[b][m].abort_requested
          BY <4>3 DEF Expired
        <5>2. InTime(AbortEntry(s_tx[b][m]), 0)
          BY <3>2, <3>3, <3>5, <5>1, AbortInTime
        <5>3. QED BY <1>2, <3>5, <4>2, <4>3, <5>2
      <4>4. CASE m \notin Expired(b)
        <5>1. s_tx[b][m].left \in Int /\ s_tx[b][m].wait \in Int /\ AbortTimeout \in Int
          BY <3>2, <3>5, EntryTimes, SizeAssumption
        <5>2. ~s_tx[b][m].abort_requested => s_tx[b][m].left > 0
          BY <3>1, <3>2, <3>5, <4>4, <5>1 DEF Expired
        <5>3. s_tx[b][m].abort_requested => s_tx[b][m].wait < AbortTimeout
          BY <3>1, <3>2, <3>5, <4>2, <5>1 DEF Stuck
        <5>4. InTime(s_tx[b][m], 0)
          BY <3>2, <3>3, <3>5, <5>2, <5>3, ObeyingInTime
        <5>5. QED BY <1>2, <3>5, <4>2, <4>4, <5>4
      <4>5. QED BY <4>3, <4>4
    <3>6. QED BY <3>4, <3>5
  <2>2. QED BY <2>1 DEF Timely
<1>5. QED BY <1>3, <1>4, CheckBusEffect

LEMMA AdvanceTimely ==
    ASSUME Inv, Tracked, Timely, AdvanceBus
    PROVE  Timely'
<1> DEFINE b == service.bus
<1>1. b \in Buses /\ service.at = "advance" /\ BusCount \in Nat
  BY SizeAssumption DEF Inv, TypeOK, Service, AdvanceBus
<1>2. CASE b < BusCount
  <2>1. service'.at = "check" /\ service'.bus = b + 1 /\ sinceService' = sinceService
    BY <1>2 DEF AdvanceBus, Inv, TypeOK, Service
  <2>2. \A i \in Buses : SinceCheck(i)' = SinceCheck(i)
    BY <1>1, <2>1 DEF SinceCheck, Checked, Buses
  <2>3. QED BY <2>2, AdvanceEffect, TimelyKept
<1>3. CASE ~(b < BusCount)
  <2>1. sinceService' = 0 /\ service'.at = "idle"
    BY <1>3 DEF AdvanceBus, EndService, ServiceIdle
  <2>2. \A i \in Buses : SinceCheck(i)' = SinceCheck(i)
    BY <1>1, <1>3, <2>1 DEF SinceCheck, Checked, Buses
  <2>3. QED BY <2>2, AdvanceEffect, TimelyKept
<1>4. QED BY <1>2, <1>3

LEMMA TickTimely ==
    ASSUME Inv, Tracked, Timely, Tick
    PROVE  Timely'
<1>1. /\ box' = box /\ s_outputs_armed' = s_outputs_armed
      /\ service.at = "idle" /\ service' = service
      /\ sinceService' = sinceService + 1 /\ sinceService < MaxGap
      /\ sinceService \in 0 .. MaxGap
  BY DEF Tick, hardware, Inv, TypeOK
<1>2. \A b \in Buses : SinceCheck(b) = sinceService /\ SinceCheck(b)' = sinceService + 1
  BY <1>1 DEF SinceCheck, Checked
<1>3. ASSUME s_outputs_armed, NEW b \in Buses, NEW m \in Mailboxes,
             box[b][m].pending, box[b][m].nonzero
      PROVE  InTime(s_tx'[b][m], sinceService + 1)
  <2>1. s_tx[b][m] \in Entry /\ s_tx[b][m].nonzero
    BY <1>3, FrameTypes DEF Tracked
  <2>2. s_tx'[b][m] = OlderEntry(s_tx[b][m])
    BY DEF Tick
  <2>3. InTime(s_tx[b][m], sinceService)
    BY <1>2, <1>3 DEF Timely
  <2>4. sinceService + 1 <= MaxGap
    BY <1>1, SizeAssumption
  <2>5. QED BY <1>1, <2>1, <2>2, <2>3, <2>4, OlderInTime
<1>4. QED BY <1>1, <1>2, <1>3 DEF Timely

LEMMA ArmTimely ==
    ASSUME Inv, Timely, DisarmedOld, NEW lag, TryArm(lag)
    PROVE  Timely'
<1>1. /\ s_tx' = s_tx /\ box' = box /\ service' = service /\ sinceService' = sinceService
      /\ s_outputs_armed' => s_outputs_armed \/ MayArm(lag)
  BY DEF TryArm, hardware
<1>2. \A b \in Buses : SinceCheck(b)' = SinceCheck(b)
  BY <1>1 DEF SinceCheck, Checked
<1>3. CASE s_outputs_armed
  BY <1>1, <1>2, <1>3 DEF Timely
<1>4. CASE ~s_outputs_armed /\ MayArm(lag)
  <2>1. \A b \in Buses, m \in Mailboxes : box[b][m].pending => ~box[b][m].nonzero
    BY <1>4, ArmingForgets DEF DisarmedOld
  <2>2. QED BY <1>1, <2>1 DEF Timely
<1>5. CASE ~s_outputs_armed'
  BY <1>5 DEF Timely
<1>6. QED BY <1>1, <1>3, <1>4, <1>5

LEMMA OthersTimely ==
    ASSUME Inv, Timely, BeginService \/ Hardware
    PROVE  Timely'
<1>1. s_tx' = s_tx /\ s_outputs_armed' = s_outputs_armed /\ sinceService' = sinceService
  BY DEF BeginService, Hardware, Release, ErrorState, InitAcknowledge, outputVars
<1>2. \A b \in Buses : SinceCheck(b)' = SinceCheck(b)
  <2>1. CASE BeginService
    <3>1. /\ service.at = "idle" /\ service'.at = "check" /\ service'.bus = 1
      BY <2>1 DEF BeginService
    <3>2. QED BY <1>1, <3>1, SizeAssumption DEF SinceCheck, Checked, Buses
  <2>2. CASE service' = service
    BY <1>1, <2>2 DEF SinceCheck, Checked
  <2>3. QED BY <2>1, <2>2 DEF Hardware, Release, ErrorState, InitAcknowledge
<1>3. \A b \in Buses, m \in Mailboxes : box'[b][m].pending => box'[b][m] = box[b][m]
  <2>1. CASE \E b \in Buses, m \in Mailboxes : Release(b, m)
    BY <2>1 DEF Release, Inv, TypeOK, Empty
  <2>2. CASE box' = box
    BY <2>2
  <2>3. QED
    BY <2>1, <2>2 DEF BeginService, Hardware, ErrorState, InitAcknowledge, hardware
<1>4. QED BY <1>1, <1>2, <1>3 DEF Timely

----------------------------------------------------------------------------
(* The second invariant, on top of the first. *)
DriverInv == Inv /\ FramesInv /\ InitClean /\ Timely

LEMMA InitDriver ==
    ASSUME Init
    PROVE  DriverInv
<1>1. /\ \A b \in Buses, m \in Mailboxes : ~box[b][m].pending
      /\ \A b \in Buses : ~controller[b].inrq
  BY DEF Init, Empty
<1>2. QED
  BY <1>1, InitInv DEF DriverInv, FramesInv, Tracked, OneOfAnId, DisarmedOld, Silenced,
                       DisarmedIsSilent, InitClean, Timely

LEMMA WriteParameters ==
    ASSUME NEW b \in Buses, NEW id \in Ids,
           \/ Write(b, id, FALSE, CommandTtl)
           \/ \E left \in 0 .. CommandTtl : Write(b, id, TRUE, left)
    PROVE  \E nonzero \in BOOLEAN, left \in TimeLeft : Write(b, id, nonzero, left)
<1>1. CommandTtl \in TimeLeft
  BY SizeAssumption, TimesType
<1>2. QED BY <1>1, TimesType

LEMMA DriverStep ==
    ASSUME DriverInv, [Next]_vars
    PROVE  DriverInv'
<1>1. Inv' /\ Inv /\ FramesInv /\ Tracked /\ DisarmedOld /\ InitClean /\ Timely
  BY InvStep DEF DriverInv, FramesInv
<1>2. CASE UNCHANGED vars
  BY <1>1, <1>2
  DEF vars, DriverInv, FramesInv, Tracked, OneOfAnId, DisarmedOld, Silenced,
      DisarmedIsSilent, InitClean, AllFree, Timely, SinceCheck, Checked
<1>3. CASE BeginService
  <2>1. Quiet
    BY <1>3, Zenon DEF BeginService, outputVars, hardware, Quiet, SameBoxes, SameFrame,
                       KeptTx, KeptEntry
  <2>2. QED BY <1>1, <1>3, <2>1, FramesQuiet, OthersClean, OthersTimely DEF DriverInv
<1>4. CASE CheckBus
  <2>1. Quiet \/ Latched
    BY <1>1, <1>4, CheckBusEffect
  <2>2. QED BY <1>1, <1>4, <2>1, FramesQuiet, FramesLatched, CheckBusClean, CheckBusTimely
            DEF DriverInv
<1>5. CASE AdvanceBus
  BY <1>1, <1>5, AdvanceEffect, FramesQuiet, AdvanceClean, AdvanceTimely DEF DriverInv
<1>6. CASE \E lag \in 0 .. MaxLag : TryArm(lag)
  BY <1>1, <1>6, FramesArmed, OthersClean, ArmTimely DEF DriverInv
<1>7. ASSUME NEW b \in Buses, NEW id \in Ids, NEW nonzero \in BOOLEAN,
             NEW left \in TimeLeft, Write(b, id, nonzero, left)
      PROVE  DriverInv'
  <2>1. FramesInv'
    BY <1>1, <1>7, WriteEffect, FramesQuiet, FramesLatched, FramesFilled
  <2>2. QED BY <1>1, <1>7, <2>1, WriteClean, WriteTimely DEF DriverInv
<1>8. ASSUME NEW b \in Buses, NEW m \in Mailboxes, Release(b, m)
      PROVE  DriverInv'
  <2>1. Hardware
    BY <1>8 DEF Hardware
  <2>2. QED BY <1>1, <1>8, <2>1, FramesReleased, OthersClean, OthersTimely DEF DriverInv
<1>9. ASSUME NEW b \in Buses,
             (\E esr \in {"ok", "warning", "off"} : ErrorState(b, esr))
               \/ InitAcknowledge(b)
      PROVE  DriverInv'
  <2>1. Hardware
    BY <1>9 DEF Hardware
  <2>2. Quiet
    BY <1>9, Zenon DEF ErrorState, InitAcknowledge, outputVars, Quiet, SameBoxes,
                       SameFrame, KeptTx, KeptEntry
  <2>3. QED BY <1>1, <2>1, <2>2, FramesQuiet, OthersClean, OthersTimely DEF DriverInv
<1>10. CASE Tick
  BY <1>1, <1>10, FramesTick, OthersClean, TickTimely DEF DriverInv
<1>11. QED
  BY <1>2, <1>3, <1>4, <1>5, <1>6, <1>7, <1>8, <1>9, <1>10, WriteParameters
  DEF Next, ServiceStep, Hardware

LEMMA DriverHolds == Spec => []DriverInv
<1>1. Init => DriverInv
  BY InitDriver
<1>2. DriverInv /\ [Next]_vars => DriverInv'
  BY DriverStep
<1>3. QED BY <1>1, <1>2, PTL DEF Spec

(* A controller is in initialisation only with empty mailboxes, through     *)
(* every timeout and retry of the recovery: bsp_can.c recover_bus.          *)
THEOREM InitIsClean == Spec => []NothingAcrossInit
<1>1. DriverInv => NothingAcrossInit
  BY DEF DriverInv, InitClean, NothingAcrossInit
<1>2. QED BY <1>1, DriverHolds, PTL

(* While armed, no command in a mailbox is later than the abort timeout and *)
(* two service periods: bsp_can.c service_deadlines, write_frame.           *)
THEOREM NeverStale == Spec => []NoStaleCommand
<1>1. ASSUME DriverInv
      PROVE  NoStaleCommand
  <2>1. ASSUME s_outputs_armed, NEW b \in Buses, NEW m \in Mailboxes,
               box[b][m].pending, box[b][m].nonzero
        PROVE  s_tx[b][m].active
               /\ s_tx[b][m].left >= -(AbortTimeout + 2 * (MaxGap - 1))
    <3>1. s_tx[b][m].active /\ s_tx[b][m] \in Entry
      BY <1>1, <2>1, FrameTypes DEF DriverInv, FramesInv, Tracked
    <3>2. InTime(s_tx[b][m], SinceCheck(b)) /\ SinceCheck(b) \in 0 .. MaxGap
      BY <1>1, <2>1, SinceType DEF DriverInv, Timely
    <3>3. s_tx[b][m].left \in Int
      BY <3>1, EntryTimes
    <3>4. MaxGap \in Nat \ {0} /\ AbortTimeout \in Nat \ {0}
      BY SizeAssumption
    <3>5. \/ s_tx[b][m].left >= 2 - MaxGap - AbortTimeout - SinceCheck(b)
          \/ s_tx[b][m].left >= 1 - SinceCheck(b)
      BY <3>2 DEF InTime
    <3>6. s_tx[b][m].left >= -(AbortTimeout + 2 * (MaxGap - 1))
      BY <3>2, <3>3, <3>4, <3>5
    <3>7. QED BY <3>1, <3>6
  <2>2. QED BY <2>1 DEF NoStaleCommand
<1>2. QED BY <1>1, DriverHolds, PTL

(* With the outputs disarmed every command in a mailbox is being aborted,   *)
(* if HAL_CAN_AbortTxRequest never fails: bsp_can.c latch_bus_fault.        *)
THEOREM SilentWhenDisarmed == ASSUME ~AbortMayFail PROVE Spec => []DisarmedIsSilent
<1>1. DriverInv => DisarmedIsSilent
  BY DEF DriverInv, FramesInv, Silenced
<1>2. QED BY <1>1, DriverHolds, PTL

----------------------------------------------------------------------------
(* CanPort *)

(* A step is of one of these kinds, and each is a step of CanPort. *)
LEMMA StepKinds ==
    ASSUME DriverInv, Next
    PROVE  \/ Quiet \/ Latched
           \/ \E b \in Buses, m \in Mailboxes, id \in Ids, nonzero \in BOOLEAN,
                 left \in TimeLeft : Filled(b, m, id, nonzero, left)
           \/ \E b \in Buses, m \in Mailboxes : Release(b, m)
           \/ \E lag \in 0 .. MaxLag : TryArm(lag)
           \/ UNCHANGED <<s_outputs_armed, box>>
<1>1. Inv
  BY DEF DriverInv
<1>2. CASE ServiceStep
  BY <1>1, <1>2, CheckBusEffect, AdvanceEffect
  DEF ServiceStep, BeginService, outputVars, hardware
<1>3. ASSUME NEW b \in Buses, NEW id \in Ids, NEW nonzero \in BOOLEAN,
             NEW left \in TimeLeft, Write(b, id, nonzero, left)
      PROVE  \/ Quiet \/ Latched
             \/ \E m \in Mailboxes : Filled(b, m, id, nonzero, left)
  BY <1>1, <1>3, WriteEffect
<1>4. CASE Hardware
  BY <1>4 DEF Hardware, ErrorState, InitAcknowledge, outputVars
<1>5. CASE Tick
  BY <1>5 DEF Tick, hardware
<1>6. CASE \E b \in Buses, id \in Ids :
              \/ Write(b, id, FALSE, CommandTtl)
              \/ \E left \in 0 .. CommandTtl : Write(b, id, TRUE, left)
  <2>1. PICK b \in Buses, id \in Ids :
               \E nonzero \in BOOLEAN, left \in TimeLeft : Write(b, id, nonzero, left)
    BY <1>6, WriteParameters
  <2>2. QED BY <1>3, <2>1
<1>7. QED BY <1>2, <1>4, <1>5, <1>6 DEF Next

LEMMA MarkedView ==
    ASSUME NEW i, NEW id \in Ids, NEW nonzero \in BOOLEAN, NEW old \in BOOLEAN
    PROVE  [[bus |-> i, id |-> id, nonzero |-> nonzero, old |-> old] EXCEPT !.old = TRUE]
             = [bus |-> i, id |-> id, nonzero |-> nonzero, old |-> TRUE]
<1> DEFINE f == [[bus |-> i, id |-> id, nonzero |-> nonzero, old |-> old] EXCEPT !.old = TRUE]
           g == [bus |-> i, id |-> id, nonzero |-> nonzero, old |-> TRUE]
<1>1. /\ f \in [bus : {i}, id : Ids, nonzero : BOOLEAN, old : BOOLEAN]
      /\ g \in [bus : {i}, id : Ids, nonzero : BOOLEAN, old : BOOLEAN]
  OBVIOUS
<1>2. f.bus = g.bus /\ f.id = g.id /\ f.nonzero = g.nonzero /\ f.old = g.old
  OBVIOUS
<1> HIDE DEF f, g
<1>3. f = g
  BY <1>1, <1>2
<1>4. QED BY <1>3 DEF f, g

LEMMA OneViewEach ==
    ASSUME DriverInv, NEW p \in Occupied, NEW q \in Occupied,
           View(p).bus = View(q).bus, View(p).id = View(q).id
    PROVE  p = q
BY DEF View, Occupied, DriverInv, FramesInv, OneOfAnId

LEMMA QuietRefines ==
    ASSUME DriverInv, Quiet
    PROVE  UNCHANGED <<s_outputs_armed, Flight>>
<1>1. \A p \in Buses \X Mailboxes : SameFrame(box[p[1]][p[2]], box'[p[1]][p[2]])
  BY DEF Quiet, SameBoxes
<1>2. Occupied' = Occupied
  BY <1>1 DEF Occupied, SameFrame
<1>3. \A p \in Occupied : View(p)' = View(p)
  BY <1>1, Zenon DEF Occupied, View, SameFrame
<1>4. Flight' = Flight
  BY <1>2, <1>3, Zenon DEF Flight
<1>5. QED BY <1>4 DEF Quiet

LEMMA LatchedRefines ==
    ASSUME DriverInv, Latched
    PROVE  Port!Next
<1>1. ASSUME NEW p \in Buses \X Mailboxes
      PROVE  /\ box'[p[1]][p[2]].pending <=> box[p[1]][p[2]].pending
             /\ box[p[1]][p[2]].pending => View(p)' = [View(p) EXCEPT !.old = TRUE]
  <2>1. FaultFrame(box[p[1]][p[2]], box'[p[1]][p[2]])
    BY DEF Latched
  <2>2. CASE box[p[1]][p[2]].pending
    <3>1. box[p[1]][p[2]] \in Frame
      BY <2>2, FrameTypes DEF DriverInv
    <3>2. View(p)' = [bus |-> p[1], id |-> box[p[1]][p[2]].id,
                      nonzero |-> box[p[1]][p[2]].nonzero, old |-> TRUE]
      BY <2>1, <2>2, Zenon DEF View, FaultFrame
    <3>3. /\ box[p[1]][p[2]].id \in Ids /\ box[p[1]][p[2]].nonzero \in BOOLEAN
          /\ box[p[1]][p[2]].old \in BOOLEAN
      BY <3>1 DEF Frame
    <3>4. [View(p) EXCEPT !.old = TRUE] =
             [bus |-> p[1], id |-> box[p[1]][p[2]].id,
              nonzero |-> box[p[1]][p[2]].nonzero, old |-> TRUE]
      BY <3>3, MarkedView DEF View
    <3>5. QED BY <2>1, <3>2, <3>4, Zenon DEF FaultFrame
  <2>3. QED BY <2>1, <2>2 DEF FaultFrame
<1>2. Occupied' = Occupied
  BY <1>1 DEF Occupied
<1>3. \A p \in Occupied : View(p)' = [View(p) EXCEPT !.old = TRUE]
  BY <1>1 DEF Occupied
<1>4. Flight' = {[View(p) EXCEPT !.old = TRUE] : p \in Occupied}
  BY <1>2, <1>3, Zenon DEF Flight
<1>5. {[View(p) EXCEPT !.old = TRUE] : p \in Occupied}
        = {[f EXCEPT !.old = TRUE] : f \in Flight}
  BY Zenon DEF Flight
<1>6. s_outputs_armed' = FALSE
  BY DEF Latched
<1>7. QED BY <1>4, <1>5, <1>6, Zenon DEF Port!Next, Port!Fault

LEMMA FilledRefines ==
    ASSUME DriverInv, NEW b \in Buses, NEW m \in Mailboxes, NEW id \in Ids,
           NEW nonzero \in BOOLEAN, NEW left \in TimeLeft,
           Filled(b, m, id, nonzero, left)
    PROVE  Port!Next
<1> DEFINE new == [bus |-> b, id |-> id, nonzero |-> nonzero, old |-> FALSE]
<1>1. \A p \in Buses \X Mailboxes : p # <<b, m>> =>
         SameFrame(box[p[1]][p[2]], box'[p[1]][p[2]])
  BY DEF Filled
<1>2. /\ box'[b][m].pending = TRUE /\ box'[b][m].id = id
      /\ box'[b][m].nonzero = nonzero /\ box'[b][m].old = FALSE
      /\ ~box[b][m].pending
  BY DEF Filled, NewFrame
<1>3. Occupied' = Occupied \cup {<<b, m>>} /\ <<b, m>> \notin Occupied
  BY <1>1, <1>2 DEF Occupied, SameFrame
<1>4. \A p \in Occupied : View(p)' = View(p)
  BY <1>1, <1>3, Zenon DEF Occupied, View, SameFrame
<1>5. View(<<b, m>>)' = new
  BY <1>2, Zenon DEF View
<1>6. Flight' = Flight \cup {new}
  BY <1>3, <1>4, <1>5 DEF Flight
<1>7. \A f \in Flight : <<f.bus, f.id>> # <<b, id>>
  <2>1. \A n \in Mailboxes : box[b][n].pending => box[b][n].id # id
    BY DEF Filled, InFlight, DriverInv, FramesInv, Tracked
  <2>2. QED BY <2>1 DEF Flight, View, Occupied
<1>8. (nonzero => s_outputs_armed) /\ s_outputs_armed' = s_outputs_armed
  BY DEF Filled
<1>9. QED BY <1>6, <1>7, <1>8, Zenon DEF Port!Next, Port!Accept

LEMMA ReleaseRefines ==
    ASSUME DriverInv, NEW b \in Buses, NEW m \in Mailboxes, Release(b, m)
    PROVE  Port!Next
<1>1. /\ box[b][m].pending /\ box' = [box EXCEPT ![b][m] = Empty]
      /\ s_outputs_armed' = s_outputs_armed
  BY DEF Release, outputVars
<1>2. \A p \in Buses \X Mailboxes :
         box'[p[1]][p[2]] = IF p = <<b, m>> THEN Empty ELSE box[p[1]][p[2]]
  BY <1>1 DEF DriverInv, Inv, TypeOK
<1>3. <<b, m>> \in Occupied /\ Occupied' = Occupied \ {<<b, m>>}
  BY <1>1, <1>2 DEF Occupied, Empty
<1>4. \A p \in Occupied \ {<<b, m>>} : View(p)' = View(p)
  BY <1>2, Zenon DEF View, Occupied
<1>5. \A p \in Occupied : View(p) = View(<<b, m>>) => p = <<b, m>>
  BY <1>3, OneViewEach
<1>6. Flight' = Flight \ {View(<<b, m>>)}
  <2>1. Flight' = {View(p) : p \in Occupied \ {<<b, m>>}}
    BY <1>3, <1>4, Zenon DEF Flight
  <2>2. {View(p) : p \in Occupied \ {<<b, m>>}} = Flight \ {View(<<b, m>>)}
    BY <1>3, <1>5 DEF Flight
  <2>3. QED BY <2>1, <2>2
<1>7. View(<<b, m>>) \in Flight
  BY <1>3, Zenon DEF Flight
<1>8. QED BY <1>1, <1>6, <1>7, Zenon DEF Port!Next, Port!Leave

LEMMA ArmRefines ==
    ASSUME DriverInv, NEW lag, TryArm(lag)
    PROVE  [Port!Next]_<<s_outputs_armed, Flight>>
<1>1. /\ s_outputs_armed' = (s_outputs_armed \/ MayArm(lag)) /\ box' = box
      /\ s_outputs_armed \in BOOLEAN
  BY DEF TryArm, hardware, DriverInv, Inv, TypeOK
<1>2. Flight' = Flight
  BY <1>1 DEF Flight, View, Occupied
<1>3. CASE s_outputs_armed' = s_outputs_armed
  BY <1>2, <1>3
<1>4. CASE s_outputs_armed' # s_outputs_armed
  <2>1. s_outputs_armed' = TRUE /\ MayArm(lag)
    BY <1>1, <1>4, Zenon
  <2>2. \A b \in Buses, m \in Mailboxes : box[b][m].pending => ~box[b][m].old
    BY <2>1, ArmingForgets DEF DriverInv
  <2>3. \A f \in Flight : ~f.old
    BY <2>2 DEF Flight, View, Occupied
  <2>4. QED BY <1>2, <2>1, <2>3, Zenon DEF Port!Next, Port!Arm
<1>5. QED BY <1>3, <1>4

LEMMA StepRefines ==
    ASSUME DriverInv, [Next]_vars
    PROVE  [Port!Next]_<<s_outputs_armed, Flight>>
<1>1. CASE UNCHANGED <<s_outputs_armed, box>>
  BY <1>1 DEF Flight, View, Occupied
<1>2. CASE Next
  BY <1>1, <1>2, StepKinds, QuietRefines, LatchedRefines, FilledRefines,
     ReleaseRefines, ArmRefines
<1>3. QED BY <1>1, <1>2 DEF vars

(* The driver implements what it promises to its users: every call, fault   *)
(* and answer of the hardware is one step of CanPort, or none.              *)
THEOREM ImplementsPort == Spec => PortSpec
<1>1. Init => Port!Init
  BY DEF Init, Port!Init, Empty, Flight, Occupied
<1>2. DriverInv /\ [Next]_vars => [Port!Next]_<<s_outputs_armed, Flight>>
  BY StepRefines
<1>3. QED BY <1>1, <1>2, DriverHolds, PTL
          DEF Spec, PortSpec, Port!Spec, Port!vars

=============================================================================
