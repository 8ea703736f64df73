---------------------------- MODULE MotorsProofs ----------------------------
(***************************************************************************)
(* Proofs about what is under the controllers, for any constants.          *)
(*                                                                         *)
(* The motor services: any motors, groups, modes and lengths of the        *)
(* start-up.  The properties of the runs are inductive but for one fact:   *)
(* how the counter of the BenMo start-up and the cycles that were accepted *)
(* belong together.  The CAN manager: what CanManagerProofs proves, in the *)
(* two configurations of the harness.  The alarm: any number of motors,    *)
(* ids, buses and times.                                                   *)
(***************************************************************************)
EXTENDS MCMotors, TLAPS, WellFoundedInduction

UpTo(n, bound) == IF n < 0 THEN 0 ELSE IF n > bound THEN bound ELSE n

(* The kinds of cycles follow each other, each as often as it is due. *)
HeardCounts ==
    /\ heard["disable"] = UpTo(s_startup_cycle, Cycles)
    /\ heard["enable"] = UpTo(s_startup_cycle - Cycles, Cycles)
    /\ heard["config"] = UpTo(s_startup_cycle - 2 * Cycles, Cycles)

(* BenMo motors are driven after the start-up only. *)
DrivenWhenReady == \A m \in Benmo : applied[m] = "drive" => BenmoReady

IInv ==
    /\ TypeOK
    /\ HeardCounts
    /\ DrivenWhenReady
    /\ GroupsAreCurrent
    /\ StopIsKept

(* A frame is shared by motors of one vendor, and never by a DM motor. *)
LEMMA FramesApart ==
    ASSUME NEW f \in GroupFrames
    PROVE  /\ f \subseteq Lk \cup Benmo
           /\ f \cap Benmo # {} => f \subseteq Benmo
  BY VendorAssumption DEF GroupFrames, Frames

LEMMA InitIInv == Init => IInv
<1> SUFFICES ASSUME Init PROVE IInv
  OBVIOUS
<1>0. Cycles \in Nat \ {0} /\ Warmup \in Nat /\ ControlMode \in [Motors -> Modes]
  BY VendorAssumption
<1>1. TypeOK
  <2>1. mode \in [Motors -> Modes] /\ armed \in BOOLEAN
    BY <1>0 DEF Init
  <2>2. pending \in [Motors -> BOOLEAN] /\ on \in [Dm -> BOOLEAN]
        /\ enabled \in [Dm -> BOOLEAN]
    BY DEF Init
  <2>3. command \in [Motors -> Values] /\ applied \in [Motors -> Values]
    BY DEF Init, Values
  <2>4. /\ enable_frames_left \in [Dm -> 0..Warmup]
        /\ s_startup_cycle \in 0..(3 * Cycles)
        /\ heard \in [Kinds -> 0..Cycles]
    BY <1>0 DEF Init
  <2> QED
    BY <2>1, <2>2, <2>3, <2>4 DEF TypeOK
<1>2. HeardCounts
  BY <1>0 DEF Init, HeardCounts, UpTo, Kinds
<1>3. DrivenWhenReady /\ GroupsAreCurrent /\ StopIsKept
  BY DEF Init, DrivenWhenReady, GroupsAreCurrent, StopIsKept, Motors
<1> QED
  BY <1>1, <1>2, <1>3 DEF IInv

(* What the two actions that command a motor have in common. *)
LEMMA CommandIInv ==
    ASSUME IInv, NEW m \in Motors, NEW value \in Values,
           CommandCurrent(m, value) \/ Stop(m),
           UNCHANGED <<mode, s_startup_cycle, armed, history>>
    PROVE  IInv'
<1>0. "zero" \in Values
  BY DEF Values
<1>1. CASE CommandCurrent(m, value)
  <2>1. TypeOK'
    <3>1. pending' \in [Motors -> BOOLEAN] /\ command' \in [Motors -> Values]
      BY <1>1 DEF CommandCurrent, IInv, TypeOK
    <3>2. /\ enabled' \in [Dm -> BOOLEAN]
          /\ enable_frames_left' \in [Dm -> 0..Warmup]
      <4>1. CASE m \in Dm
        <5>1. Warmup \in 0..Warmup
          BY VendorAssumption
        <5>2. /\ enabled' = [enabled EXCEPT ![m] = TRUE]
              /\ \/ enable_frames_left' = enable_frames_left
                 \/ enable_frames_left' = [enable_frames_left EXCEPT ![m] = Warmup]
          BY <1>1, <4>1 DEF CommandCurrent
        <5> QED
          BY <4>1, <5>1, <5>2 DEF IInv, TypeOK
      <4>2. CASE m \notin Dm
        BY <1>1, <4>2 DEF CommandCurrent, IInv, TypeOK
      <4> QED
        BY <4>1, <4>2
    <3> QED
      BY <3>1, <3>2 DEF IInv, TypeOK, history
  <2>2. (HeardCounts /\ DrivenWhenReady)'
    BY DEF IInv, HeardCounts, DrivenWhenReady, BenmoReady, history
  <2>3. GroupsAreCurrent'
    BY <1>1 DEF CommandCurrent, IInv, TypeOK, GroupsAreCurrent, history, Motors
  <2>4. StopIsKept'
    BY <1>1 DEF CommandCurrent, IInv, TypeOK, StopIsKept, history, Motors
  <2> QED
    BY <2>1, <2>2, <2>3, <2>4 DEF IInv
<1>2. CASE m \notin Dm /\ CommandCurrent(m, "zero")
  <2>1. TypeOK'
    BY <1>0, <1>2, VendorAssumption DEF CommandCurrent, IInv, TypeOK, history
  <2>2. (HeardCounts /\ DrivenWhenReady)'
    BY DEF IInv, HeardCounts, DrivenWhenReady, BenmoReady, history
  <2>3. GroupsAreCurrent'
    BY <1>2 DEF CommandCurrent, IInv, TypeOK, GroupsAreCurrent, history, Motors
  <2>4. StopIsKept'
    BY <1>2 DEF CommandCurrent, IInv, TypeOK, StopIsKept, history, Motors
  <2> QED
    BY <2>1, <2>2, <2>3, <2>4 DEF IInv
<1>3. CASE m \in Dm /\ Stop(m)
  <2>1. TypeOK'
    BY <1>0, <1>3 DEF Stop, IInv, TypeOK, history
  <2>2. (HeardCounts /\ DrivenWhenReady)'
    BY DEF IInv, HeardCounts, DrivenWhenReady, BenmoReady, history
  <2>3. GroupsAreCurrent'
    BY <1>3, VendorAssumption DEF Stop, IInv, TypeOK, GroupsAreCurrent, history, Motors
  <2>4. StopIsKept'
    BY <1>3 DEF Stop, IInv, TypeOK, StopIsKept, history, Motors
  <2> QED
    BY <2>1, <2>2, <2>3, <2>4 DEF IInv
<1> QED
  BY <1>1, <1>2, <1>3 DEF Stop

(* A start-up cycle that is accepted is of the kind that is due. *)
LEMMA StartupCounts ==
    ASSUME IInv, NEW startup \in BOOLEAN,
           startup => ~BenmoReady,
           s_startup_cycle' = StartupCycle(startup),
           heard' = IF startup THEN [heard EXCEPT ![Kind] = @ + 1] ELSE heard
    PROVE  /\ s_startup_cycle' \in 0..(3 * Cycles)
           /\ heard' \in [Kinds -> 0..Cycles]
           /\ HeardCounts'
<1> DEFINE c == s_startup_cycle
<1>0. /\ Cycles \in Nat \ {0}
      /\ c \in 0..(3 * Cycles)
      /\ heard \in [Kinds -> 0..Cycles]
      /\ heard["disable"] = UpTo(c, Cycles)
      /\ heard["enable"] = UpTo(c - Cycles, Cycles)
      /\ heard["config"] = UpTo(c - 2 * Cycles, Cycles)
  BY VendorAssumption DEF IInv, TypeOK, HeardCounts
<1>1. CASE ~startup
  BY <1>0, <1>1 DEF StartupCycle, HeardCounts
<1>2. CASE startup
  <2>0. c < 3 * Cycles /\ c' = c + 1 /\ heard' = [heard EXCEPT ![Kind] = @ + 1]
    BY <1>0, <1>2 DEF StartupCycle, BenmoReady
  <2>1. CASE c < Cycles
    <3>1. Kind = "disable"
      BY <1>0, <2>1 DEF Kind
    <3> QED
      BY <1>0, <2>0, <2>1, <3>1 DEF HeardCounts, UpTo, Kinds
  <2>2. CASE c >= Cycles /\ c < 2 * Cycles
    <3>1. Kind = "enable"
      BY <1>0, <2>2 DEF Kind
    <3> QED
      BY <1>0, <2>0, <2>2, <3>1 DEF HeardCounts, UpTo, Kinds
  <2>3. CASE c >= 2 * Cycles
    <3>1. Kind = "config"
      BY <1>0, <2>3 DEF Kind
    <3> QED
      BY <1>0, <2>0, <2>3, <3>1 DEF HeardCounts, UpTo, Kinds
  <2> QED
    BY <1>0, <2>1, <2>2, <2>3
<1> QED
  BY <1>1, <1>2

LEMMA FlushIInv ==
    ASSUME IInv, NEW dm \in SUBSET Dm, NEW startup \in BOOLEAN,
           NEW taken \in SUBSET GroupFrames, Flush(dm, startup, taken)
    PROVE  IInv'
<1>1. TypeOK' /\ HeardCounts'
  <2>1. /\ s_startup_cycle' \in 0..(3 * Cycles)
        /\ heard' \in [Kinds -> 0..Cycles]
        /\ HeardCounts'
    BY StartupCounts DEF Flush
  <2>2. enable_frames_left' \in [Dm -> 0..Warmup]
    BY VendorAssumption DEF Flush, EnableFramesLeft, DmFrame, IInv, TypeOK
  <2>3. applied' \in [Motors -> Values]
    BY DEF Flush, IInv, TypeOK
  <2>4. on' \in [Dm -> BOOLEAN]
    BY DEF Flush, IInv, TypeOK
  <2>5. pending' \in [Motors -> BOOLEAN]
    <3>1. \A m \in DmOffered : DmPending(m, m \in dm) \in BOOLEAN
      BY DEF DmPending, DmOffered, IInv, TypeOK, Motors
    <3> QED
      BY <3>1 DEF Flush, IInv, TypeOK
  <2> QED
    BY <2>1, <2>2, <2>3, <2>4, <2>5 DEF Flush, IInv, TypeOK
<1>2. DrivenWhenReady'
  <2> SUFFICES ASSUME NEW m \in Benmo, applied'[m] = "drive"
               PROVE  BenmoReady'
    BY DEF DrivenWhenReady
  <2>1. BenmoReady
    <3>1. CASE m \in UNION taken
      BY <3>1, FramesApart DEF Flush, Takes, Offered
    <3>2. CASE m \notin UNION taken
      <4>1. m \notin dm /\ m \in Motors
        BY VendorAssumption DEF Motors
      <4> QED
        BY <3>2, <4>1 DEF Flush, IInv, DrivenWhenReady
    <3> QED
      BY <3>1, <3>2
  <2> QED
    BY <2>1 DEF Flush, StartupCycle, BenmoReady
<1>3. GroupsAreCurrent'
  <2> SUFFICES ASSUME NEW m \in Lk \cup Benmo, ~pending'[m]
               PROVE  applied'[m] = command'[m]
    BY DEF GroupsAreCurrent
  <2>1. m \notin Dm /\ m \in Motors
    BY VendorAssumption DEF Motors
  <2>2. CASE m \in UNION taken
    BY <2>1, <2>2 DEF Flush
  <2>3. CASE m \notin UNION taken
    <3>1. ~pending[m]
      BY <2>1, <2>3 DEF Flush, SentMotors, DmOffered
    <3> QED
      BY <2>1, <2>3, <3>1 DEF Flush, IInv, GroupsAreCurrent
  <2> QED
    BY <2>2, <2>3
<1>4. StopIsKept'
  <2> SUFFICES ASSUME NEW m \in Dm, ~enabled'[m], ~pending'[m]
               PROVE  ~on'[m]
    BY DEF StopIsKept
  <2>1. m \in Motors /\ m \notin UNION taken /\ ~enabled[m]
    BY FramesApart, VendorAssumption DEF Motors, Flush
  <2>2. CASE m \in dm
    <3>1. DmFrame(m) = "disable"
      BY <2>1 DEF DmFrame
    <3>2. on'[m] = (DmFrame(m) # "disable" /\ (on[m] \/ DmFrame(m) = "enable"))
      BY <2>2 DEF Flush
    <3> QED
      BY <3>1, <3>2
  <2>3. CASE m \notin dm
    <3>1. on'[m] = on[m]
      BY <2>3 DEF Flush
    <3>2. ~pending[m]
      <4>1. CASE m \in DmOffered
        <5>1. pending'[m] = DmPending(m, m \in dm)
          BY <2>1, <4>1 DEF Flush, SentMotors
        <5> QED
          BY <2>3, <5>1 DEF DmPending
      <4>2. CASE m \notin DmOffered
        BY <4>2 DEF DmOffered
      <4> QED
        BY <4>1, <4>2
    <3> QED
      BY <2>1, <3>1, <3>2 DEF IInv, StopIsKept
  <2> QED
    BY <2>2, <2>3
<1> QED
  BY <1>1, <1>2, <1>3, <1>4 DEF IInv

LEMMA NextIInv == IInv /\ [Next]_vars => IInv'
<1> SUFFICES ASSUME IInv, [Next]_vars PROVE IInv'
  OBVIOUS
<1>1. ASSUME NEW m \in Motors, NEW value \in Values,
             Direct(m, value) \/ Configured(m, value)
      PROVE  IInv'
  BY <1>1, CommandIInv DEF Direct, Configured
<1>2. ASSUME NEW m \in Overridden, NEW new \in Modes, SetControlMode(m, new)
      PROVE  IInv'
  BY <1>2, VendorAssumption
     DEF SetControlMode, commands, history, IInv, TypeOK, HeardCounts,
         DrivenWhenReady, BenmoReady, GroupsAreCurrent, StopIsKept
<1>3. CASE Arm \/ Disarm
  BY <1>3 DEF Arm, Disarm, commands, history, IInv, TypeOK, HeardCounts,
              DrivenWhenReady, BenmoReady, GroupsAreCurrent, StopIsKept
<1>4. ASSUME NEW dm \in SUBSET Dm, NEW startup \in BOOLEAN,
             NEW taken \in SUBSET GroupFrames, Flush(dm, startup, taken)
      PROVE  IInv'
  BY <1>4, FlushIInv
<1>5. CASE UNCHANGED vars
  BY <1>5 DEF vars, IInv, TypeOK, HeardCounts, DrivenWhenReady, BenmoReady,
              GroupsAreCurrent, StopIsKept
<1> QED
  BY <1>1, <1>2, <1>3, <1>4, <1>5 DEF Next

(* The counters stay in range, whatever is refused. *)
THEOREM TypeCorrect == Spec => []TypeOK
  BY InitIInv, NextIInv, PTL DEF Spec, IInv

(* Motors of shared frames have their newest command or wait for it. *)
THEOREM GroupsHold == Spec => []GroupsAreCurrent
  BY InitIInv, NextIInv, PTL DEF Spec, IInv

(* No refused frame loses the stop of a DM motor. *)
THEOREM StopHolds == Spec => []StopIsKept
  BY InitIInv, NextIInv, PTL DEF Spec, IInv

LEMMA IInvDriven == IInv => DrivenAfterStartup
<1> SUFFICES ASSUME IInv, NEW m \in Benmo, applied[m] = "drive", NEW k \in Kinds
             PROVE  heard[k] = Cycles
  BY DEF DrivenAfterStartup
<1>1. s_startup_cycle = 3 * Cycles
  BY DEF IInv, DrivenWhenReady, BenmoReady
<1>2. Cycles \in Nat \ {0}
  BY VendorAssumption
<1>3. /\ heard["disable"] = Cycles
      /\ heard["enable"] = Cycles
      /\ heard["config"] = Cycles
  BY <1>1, <1>2 DEF IInv, HeardCounts, UpTo
<1> QED
  BY <1>3 DEF Kinds

(* BenMo motors are not driven before their start-up is complete. *)
THEOREM DrivenHolds == Spec => []DrivenAfterStartup
  BY InitIInv, NextIInv, IInvDriven, PTL DEF Spec

(* The services and adapters of any set of motors: nothing commanded is     *)
(* lost, nothing is driven before its start-up.                             *)
THEOREM VendorHolds == Spec => []VendorInv
  BY TypeCorrect, GroupsHold, StopHolds, DrivenHolds, PTL DEF VendorInv

----------------------------------------------------------------------------
(***************************************************************************)
(* The CAN manager.  An instance of the module of its proofs defines what  *)
(* the instance of the harness does, and brings the theorems.              *)
(***************************************************************************)
ProvedSharing == INSTANCE CanManagerProofs WITH
    BusCount <- SharingConf.buses, FrameCount <- SharingConf.frames,
    Slots <- SharingConf.slots, Ttl <- SharingConf.ttl, Slack <- SharingConf.slack,
    slot <- c_slot, pending <- c_pending, cycle <- c_cycle, armed <- c_armed,
    services <- c_services, mailbox <- c_mailbox, wire <- c_wire

LEMMA SharingIsProved ==
    /\ ProvedSharing!ManagerAssumption
    /\ Sharing!Init => ProvedSharing!Init
    /\ [Sharing!Next]_(Sharing!vars) => [ProvedSharing!Next]_(ProvedSharing!vars)
    /\ ProvedSharing!ManagerInv => Sharing!ManagerInv
<1> USE DEF
      Sharing!IsFiniteSet, Sharing!Max, Sharing!Min, Sharing!Buses, Sharing!Ids,
      Sharing!ManagerAssumption, Sharing!vars, Sharing!Longest, Sharing!Least,
      Sharing!NoCommand, Sharing!Slot, Sharing!Empty, Sharing!Frame, Sharing!Idle,
      Sharing!Fault, Sharing!OldMailboxes, Sharing!NothingOld, Sharing!Service,
      Sharing!Command, Sharing!Updated, Sharing!SendMotorCurrent, Sharing!OtherFault,
      Sharing!BeginFlush, Sharing!Cleared, Sharing!Purge, Sharing!OutOfDate,
      Sharing!Fresh, Sharing!CommandsOf, Sharing!MustSend, Sharing!Deadline,
      Sharing!NewFrame, Sharing!Accepted, Sharing!BusyOrError, Sharing!NextFrame,
      Sharing!AtFrame, Sharing!FlushAccepted, Sharing!FlushFrame, Sharing!Leaves,
      Sharing!Less, Sharing!OlderFrame, Sharing!OlderSlot, Sharing!Tick, Sharing!Init,
      Sharing!Control, Sharing!Next, Sharing!TypeOK, Sharing!NoLateCommand,
      Sharing!ForgetsAtFault, Sharing!ManagerInv, Sharing!Full, Sharing!View,
      Sharing!Flight, ProvedSharing!IsFiniteSet, ProvedSharing!Max, ProvedSharing!Min,
      ProvedSharing!Buses, ProvedSharing!Ids, ProvedSharing!ManagerAssumption,
      ProvedSharing!vars, ProvedSharing!Longest, ProvedSharing!Least,
      ProvedSharing!NoCommand, ProvedSharing!Slot, ProvedSharing!Empty,
      ProvedSharing!Frame, ProvedSharing!Idle, ProvedSharing!Fault,
      ProvedSharing!OldMailboxes, ProvedSharing!NothingOld, ProvedSharing!Service,
      ProvedSharing!Command, ProvedSharing!Updated, ProvedSharing!SendMotorCurrent,
      ProvedSharing!OtherFault, ProvedSharing!BeginFlush, ProvedSharing!Cleared,
      ProvedSharing!Purge, ProvedSharing!OutOfDate, ProvedSharing!Fresh,
      ProvedSharing!CommandsOf, ProvedSharing!MustSend, ProvedSharing!Deadline,
      ProvedSharing!NewFrame, ProvedSharing!Accepted, ProvedSharing!BusyOrError,
      ProvedSharing!NextFrame, ProvedSharing!AtFrame, ProvedSharing!FlushAccepted,
      ProvedSharing!FlushFrame, ProvedSharing!Leaves, ProvedSharing!Less,
      ProvedSharing!OlderFrame, ProvedSharing!OlderSlot, ProvedSharing!Tick,
      ProvedSharing!Init, ProvedSharing!Control, ProvedSharing!Next,
      ProvedSharing!TypeOK, ProvedSharing!NoLateCommand, ProvedSharing!ForgetsAtFault,
      ProvedSharing!ManagerInv, ProvedSharing!Full, ProvedSharing!View,
      ProvedSharing!Flight
<1>1. ProvedSharing!ManagerAssumption
  BY ManagersOK
<1>2. Sharing!Init => ProvedSharing!Init
  OBVIOUS
<1>3. [Sharing!Next]_(Sharing!vars) => [ProvedSharing!Next]_(ProvedSharing!vars)
  OBVIOUS
<1>4. ProvedSharing!ManagerInv => Sharing!ManagerInv
  OBVIOUS
<1>5. QED BY ONLY <1>1, <1>2, <1>3, <1>4

ProvedFaulty == INSTANCE CanManagerProofs WITH
    BusCount <- FaultyConf.buses, FrameCount <- FaultyConf.frames,
    Slots <- FaultyConf.slots, Ttl <- FaultyConf.ttl, Slack <- FaultyConf.slack,
    slot <- c_slot, pending <- c_pending, cycle <- c_cycle, armed <- c_armed,
    services <- c_services, mailbox <- c_mailbox, wire <- c_wire

LEMMA FaultyIsProved ==
    /\ ProvedFaulty!ManagerAssumption
    /\ Faulty!Init => ProvedFaulty!Init
    /\ [Faulty!Next]_(Faulty!vars) => [ProvedFaulty!Next]_(ProvedFaulty!vars)
    /\ ProvedFaulty!ManagerInv => Faulty!ManagerInv
<1> USE DEF
      Faulty!IsFiniteSet, Faulty!Max, Faulty!Min, Faulty!Buses, Faulty!Ids,
      Faulty!ManagerAssumption, Faulty!vars, Faulty!Longest, Faulty!Least,
      Faulty!NoCommand, Faulty!Slot, Faulty!Empty, Faulty!Frame, Faulty!Idle,
      Faulty!Fault, Faulty!OldMailboxes, Faulty!NothingOld, Faulty!Service,
      Faulty!Command, Faulty!Updated, Faulty!SendMotorCurrent, Faulty!OtherFault,
      Faulty!BeginFlush, Faulty!Cleared, Faulty!Purge, Faulty!OutOfDate, Faulty!Fresh,
      Faulty!CommandsOf, Faulty!MustSend, Faulty!Deadline, Faulty!NewFrame,
      Faulty!Accepted, Faulty!BusyOrError, Faulty!NextFrame, Faulty!AtFrame,
      Faulty!FlushAccepted, Faulty!FlushFrame, Faulty!Leaves, Faulty!Less,
      Faulty!OlderFrame, Faulty!OlderSlot, Faulty!Tick, Faulty!Init, Faulty!Control,
      Faulty!Next, Faulty!TypeOK, Faulty!NoLateCommand, Faulty!ForgetsAtFault,
      Faulty!ManagerInv, Faulty!Full, Faulty!View, Faulty!Flight,
      ProvedFaulty!IsFiniteSet, ProvedFaulty!Max, ProvedFaulty!Min, ProvedFaulty!Buses,
      ProvedFaulty!Ids, ProvedFaulty!ManagerAssumption, ProvedFaulty!vars,
      ProvedFaulty!Longest, ProvedFaulty!Least, ProvedFaulty!NoCommand,
      ProvedFaulty!Slot, ProvedFaulty!Empty, ProvedFaulty!Frame, ProvedFaulty!Idle,
      ProvedFaulty!Fault, ProvedFaulty!OldMailboxes, ProvedFaulty!NothingOld,
      ProvedFaulty!Service, ProvedFaulty!Command, ProvedFaulty!Updated,
      ProvedFaulty!SendMotorCurrent, ProvedFaulty!OtherFault, ProvedFaulty!BeginFlush,
      ProvedFaulty!Cleared, ProvedFaulty!Purge, ProvedFaulty!OutOfDate,
      ProvedFaulty!Fresh, ProvedFaulty!CommandsOf, ProvedFaulty!MustSend,
      ProvedFaulty!Deadline, ProvedFaulty!NewFrame, ProvedFaulty!Accepted,
      ProvedFaulty!BusyOrError, ProvedFaulty!NextFrame, ProvedFaulty!AtFrame,
      ProvedFaulty!FlushAccepted, ProvedFaulty!FlushFrame, ProvedFaulty!Leaves,
      ProvedFaulty!Less, ProvedFaulty!OlderFrame, ProvedFaulty!OlderSlot,
      ProvedFaulty!Tick, ProvedFaulty!Init, ProvedFaulty!Control, ProvedFaulty!Next,
      ProvedFaulty!TypeOK, ProvedFaulty!NoLateCommand, ProvedFaulty!ForgetsAtFault,
      ProvedFaulty!ManagerInv, ProvedFaulty!Full, ProvedFaulty!View, ProvedFaulty!Flight
<1>1. ProvedFaulty!ManagerAssumption
  BY ManagersOK
<1>2. Faulty!Init => ProvedFaulty!Init
  OBVIOUS
<1>3. [Faulty!Next]_(Faulty!vars) => [ProvedFaulty!Next]_(ProvedFaulty!vars)
  OBVIOUS
<1>4. ProvedFaulty!ManagerInv => Faulty!ManagerInv
  OBVIOUS
<1>5. QED BY ONLY <1>1, <1>2, <1>3, <1>4

FaultyPort == [Faulty!Port!Next]_<<c_armed, Faulty!Flight>>
ProvedPort == [ProvedFaulty!Port!Next]_<<c_armed, ProvedFaulty!Flight>>

LEMMA PortIsProved == ProvedPort => FaultyPort
<1>1. ProvedFaulty!Flight = Faulty!Flight /\ ProvedFaulty!Flight' = Faulty!Flight'
  BY DEF Faulty!Flight, Faulty!View, Faulty!Full, Faulty!Buses, Faulty!Ids,
         ProvedFaulty!Flight, ProvedFaulty!View, ProvedFaulty!Full,
         ProvedFaulty!Buses, ProvedFaulty!Ids
<1>2. Faulty!Buses = ProvedFaulty!Buses /\ Faulty!Ids = ProvedFaulty!Ids
  BY DEF Faulty!Buses, Faulty!Ids, ProvedFaulty!Buses, ProvedFaulty!Ids
<1>3. QED BY <1>1, <1>2
  DEF FaultyPort, ProvedPort,
      Faulty!Port!Next, Faulty!Port!Accept, Faulty!Port!Leave, Faulty!Port!Fault,
      Faulty!Port!Arm, ProvedFaulty!Port!Next, ProvedFaulty!Port!Accept,
      ProvedFaulty!Port!Leave, ProvedFaulty!Port!Fault, ProvedFaulty!Port!Arm

SharingRuns == part = "sharing"
FaultyRuns == part = "faulty"

LEMMA PartsStay ==
    /\ [AllNext]_allVars => (SharingRuns <=> SharingRuns')
    /\ [AllNext]_allVars => (FaultyRuns <=> FaultyRuns')
  BY DEF AllNext, allVars, SharingRuns, FaultyRuns

LEMMA ManagersRun ==
    /\ SharingRuns /\ AllInit => ProvedSharing!Init
    /\ FaultyRuns /\ AllInit => ProvedFaulty!Init
    /\ SharingRuns /\ [AllNext]_allVars => [ProvedSharing!Next]_(ProvedSharing!vars)
    /\ FaultyRuns /\ [AllNext]_allVars => [ProvedFaulty!Next]_(ProvedFaulty!vars)
<1>1. SharingRuns /\ AllInit => Sharing!Init
  BY DEF AllInit, SharingRuns
<1>2. FaultyRuns /\ AllInit => Faulty!Init
  BY DEF AllInit, FaultyRuns
<1>3. SharingRuns /\ [AllNext]_allVars => [Sharing!Next]_(Sharing!vars)
  BY DEF AllNext, allVars, SharingRuns, manager, Sharing!vars
<1>4. FaultyRuns /\ [AllNext]_allVars => [Faulty!Next]_(Faulty!vars)
  BY DEF AllNext, allVars, FaultyRuns, manager, Faulty!vars
<1>5. QED BY <1>1, <1>2, <1>3, <1>4, SharingIsProved, FaultyIsProved

(* In both configurations of the harness, whatever their constants:         *)
(* CanManagerProofs!ManagerHolds.                                           *)
THEOREM ManagerHolds == AllSpec => []ManagerInv
<1>1. ProvedSharing!Spec => []ProvedSharing!ManagerInv
  BY SharingIsProved, ProvedSharing!ManagerHolds
<1>2. ProvedFaulty!Spec => []ProvedFaulty!ManagerInv
  BY FaultyIsProved, ProvedFaulty!ManagerHolds
<1>3. /\ ProvedSharing!ManagerInv => Sharing!ManagerInv
      /\ ProvedFaulty!ManagerInv => Faulty!ManagerInv
  BY SharingIsProved, FaultyIsProved
<1>4. AllSpec => [](SharingRuns => Sharing!ManagerInv)
  <2>1. AllSpec /\ SharingRuns => ProvedSharing!Spec
    BY PartsStay, ManagersRun, PTL DEF AllSpec, ProvedSharing!Spec
  <2>2. AllSpec => []SharingRuns \/ []~SharingRuns
    BY PartsStay, PTL DEF AllSpec
  <2>3. QED BY <1>1, <1>3, <2>1, <2>2, PTL
<1>5. AllSpec => [](FaultyRuns => Faulty!ManagerInv)
  <2>1. AllSpec /\ FaultyRuns => ProvedFaulty!Spec
    BY PartsStay, ManagersRun, PTL DEF AllSpec, ProvedFaulty!Spec
  <2>2. AllSpec => []FaultyRuns \/ []~FaultyRuns
    BY PartsStay, PTL DEF AllSpec
  <2>3. QED BY <1>2, <1>3, <2>1, <2>2, PTL
<1>6. (SharingRuns => Sharing!ManagerInv) /\ (FaultyRuns => Faulty!ManagerInv)
         => ManagerInv
  BY DEF ManagerInv, SharingRuns, FaultyRuns
<1>7. QED BY <1>4, <1>5, <1>6, PTL

(* The steps of the manager are steps the driver's promise allows its users *)
(* (CanManagerProofs!ManagerUsesThePort).                                   *)
THEOREM ManagerUsesPortHolds == AllSpec => ManagerUsesPort
<1>1. ProvedFaulty!Spec => [][ProvedPort]_manager
  <2>1. ProvedFaulty!Spec => ProvedFaulty!PortSpec
    BY FaultyIsProved, ProvedFaulty!ManagerUsesThePort
  <2>2. [ProvedFaulty!Port!Next]_(ProvedFaulty!Port!vars) => ProvedPort
    BY DEF ProvedPort, ProvedFaulty!Port!vars
  <2>3. QED BY <2>1, <2>2, PTL DEF ProvedFaulty!PortSpec, ProvedFaulty!Port!Spec
<1>2. AllSpec /\ FaultyRuns => ProvedFaulty!Spec
  BY PartsStay, ManagersRun, PTL DEF AllSpec, ProvedFaulty!Spec
<1>3. AllSpec => []FaultyRuns \/ []~FaultyRuns
  BY PartsStay, PTL DEF AllSpec
<1>4. ProvedPort => (FaultyRuns => [Faulty!Port!Next]_(Faulty!Port!vars))
  BY PortIsProved DEF FaultyPort, Faulty!Port!vars
<1>5. ~FaultyRuns => (FaultyRuns => [Faulty!Port!Next]_(Faulty!Port!vars))
  OBVIOUS
<1>6. AllSpec => [][FaultyRuns => [Faulty!Port!Next]_(Faulty!Port!vars)]_manager
  BY <1>1, <1>2, <1>3, <1>4, <1>5, PTL
<1>7. ManagerUsesPort <=> [][FaultyRuns => [Faulty!Port!Next]_(Faulty!Port!vars)]_manager
  BY DEF ManagerUsesPort, FaultyRuns
<1>8. QED BY <1>6, <1>7

----------------------------------------------------------------------------
(***************************************************************************)
(* The alarm.  Within a group the lights are those of the time since its   *)
(* start, and as many flashes and beeps were counted as began until then.  *)
(* A motor that waits was passed less often than there are motors before   *)
(* it, going around.                                                       *)
(***************************************************************************)
LEMMA DivMod ==
    ASSUME NEW t \in Nat, NEW d \in Nat \ {0}
    PROVE  /\ t \div d \in Nat /\ t % d \in 0 .. d - 1
           /\ t = d * (t \div d) + (t % d)
OBVIOUS

LEMMA Multiples ==
    ASSUME NEW d \in Nat, NEW a \in Nat, NEW b \in Nat, a < b
    PROVE  d * a + d <= d * b
<1>1. PICK e \in Nat : b = a + 1 + e
  OBVIOUS
<1>2. d * b = d * a + d + d * e
  BY <1>1
<1>3. d * e >= 0
  OBVIOUS
<1>4. QED BY <1>2, <1>3

LEMMA DivModUnique ==
    ASSUME NEW d \in Nat \ {0}, NEW q \in Nat, NEW r \in 0 .. d - 1,
           NEW k \in Nat, NEW s \in 0 .. d - 1, d * q + r = d * k + s
    PROVE  q = k /\ r = s
<1>1. ~(q < k)
  BY Multiples
<1>2. ~(k < q)
  BY Multiples
<1>3. QED BY <1>1, <1>2

(* A time shorter than half a period later: the same period, or the next   *)
(* one, of which the first half has begun, the second half of the one      *)
(* before having been there.                                               *)
LEMMA NextHalf ==
    ASSUME NEW P \in Nat \ {0}, NEW t \in Nat, NEW g \in Nat, g < P
    PROVE  LET d == 2 * P
               q == t \div d
               r == t % d
           IN  \/ (t + g) \div d = q /\ (t + g) % d = r + g
               \/ /\ (t + g) \div d = q + 1 /\ (t + g) % d = r + g - d
                  /\ r >= P /\ (t + g) % d < P
<1> DEFINE d == 2 * P
           q == t \div d
           r == t % d
           k == (t + g) \div d
           s == (t + g) % d
<1>1. /\ q \in Nat /\ r \in 0 .. d - 1 /\ t = d * q + r
      /\ k \in Nat /\ s \in 0 .. d - 1 /\ t + g = d * k + s
  <2>1. d \in Nat \ {0} /\ t + g \in Nat
    OBVIOUS
  <2> HIDE DEF d
  <2>2. QED BY <2>1, DivMod
<1>2. d \in Nat \ {0} /\ d = P + P
  OBVIOUS
<1> HIDE DEF q, r, k, s, d
<1>3. CASE r + g < d
  <2> DEFINE v == r + g
  <2>1. v \in 0 .. d - 1 /\ d * q + v = d * k + s
    BY <1>1, <1>2, <1>3
  <2> HIDE DEF v
  <2>2. q = k /\ v = s
    BY <1>1, <1>2, <2>1, DivModUnique
  <2>3. QED BY <2>2 DEF q, r, k, s, d, v
<1>4. CASE r + g >= d
  <2>1. r + g - d \in 0 .. d - 1
    BY <1>1, <1>2, <1>4
  <2>2. d * (q + 1) = d * q + d
    BY <1>1, <1>2
  <2>3. d * (q + 1) + (r + g - d) = d * k + s /\ q + 1 \in Nat
    BY <1>1, <1>2, <2>2
  <2>4. q + 1 = k /\ r + g - d = s
    BY <1>1, <1>2, <2>1, <2>3, DivModUnique
  <2>5. r >= P /\ s < P
    BY <1>1, <1>2, <1>4, <2>4
  <2>6. QED BY <2>4, <2>5 DEF q, r, k, s, d
<1>5. QED BY <1>1, <1>2, <1>3, <1>4

(* How many of n flashes have begun t after the start of a group. *)
Begun(t, period, n) == IF t \div period < n THEN (t \div period) + 1 ELSE n

(* A flash is lit in the first half of each of the first n periods. *)
Lit(t, P, n) == t < 2 * P * n /\ t % (2 * P) < P

LEMMA Periods ==
    ASSUME NEW d \in Nat \ {0}, NEW t \in Nat, NEW n \in Nat
    PROVE  t < d * n <=> t \div d < n
<1> DEFINE q == t \div d
           r == t % d
<1>1. q \in Nat /\ r \in 0 .. d - 1 /\ t = d * q + r
  BY DivMod
<1> HIDE DEF q, r
<1>2. ASSUME q < n PROVE t < d * n
  BY <1>1, <1>2, Multiples
<1>3. ASSUME n < q PROVE ~(t < d * n)
  BY <1>1, <1>3, Multiples
<1>4. ASSUME n = q PROVE ~(t < d * n)
  BY <1>1, <1>4
<1>5. QED BY <1>1, <1>2, <1>3, <1>4 DEF q

(* Flashes are counted as they begin: a call that is in time misses none.  *)
LEMMA CountsFlashes ==
    ASSUME NEW P \in Nat \ {0}, NEW t \in Nat, NEW g \in Nat, g < P, NEW n \in Nat
    PROVE  /\ Begun(t + g, 2 * P, n)
                 = Begun(t, 2 * P, n)
                     + (IF ~Lit(t, P, n) /\ Lit(t + g, P, n) THEN 1 ELSE 0)
           /\ Begun(t, 2 * P, n) \in Nat
<1> DEFINE d == 2 * P
           q == t \div d
           r == t % d
           k == (t + g) \div d
           s == (t + g) % d
<1>1. d \in Nat \ {0} /\ t + g \in Nat
  OBVIOUS
<1>2. q \in Nat /\ r \in Nat /\ k \in Nat /\ s \in Nat
  <2> HIDE DEF d
  <2>1. QED BY <1>1, DivMod
<1>3. (k = q /\ s = r + g) \/ (k = q + 1 /\ s = r + g - d /\ r >= P /\ s < P)
  BY NextHalf
<1>4. (t < d * n <=> q < n) /\ (t + g < d * n <=> k < n)
  <2> HIDE DEF d
  <2>1. QED BY <1>1, Periods
<1>5. /\ Lit(t, P, n) <=> q < n /\ r < P
      /\ Lit(t + g, P, n) <=> k < n /\ s < P
  BY <1>4 DEF Lit
<1>6. /\ Begun(t, 2 * P, n) = IF q < n THEN q + 1 ELSE n
      /\ Begun(t + g, 2 * P, n) = IF k < n THEN k + 1 ELSE n
  BY DEF Begun
<1> HIDE DEF q, r, k, s, d
<1>7. QED BY <1>2, <1>3, <1>5, <1>6

(* All have begun half a period before the end of the last one. *)
LEMMA AllBegun ==
    ASSUME NEW P \in Nat \ {0}, NEW t \in Nat, NEW g \in Nat, g < P, NEW n \in Nat,
           t + g >= 2 * P * n
    PROVE  Begun(t, 2 * P, n) = n
<1> DEFINE d == 2 * P
           q == t \div d
           r == t % d
<1>1. d \in Nat \ {0} /\ d > P
  OBVIOUS
<1>2. q \in Nat /\ r \in 0 .. d - 1 /\ t = d * q + r
  <2> HIDE DEF d
  <2>1. QED BY <1>1, DivMod
<1>3. t + g >= d * n
  OBVIOUS
<1> HIDE DEF q, r, d
<1>4. ~(q + 1 < n)
  <2> SUFFICES ASSUME q + 1 < n PROVE FALSE
    OBVIOUS
  <2>1. d * (q + 1) + d <= d * n
    BY <1>1, <1>2, Multiples
  <2>2. d * (q + 1) = d * q + d
    BY <1>1, <1>2
  <2>3. QED BY <1>1, <1>2, <1>3, <2>1, <2>2
<1>5. Begun(t, 2 * P, n) = IF q < n THEN q + 1 ELSE n
  BY DEF Begun, q, d
<1>6. QED BY <1>2, <1>4, <1>5

(* Going around: how far m is from n. *)
LEMMA AroundBy ==
    ASSUME NEW count \in Nat \ {0}, NEW n \in 0 .. count - 1, NEW m \in 0 .. count - 1
    PROVE  /\ (m + count - n) % count = IF m >= n THEN m - n ELSE m - n + count
           /\ (m + 1) % count = IF m + 1 = count THEN 0 ELSE m + 1
<1>1. ASSUME NEW t \in 0 .. 2 * count - 1
      PROVE  t % count = IF t < count THEN t ELSE t - count
  <2>1. /\ t \div count \in Nat /\ t % count \in 0 .. count - 1
        /\ t = count * (t \div count) + (t % count)
    BY DivMod
  <2>2. CASE t < count
    <3>1. t = count * 0 + t /\ t \in 0 .. count - 1
      BY <2>2
    <3>2. QED BY <2>1, <2>2, <3>1, DivModUnique
  <2>3. CASE t >= count
    <3> DEFINE v == t - count
    <3>1. t = count * 1 + v /\ v \in 0 .. count - 1
      BY <2>3
    <3> HIDE DEF v
    <3>2. t % count = v
      BY <2>1, <3>1, DivModUnique
    <3>3. QED BY <2>3, <3>2 DEF v
  <2>4. QED BY <2>2, <2>3
<1>2. m + count - n \in 0 .. 2 * count - 1 /\ m + 1 \in 0 .. 2 * count - 1
  OBVIOUS
<1>3. QED BY <1>1, <1>2

(* The lights of the group of m, t after its start. *)
GroupLights(p, m, t) ==
    /\ a_lamp.red = (Alarm(p)!HardwareId(m) = 0
                        \/ Lit(t, AlarmConf[p].pulse, Alarm(p)!HardwareId(m)))
    /\ a_lamp.beep = Lit(t, AlarmConf[p].pulse, AlarmConf[p].bus[m])

GroupCounts(p, m, t) ==
    /\ a_flashes = IF Alarm(p)!HardwareId(m) = 0 THEN 1
                   ELSE Begun(t, 2 * AlarmConf[p].pulse, Alarm(p)!HardwareId(m))
    /\ a_beeps = Begun(t, 2 * AlarmConf[p].pulse, AlarmConf[p].bus[m])

GroupSound(p) ==
    /\ a_phase = "group" =>
          /\ a_active \in a_offline
          /\ \A m \in Alarm(p)!Motors, t \in Nat :
                m = a_active /\ t = a_since => GroupLights(p, m, t) /\ GroupCounts(p, m, t)
    /\ a_phase # "group" => ~a_lamp.red /\ ~a_lamp.beep
    /\ a_phase # "separator" => a_named = NoMotor

(* How many motors are before m, going around. *)
Before(count, m) == IF m >= a_index THEN m - a_index ELSE m - a_index + count

PassedFew(p) ==
    \A m \in Alarm(p)!Motors : a_passed[m] + Before(AlarmConf[p].count, m) < AlarmConf[p].count

AlarmIInv(p) ==
    /\ Alarm(p)!TypeOK
    /\ GroupSound(p)
    /\ Alarm(p)!NamesRight
    /\ PassedFew(p)

LEMMA AlarmNumbers ==
    ASSUME NEW p \in DOMAIN AlarmConf
    PROVE  /\ AlarmConf[p].count \in Nat \ {0} /\ AlarmConf[p].pulse \in Nat \ {0}
           /\ AlarmConf[p].max_gap \in Nat /\ AlarmConf[p].min_group \in Nat
           /\ AlarmConf[p].min_group >= 4 * AlarmConf[p].pulse
           /\ Alarm(p)!Motors = 0 .. AlarmConf[p].count - 1
           /\ NoMotor \notin Alarm(p)!Motors
           /\ \A m \in Alarm(p)!Motors :
                 /\ AlarmConf[p].bus[m] \in 0 .. 2
                 /\ Alarm(p)!HardwareId(m) \in Nat
                 /\ Alarm(p)!Unmapped(m) => Alarm(p)!HardwareId(m) = 0
                 /\ ~Alarm(p)!Unmapped(m) => /\ Alarm(p)!HardwareId(m) = AlarmConf[p].ids[m]
                                             /\ Alarm(p)!HardwareId(m) > 0
<1>1. Alarm(p)!AlarmAssumption
  BY AlarmsOK
<1>2. QED BY <1>1 DEF Alarm!AlarmAssumption, Alarm!Motors, Alarm!HardwareId, Alarm!Unmapped

LEMMA AlarmStarts ==
    ASSUME NEW p \in DOMAIN AlarmConf, Alarm(p)!Init
    PROVE  AlarmIInv(p)
<1>1. Alarm(p)!TypeOK
  BY AlarmNumbers DEF Alarm!Init, Alarm!TypeOK, Alarm!Dark
<1>2. GroupSound(p) /\ Alarm(p)!NamesRight
  BY DEF Alarm!Init, GroupSound, Alarm!NamesRight, Alarm!Dark
<1>3. PassedFew(p)
  BY AlarmNumbers DEF Alarm!Init, PassedFew, Before
<1>4. QED BY <1>1, <1>2, <1>3 DEF AlarmIInv

LEMMA LeastNatural ==
    ASSUME NEW S \in SUBSET Nat, S # {}
    PROVE  \E x \in S : \A y \in S : x <= y
<1>1. PICK x \in S : \A y \in S : <<y, x>> \notin OpToRel(<, Nat)
  BY NatLessThanWellFounded, WFMin, Zenon
<1>2. \A y \in S : ~(y < x)
  BY <1>1 DEF OpToRel
<1>3. QED BY <1>2

(* The search for the next motor finds one, and none that waits is before it. *)
LEMMA NextIsFirst ==
    ASSUME NEW p \in DOMAIN AlarmConf, a_index \in Alarm(p)!Motors,
           NEW off \in SUBSET Alarm(p)!Motors, off # {}
    PROVE  LET m == Alarm(p)!NextOffline(off)
           IN  /\ m \in off
               /\ \A k \in off : Before(AlarmConf[p].count, m) <= Before(AlarmConf[p].count, k)
<1> DEFINE count == AlarmConf[p].count
           D(k) == (k + count - a_index) % count
<1>1. count \in Nat \ {0} /\ Alarm(p)!Motors = 0 .. count - 1
  BY AlarmNumbers
<1>2. Alarm(p)!NextOffline(off) = CHOOSE m \in off : \A k \in off : D(m) <= D(k)
  BY DEF Alarm!NextOffline
<1> HIDE DEF count
<1>3. ASSUME NEW k \in off
      PROVE  D(k) = Before(count, k) /\ D(k) \in Nat
  <2>1. k \in 0 .. count - 1 /\ a_index \in 0 .. count - 1
    BY <1>1
  <2>2. D(k) = IF k >= a_index THEN k - a_index ELSE k - a_index + count
    BY <1>1, <2>1, AroundBy
  <2>3. QED BY <1>1, <2>1, <2>2 DEF Before
<1> HIDE DEF D
<1>4. \E m \in off : \A k \in off : D(m) <= D(k)
  <2> DEFINE S == {D(k) : k \in off}
  <2>1. S \subseteq Nat /\ S # {}
    BY <1>3
  <2> HIDE DEF S
  <2>2. \E n \in S : \A k \in S : n <= k
    BY <2>1, LeastNatural
  <2>3. QED BY <2>2 DEF S
<1>5. QED BY <1>2, <1>3, <1>4 DEF count

(* What every call does to the motors that were passed. *)
LEMMA PassesKept ==
    ASSUME NEW p \in DOMAIN AlarmConf, AlarmIInv(p), NEW off \in SUBSET Alarm(p)!Motors,
           Alarm(p)!KeepPassed(off), a_index' = a_index
    PROVE  PassedFew(p)' /\ a_passed' \in [Alarm(p)!Motors -> Nat]
<1> DEFINE count == AlarmConf[p].count
           M == Alarm(p)!Motors
<1>1. count \in Nat \ {0} /\ M = 0 .. count - 1 /\ a_index \in M
      /\ a_passed \in [M -> Nat]
      /\ \A m \in M : a_passed[m] + Before(count, m) < count
  BY AlarmNumbers DEF AlarmIInv, Alarm!TypeOK, PassedFew
<1>2. a_passed' = [k \in M |-> IF k \in off THEN a_passed[k] ELSE 0]
  BY DEF Alarm!KeepPassed
<1> HIDE DEF count, M
<1>3. ASSUME NEW m \in M
      PROVE  a_passed'[m] + Before(count, m) < count
  BY <1>1, <1>2, <1>3 DEF Before
<1>4. \A m \in M : a_passed'[m] + (IF m >= a_index' THEN m - a_index' ELSE m - a_index' + count)
                      < count
  BY <1>3 DEF Before
<1>5. a_passed' \in [M -> Nat]
  BY <1>1, <1>2
<1>6. QED BY <1>4, <1>5 DEF PassedFew, Before, count, M

Lights == [red : BOOLEAN, green : BOOLEAN, blue : BOOLEAN, beep : BOOLEAN]

LEMMA BlueLight ==
    ASSUME NEW p \in DOMAIN AlarmConf
    PROVE  Alarm(p)!Blue \in Lights /\ ~Alarm(p)!Blue.red /\ ~Alarm(p)!Blue.beep
<1>1. Alarm(p)!Dark \in Lights /\ ~Alarm(p)!Dark.red /\ ~Alarm(p)!Dark.beep
  BY DEF Alarm!Dark, Lights
<1>2. QED BY <1>1 DEF Alarm!Blue, Lights

LEMMA GreenLight ==
    ASSUME NEW p \in DOMAIN AlarmConf
    PROVE  Alarm(p)!Green \in Lights /\ ~Alarm(p)!Green.red /\ ~Alarm(p)!Green.beep
<1>1. Alarm(p)!Dark \in Lights /\ ~Alarm(p)!Dark.red /\ ~Alarm(p)!Dark.beep
  BY DEF Alarm!Dark, Lights
<1>2. QED BY <1>1 DEF Alarm!Green, Lights

(* Light and sound that begin with a call are counted by it. *)
LEMMA AlarmShows ==
    ASSUME NEW p \in DOMAIN AlarmConf, AlarmIInv(p), NEW l, Alarm(p)!Show(l)
    PROVE  /\ a_lamp' = l
           /\ a_flashes' = a_flashes + (IF ~a_lamp.red /\ l.red THEN 1 ELSE 0)
           /\ a_beeps' = a_beeps + (IF ~a_lamp.beep /\ l.beep THEN 1 ELSE 0)
  BY DEF Alarm!Show, Alarm!Rises

(* The end of a group, early or not: the separator. *)
LEMMA AlarmSeparates ==
    ASSUME NEW p \in DOMAIN AlarmConf, AlarmIInv(p), NEW off \in SUBSET Alarm(p)!Motors,
           a_offline' = off, Alarm(p)!StartSeparator(off)
    PROVE  /\ a_phase' = "separator" /\ ~a_lamp'.red /\ ~a_lamp'.beep
           /\ a_flashes' = a_flashes /\ a_beeps' = a_beeps
           /\ PassedFew(p)'
           /\ a_named' \in Alarm(p)!Motors \cup {NoMotor} => Alarm(p)!TypeOK'
<1>1. /\ a_phase' = "separator" /\ a_since' = 0 /\ Alarm(p)!Show(Alarm(p)!Blue)
      /\ Alarm(p)!KeepPassed(off) /\ UNCHANGED <<a_active, a_index>>
  BY DEF Alarm!StartSeparator
<1>2. Alarm(p)!Blue \in Lights /\ ~Alarm(p)!Blue.red /\ ~Alarm(p)!Blue.beep
  BY BlueLight
<1>3. /\ a_lamp' \in Lights /\ ~a_lamp'.red /\ ~a_lamp'.beep
      /\ a_flashes \in Nat /\ a_beeps \in Nat
      /\ a_flashes' = a_flashes /\ a_beeps' = a_beeps
  BY <1>1, <1>2, AlarmShows DEF AlarmIInv, Alarm!TypeOK
<1>4. PassedFew(p)' /\ a_passed' \in [Alarm(p)!Motors -> Nat]
  BY <1>1, PassesKept
<1>5. a_named' \in Alarm(p)!Motors \cup {NoMotor} => Alarm(p)!TypeOK'
  BY <1>1, <1>3, <1>4 DEF AlarmIInv, Alarm!TypeOK, Lights
<1>6. QED BY <1>1, <1>3, <1>4, <1>5

LEMMA AlarmCuts ==
    ASSUME NEW p \in DOMAIN AlarmConf, AlarmIInv(p), NEW off \in SUBSET Alarm(p)!Motors,
           NEW gap \in 0 .. AlarmConf[p].max_gap, a_offline' = off,
           Alarm(p)!CutGroup(off, gap)
    PROVE  AlarmIInv(p)'
<1>1. Alarm(p)!StartSeparator(off) /\ a_named' = a_named /\ a_phase = "group"
  BY DEF Alarm!CutGroup
<1>2. a_named = NoMotor
  BY <1>1 DEF AlarmIInv, GroupSound
<1>3. Alarm(p)!TypeOK' /\ PassedFew(p)'
  BY <1>1, <1>2, AlarmSeparates
<1>4. GroupSound(p)' /\ Alarm(p)!NamesRight'
  BY <1>1, <1>2, AlarmSeparates DEF GroupSound, Alarm!NamesRight
<1>5. QED BY <1>3, <1>4 DEF AlarmIInv

LEMMA AlarmEnds ==
    ASSUME NEW p \in DOMAIN AlarmConf, AlarmIInv(p), NEW off \in SUBSET Alarm(p)!Motors,
           NEW gap \in 0 .. AlarmConf[p].max_gap, a_offline' = off,
           Alarm(p)!EndGroup(off, gap)
    PROVE  AlarmIInv(p)'
<1> DEFINE P == AlarmConf[p].pulse
           id == Alarm(p)!HardwareId(a_active)
           beeps == AlarmConf[p].bus[a_active]
<1>1. /\ Alarm(p)!StartSeparator(off) /\ a_named' = a_active /\ a_phase = "group"
      /\ ~(gap >= P) /\ a_since + gap >= Alarm(p)!Duration(a_active)
  BY DEF Alarm!EndGroup, Alarm!Cut
<1>2. /\ a_active \in Alarm(p)!Motors /\ a_since \in Nat /\ gap \in Nat /\ P \in Nat \ {0}
      /\ id \in Nat /\ beeps \in 0 .. 2
  BY <1>1, AlarmNumbers DEF AlarmIInv, Alarm!TypeOK
<1>3. GroupCounts(p, a_active, a_since)
  BY <1>1, <1>2 DEF AlarmIInv, GroupSound
<1>4. a_since + gap >= 2 * P * id /\ a_since + gap >= 2 * P * beeps
  <2>1. Alarm(p)!RedDuration(a_active) = 2 * P * id
    BY DEF Alarm!RedDuration
  <2>2. Alarm(p)!Duration(a_active) = IF 2 * P * id > AlarmConf[p].min_group
                                      THEN 2 * P * id ELSE AlarmConf[p].min_group
    BY <2>1 DEF Alarm!Duration
  <2>3. 2 * P * beeps <= 4 * P
    BY <1>2
  <2>4. AlarmConf[p].min_group \in Nat /\ AlarmConf[p].min_group >= 4 * P
    BY AlarmNumbers
  <2>5. 2 * P * id \in Nat
    BY <1>2
  <2> HIDE DEF P, id, beeps
  <2>6. QED BY <1>1, <1>2, <2>2, <2>3, <2>4, <2>5
<1>5. Begun(a_since, 2 * P, id) = id /\ Begun(a_since, 2 * P, beeps) = beeps
  <2> HIDE DEF P, id, beeps
  <2>1. QED BY <1>1, <1>2, <1>4, AllBegun
<1>6. /\ a_flashes = IF id = 0 THEN 1 ELSE id
      /\ a_beeps = beeps
  BY <1>3, <1>5 DEF GroupCounts
<1>7. a_flashes = (IF Alarm(p)!Unmapped(a_active) THEN 1 ELSE AlarmConf[p].ids[a_active])
  BY <1>2, <1>6, AlarmNumbers
<1>8. Alarm(p)!TypeOK' /\ PassedFew(p)'
  BY <1>1, <1>2, AlarmSeparates
<1>9. Alarm(p)!NamesRight'
  <2>1. a_flashes' = a_flashes /\ a_beeps' = a_beeps /\ a_named' = a_active
    BY <1>1, AlarmSeparates
  <2>2. QED BY <1>6, <1>7, <2>1 DEF Alarm!NamesRight, Alarm!Unmapped
<1>10. GroupSound(p)'
  BY <1>1, AlarmSeparates DEF GroupSound
<1>11. QED BY <1>8, <1>9, <1>10 DEF AlarmIInv

(* The lights of a group that goes on, or begins (t = 0). *)
LEMMA GroupIsShown ==
    ASSUME NEW p \in DOMAIN AlarmConf, NEW m \in Alarm(p)!Motors, NEW t \in Nat
    PROVE  LET l == Alarm(p)!Shown(m, t)
               id == Alarm(p)!HardwareId(m)
               P == AlarmConf[p].pulse
           IN  /\ l \in Lights
               /\ l.red = (id = 0 \/ Lit(t, P, id))
               /\ l.beep = Lit(t, P, AlarmConf[p].bus[m])
<1> DEFINE P == AlarmConf[p].pulse
           id == Alarm(p)!HardwareId(m)
           red == id = 0 \/ (t < Alarm(p)!RedDuration(m) /\ Alarm(p)!FirstHalf(t))
           beep == t < 2 * P * AlarmConf[p].bus[m] /\ Alarm(p)!FirstHalf(t)
<1>1. red = (id = 0 \/ Lit(t, P, id)) /\ beep = Lit(t, P, AlarmConf[p].bus[m])
  BY Zenon DEF Alarm!RedDuration, Alarm!FirstHalf, Lit
<1>2. red \in BOOLEAN /\ beep \in BOOLEAN
  BY Zenon DEF Lit
<1>3. Alarm(p)!Shown(m, t) = [[Alarm(p)!Dark EXCEPT !.red = red] EXCEPT !.beep = beep]
  BY DEF Alarm!Shown
<1>4. Alarm(p)!Dark \in Lights
  BY DEF Alarm!Dark, Lights
<1> HIDE DEF red, beep
<1>5. /\ Alarm(p)!Shown(m, t) \in Lights
      /\ Alarm(p)!Shown(m, t).red = red /\ Alarm(p)!Shown(m, t).beep = beep
  BY <1>2, <1>3, <1>4 DEF Lights
<1>6. QED BY <1>1, <1>5, Zenon DEF red, beep

LEMMA AlarmGoesOn ==
    ASSUME NEW p \in DOMAIN AlarmConf, AlarmIInv(p), NEW off \in SUBSET Alarm(p)!Motors,
           NEW gap \in 0 .. AlarmConf[p].max_gap, a_offline' = off,
           Alarm(p)!GoOn(off, gap)
    PROVE  AlarmIInv(p)'
<1> DEFINE P == AlarmConf[p].pulse
           m == a_active
           id == Alarm(p)!HardwareId(m)
           beeps == AlarmConf[p].bus[m]
           t == a_since
           u == t + gap
<1>1. /\ a_phase = "group" /\ m \in off /\ ~(gap >= P)
      /\ a_since' = u /\ Alarm(p)!Show(Alarm(p)!Shown(m, u)) /\ Alarm(p)!KeepPassed(off)
      /\ UNCHANGED <<a_phase, a_active, a_index, a_named>>
  BY DEF Alarm!GoOn, Alarm!Cut
<1>2. /\ m \in Alarm(p)!Motors /\ t \in Nat /\ gap \in Nat /\ P \in Nat \ {0} /\ gap < P
      /\ id \in Nat /\ beeps \in Nat /\ u \in Nat
  <2>1. /\ m \in Alarm(p)!Motors /\ t \in Nat /\ gap \in Nat /\ P \in Nat \ {0}
    BY <1>1, AlarmNumbers DEF AlarmIInv, Alarm!TypeOK
  <2>2. id \in Nat /\ beeps \in 0 .. 2
    BY <2>1, AlarmNumbers
  <2> HIDE DEF P, id, beeps, t, m
  <2>3. QED BY <1>1, <2>1, <2>2
<1>3. /\ GroupLights(p, m, t) /\ GroupCounts(p, m, t) /\ a_named = NoMotor
      /\ a_flashes \in Nat /\ a_beeps \in Nat
  BY <1>1, <1>2 DEF AlarmIInv, GroupSound, Alarm!TypeOK
<1>4. /\ a_lamp' = Alarm(p)!Shown(m, u)
      /\ a_flashes' = a_flashes + (IF ~a_lamp.red /\ a_lamp'.red THEN 1 ELSE 0)
      /\ a_beeps' = a_beeps + (IF ~a_lamp.beep /\ a_lamp'.beep THEN 1 ELSE 0)
  BY <1>1, AlarmShows
<1>5. /\ a_lamp' \in Lights
      /\ a_lamp'.red = (id = 0 \/ Lit(u, P, id))
      /\ a_lamp'.beep = Lit(u, P, beeps)
  BY <1>2, <1>4, GroupIsShown
<1>6. /\ a_lamp.red = (id = 0 \/ Lit(t, P, id)) /\ a_lamp.beep = Lit(t, P, beeps)
      /\ a_flashes = (IF id = 0 THEN 1 ELSE Begun(t, 2 * P, id))
      /\ a_beeps = Begun(t, 2 * P, beeps)
  BY <1>3 DEF GroupLights, GroupCounts
<1>7. ASSUME NEW n \in Nat
      PROVE  Begun(u, 2 * P, n)
                = Begun(t, 2 * P, n) + (IF ~Lit(t, P, n) /\ Lit(u, P, n) THEN 1 ELSE 0)
  <2>1. t \in Nat /\ gap \in Nat /\ P \in Nat \ {0} /\ gap < P
    BY <1>2
  <2> HIDE DEF P, t
  <2>2. QED BY <2>1, CountsFlashes, Zenon
<1>8. /\ a_flashes' = IF id = 0 THEN 1 ELSE Begun(u, 2 * P, id)
      /\ a_beeps' = Begun(u, 2 * P, beeps)
  <2> HIDE DEF P, t, u, id, beeps, m
  <2>1. a_beeps' = Begun(u, 2 * P, beeps)
    BY <1>2, <1>4, <1>5, <1>6, <1>7
  <2>2. CASE id = 0
    <3>1. a_lamp.red = TRUE
      BY <1>6, <2>2
    <3>2. a_flashes' = a_flashes
      BY <1>3, <1>4, <3>1
    <3>3. QED BY <1>6, <2>1, <2>2, <3>2
  <2>3. CASE id # 0
    BY <1>2, <1>4, <1>5, <1>6, <1>7, <2>3
  <2>4. QED BY <2>1, <2>2, <2>3
<1>9. a_flashes' \in Nat /\ a_beeps' \in Nat
  BY <1>3, <1>4
<1>10. PassedFew(p)' /\ a_passed' \in [Alarm(p)!Motors -> Nat]
  BY <1>1, PassesKept
<1>11. Alarm(p)!TypeOK'
  BY <1>1, <1>2, <1>5, <1>9, <1>10 DEF AlarmIInv, Alarm!TypeOK, Lights
<1>12. GroupSound(p)'
  <2>1. a_active' = m /\ a_since' = u /\ a_active' \in a_offline' /\ a_phase' = "group"
        /\ a_named' = NoMotor
    BY <1>1, <1>3
  <2>2. ASSUME NEW n \in Alarm(p)!Motors, NEW v \in Nat, n = a_active', v = a_since'
        PROVE  GroupLights(p, n, v)' /\ GroupCounts(p, n, v)'
    <3>1. n = m /\ v = u
      BY <2>1, <2>2
    <3>2. QED BY <1>5, <1>8, <3>1 DEF GroupLights, GroupCounts
  <2>3. QED BY <2>1, <2>2 DEF GroupSound
<1>13. Alarm(p)!NamesRight'
  BY <1>1, <1>3 DEF Alarm!NamesRight
<1>14. QED BY <1>10, <1>11, <1>12, <1>13 DEF AlarmIInv

LEMMA AlarmBegins ==
    ASSUME NEW p \in DOMAIN AlarmConf, AlarmIInv(p), NEW off \in SUBSET Alarm(p)!Motors,
           NEW gap \in 0 .. AlarmConf[p].max_gap, a_offline' = off,
           Alarm(p)!NextGroup(off, gap)
    PROVE  AlarmIInv(p)'
<1> DEFINE M == Alarm(p)!Motors
           m == Alarm(p)!NextOffline(off)
           P == AlarmConf[p].pulse
           count == AlarmConf[p].count
           id == Alarm(p)!HardwareId(m)
           beeps == AlarmConf[p].bus[m]
           l == Alarm(p)!Shown(m, 0)
<1>1. /\ off # {} /\ a_phase' = "group" /\ a_active' = m /\ a_index' = Alarm(p)!Following(m)
      /\ a_since' = 0 /\ a_lamp' = l /\ a_named' = NoMotor
      /\ a_flashes' = Alarm(p)!Rises(FALSE, a_lamp'.red)
      /\ a_beeps' = Alarm(p)!Rises(FALSE, a_lamp'.beep)
      /\ a_passed' = [k \in M |-> IF k \in off \ {m} THEN a_passed[k] + 1 ELSE 0]
  BY DEF Alarm!NextGroup, Alarm!StartGroup
<1>2. /\ count \in Nat \ {0} /\ P \in Nat \ {0} /\ M = 0 .. count - 1 /\ a_index \in M
      /\ a_passed \in [M -> Nat]
      /\ \A k \in M : a_passed[k] + Before(count, k) < count
  BY AlarmNumbers DEF AlarmIInv, Alarm!TypeOK, PassedFew
<1>3. m \in off /\ m \in M /\ \A k \in off : Before(count, m) <= Before(count, k)
  BY <1>1, <1>2, NextIsFirst
<1>4. id \in Nat /\ beeps \in 0 .. 2
  BY <1>3, AlarmNumbers
<1>5. l \in Lights /\ l.red = (id = 0 \/ Lit(0, P, id)) /\ l.beep = Lit(0, P, beeps)
  BY <1>3, GroupIsShown
<1>6. a_index' = IF m + 1 = count THEN 0 ELSE m + 1
  <2>1. a_index' = (m + 1) % count
    BY <1>1 DEF Alarm!Following
  <2> HIDE DEF m, count, M
  <2>2. QED BY <1>2, <1>3, <2>1, AroundBy
<1> HIDE DEF m, count, M, P, id, beeps, l
<1>7. ASSUME NEW k \in M
      PROVE  a_passed'[k] + Before(count, k)' < count
  <2>1. Before(count, k)' = IF k >= a_index' THEN k - a_index' ELSE k - a_index' + count
    BY DEF Before
  <2>2. CASE k \in off \ {m}
    <3>1. Before(count, m) <= Before(count, k) /\ k # m
      BY <1>3, <2>2
    <3>2. Before(count, k)' + 1 <= Before(count, k)
      <4>1. /\ m \in Nat /\ k \in Nat /\ a_index \in Nat /\ count \in Nat
            /\ m < count /\ k < count /\ a_index < count /\ k # m
        BY <1>2, <1>3, <3>1
      <4>2. CASE m + 1 = count
        BY <1>6, <2>1, <3>1, <4>1, <4>2 DEF Before
      <4>3. CASE m + 1 # count
        BY <1>6, <2>1, <3>1, <4>1, <4>3 DEF Before
      <4>4. QED BY <4>2, <4>3
    <3>3. a_passed'[k] = a_passed[k] + 1 /\ a_passed[k] \in Nat
      BY <1>1, <1>2, <2>2
    <3>4. Before(count, k)' \in Nat /\ Before(count, k) \in Nat
      BY <1>2, <1>3, <1>6, <2>1 DEF Before
    <3>5. a_passed[k] + Before(count, k) < count
      BY <1>2
    <3> DEFINE x == Before(count, k)'
               y == Before(count, k)
    <3> HIDE DEF x, y
    <3>6. QED BY <1>2, <3>2, <3>3, <3>4, <3>5 DEF x, y
  <2>3. CASE k \notin off \ {m}
    BY <1>1, <1>2, <1>3, <1>6, <2>1, <2>3
  <2>4. QED BY <2>2, <2>3
<1>8. PassedFew(p)' /\ a_passed' \in [M -> Nat]
  <2>1. PassedFew(p)'
    BY <1>7 DEF PassedFew, Before, M, count
  <2>2. a_passed' \in [M -> Nat]
    BY <1>1, <1>2
  <2>3. QED BY <2>1, <2>2
<1>9. /\ a_flashes' = IF l.red THEN 1 ELSE 0
      /\ a_beeps' = IF l.beep THEN 1 ELSE 0
  BY <1>1 DEF Alarm!Rises
<1>10. Alarm(p)!TypeOK'
  <2>1. a_index' \in M
    BY <1>2, <1>3, <1>6
  <2>2. a_offline' \subseteq M
    BY DEF M
  <2>3. a_flashes' \in Nat /\ a_beeps' \in Nat
    BY <1>9
  <2>4. a_lamp' \in Lights
    BY <1>1, <1>5
  <2>5. QED BY <1>1, <1>3, <1>8, <2>1, <2>2, <2>3, <2>4 DEF Alarm!TypeOK, Lights, M
<1>11. \A n \in Nat : Begun(0, 2 * P, n) = IF n = 0 THEN 0 ELSE 1
  <2>1. 2 * P \in Nat \ {0}
    BY <1>2
  <2>2. 0 \div (2 * P) = 0
    BY <2>1, DivModUnique, DivMod
  <2>3. QED BY <2>2 DEF Begun
<1>12. \A n \in Nat : Lit(0, P, n) <=> n # 0
  <2>1. 2 * P \in Nat \ {0} /\ P > 0
    BY <1>2
  <2>2. 0 % (2 * P) = 0
    BY <2>1
  <2>3. \A n \in Nat : 0 < 2 * P * n <=> n # 0
    BY <2>1
  <2>4. QED BY <2>1, <2>2, <2>3 DEF Lit
<1>13. GroupSound(p)'
  <2>1. l.red
    <3>1. id = 0 \/ Lit(0, P, id)
      BY <1>4, <1>12
    <3>2. QED BY <1>5, <3>1
  <2>2. a_flashes' = IF id = 0 THEN 1 ELSE Begun(0, 2 * P, id)
    BY <1>4, <1>9, <1>11, <2>1
  <2>3. a_beeps' = Begun(0, 2 * P, beeps)
    <3>1. CASE beeps = 0
      <4>1. ~l.beep
        BY <1>5, <1>12, <3>1
      <4>2. QED BY <1>9, <1>11, <3>1, <4>1
    <3>2. CASE beeps # 0
      <4>1. l.beep
        BY <1>4, <1>5, <1>12, <3>2
      <4>2. QED BY <1>4, <1>9, <1>11, <3>2, <4>1
    <3>3. QED BY <3>1, <3>2
  <2>4. ASSUME NEW n \in Alarm(p)!Motors, NEW v \in Nat, n = a_active', v = a_since'
        PROVE  GroupLights(p, n, v)' /\ GroupCounts(p, n, v)'
    <3>1. n = m /\ v = 0
      BY <1>1, <2>4
    <3>2. QED BY <1>1, <1>5, <2>2, <2>3, <3>1 DEF GroupLights, GroupCounts, id, beeps, P
  <2>5. QED BY <1>1, <1>3, <2>4 DEF GroupSound
<1>14. Alarm(p)!NamesRight'
  BY <1>1 DEF Alarm!NamesRight
<1>15. QED BY <1>8, <1>10, <1>13, <1>14 DEF AlarmIInv

LEMMA AlarmStaysBlue ==
    ASSUME NEW p \in DOMAIN AlarmConf, AlarmIInv(p), NEW off \in SUBSET Alarm(p)!Motors,
           NEW gap \in 0 .. AlarmConf[p].max_gap, a_offline' = off,
           Alarm(p)!StayBlue(off, gap)
    PROVE  AlarmIInv(p)'
<1>1. /\ a_phase = "separator" /\ a_since' = a_since + gap
      /\ Alarm(p)!Show(Alarm(p)!Blue) /\ Alarm(p)!KeepPassed(off)
      /\ UNCHANGED <<a_phase, a_active, a_index, a_named>>
  BY DEF Alarm!StayBlue
<1>2. Alarm(p)!Blue \in Lights /\ ~Alarm(p)!Blue.red /\ ~Alarm(p)!Blue.beep
  BY BlueLight
<1>3. /\ a_lamp' \in Lights /\ ~a_lamp'.red /\ ~a_lamp'.beep
      /\ a_flashes' = a_flashes /\ a_beeps' = a_beeps
  BY <1>1, <1>2, AlarmShows DEF AlarmIInv, Alarm!TypeOK
<1>4. PassedFew(p)' /\ a_passed' \in [Alarm(p)!Motors -> Nat]
  BY <1>1, PassesKept
<1>5. a_since' \in Nat
  BY <1>1, AlarmNumbers DEF AlarmIInv, Alarm!TypeOK
<1>6. Alarm(p)!TypeOK'
  BY <1>1, <1>3, <1>4, <1>5 DEF AlarmIInv, Alarm!TypeOK, Lights
<1>7. GroupSound(p)' /\ Alarm(p)!NamesRight'
  BY <1>1, <1>3 DEF AlarmIInv, GroupSound, Alarm!NamesRight
<1>8. QED BY <1>4, <1>6, <1>7 DEF AlarmIInv

LEMMA AlarmIsQuiet ==
    ASSUME NEW p \in DOMAIN AlarmConf, AlarmIInv(p), NEW off \in SUBSET Alarm(p)!Motors,
           a_offline' = off, Alarm(p)!AllOnline(off)
    PROVE  AlarmIInv(p)'
<1>1. /\ a_phase' = "quiet" /\ a_active' = NoMotor /\ a_since' = 0 /\ a_named' = NoMotor
      /\ Alarm(p)!Show(Alarm(p)!Green) /\ Alarm(p)!KeepPassed(off) /\ a_index' = a_index
  BY DEF Alarm!AllOnline
<1>2. Alarm(p)!Green \in Lights /\ ~Alarm(p)!Green.red /\ ~Alarm(p)!Green.beep
  BY GreenLight
<1>3. /\ a_lamp' \in Lights /\ ~a_lamp'.red /\ ~a_lamp'.beep
      /\ a_flashes' = a_flashes /\ a_beeps' = a_beeps
  BY <1>1, <1>2, AlarmShows DEF AlarmIInv, Alarm!TypeOK
<1>4. PassedFew(p)' /\ a_passed' \in [Alarm(p)!Motors -> Nat]
  BY <1>1, PassesKept
<1>5. Alarm(p)!TypeOK'
  BY <1>1, <1>3, <1>4 DEF AlarmIInv, Alarm!TypeOK, Lights
<1>6. GroupSound(p)' /\ Alarm(p)!NamesRight'
  BY <1>1, <1>3 DEF GroupSound, Alarm!NamesRight
<1>7. QED BY <1>4, <1>5, <1>6 DEF AlarmIInv

LEMMA AlarmStep ==
    ASSUME NEW p \in DOMAIN AlarmConf, AlarmIInv(p), Alarm(p)!Next
    PROVE  AlarmIInv(p)'
<1>1. PICK off \in SUBSET Alarm(p)!Motors, gap \in 0 .. AlarmConf[p].max_gap :
         Alarm(p)!Task(off, gap)
  BY DEF Alarm!Next
<1>2. a_offline' = off
  BY <1>1 DEF Alarm!Task
<1>3. CASE Alarm(p)!AllOnline(off)
  BY <1>2, <1>3, AlarmIsQuiet
<1>4. CASE Alarm(p)!CutGroup(off, gap)
  BY <1>2, <1>4, AlarmCuts
<1>5. CASE Alarm(p)!EndGroup(off, gap)
  BY <1>2, <1>5, AlarmEnds
<1>6. CASE Alarm(p)!GoOn(off, gap)
  BY <1>2, <1>6, AlarmGoesOn
<1>7. CASE Alarm(p)!StayBlue(off, gap)
  BY <1>2, <1>7, AlarmStaysBlue
<1>8. CASE Alarm(p)!NextGroup(off, gap)
  BY <1>2, <1>8, AlarmBegins
<1>9. QED BY <1>1, <1>3, <1>4, <1>5, <1>6, <1>7, <1>8 DEF Alarm!Task

LEMMA AlarmRests ==
    ASSUME NEW p \in DOMAIN AlarmConf, AlarmIInv(p), UNCHANGED alarm
    PROVE  AlarmIInv(p)'
<1>1. UNCHANGED <<a_offline, a_phase, a_active, a_index, a_since, a_lamp, a_flashes,
                  a_beeps, a_named, a_passed>>
  BY DEF alarm
<1>2. Alarm(p)!TypeOK' /\ Alarm(p)!NamesRight'
  BY <1>1 DEF AlarmIInv, Alarm!TypeOK, Alarm!NamesRight
<1>3. PassedFew(p)'
  BY <1>1 DEF AlarmIInv, PassedFew, Before
<1>4. GroupSound(p)'
  BY <1>1 DEF AlarmIInv, GroupSound, GroupLights, GroupCounts
<1>5. QED BY <1>2, <1>3, <1>4 DEF AlarmIInv

LEMMA AlarmIInvIsEnough ==
    ASSUME NEW p \in DOMAIN AlarmConf, AlarmIInv(p)
    PROVE  Alarm(p)!AlarmInv
<1>1. Alarm(p)!TypeOK /\ Alarm(p)!NamesRight
  BY DEF AlarmIInv
<1>2. Alarm(p)!AboutOffline
  BY DEF AlarmIInv, GroupSound, Alarm!AboutOffline
<1>3. Alarm(p)!TakesTurns
  <2>1. ASSUME NEW m \in Alarm(p)!Motors
        PROVE  a_passed[m] < AlarmConf[p].count
    <3>1. /\ a_passed[m] \in Nat /\ a_index \in Alarm(p)!Motors
          /\ a_passed[m] + Before(AlarmConf[p].count, m) < AlarmConf[p].count
      BY DEF AlarmIInv, PassedFew, Alarm!TypeOK
    <3>2. Before(AlarmConf[p].count, m) \in Nat
      BY <3>1, AlarmNumbers DEF Before
    <3>3. QED BY <3>1, <3>2, AlarmNumbers
  <2>2. QED BY <2>1 DEF Alarm!TakesTurns
<1>4. QED BY <1>1, <1>2, <1>3 DEF Alarm!AlarmInv

(* MotorAlarm for every configuration: the group of a motor that is shown   *)
(* in full tells its bus and its id, however irregular the calls were; red *)
(* and sound are about motors that are offline; and no motor is passed by   *)
(* more groups than there are other motors.                                *)
THEOREM AlarmHolds == AllSpec => []AlarmInv
<1> DEFINE AInv == \A p \in DOMAIN AlarmConf : part = p => AlarmIInv(p)
<1>1. AllInit => AInv
  <2> SUFFICES ASSUME AllInit, NEW p \in DOMAIN AlarmConf, part = p
               PROVE  AlarmIInv(p)
    OBVIOUS
  <2>1. Alarm(p)!Init
    BY DEF AllInit
  <2>2. QED BY <2>1, AlarmStarts
<1>2. AInv /\ [AllNext]_allVars => AInv'
  <2> SUFFICES ASSUME AInv, [AllNext]_allVars, NEW p \in DOMAIN AlarmConf, part' = p
               PROVE  AlarmIInv(p)'
    OBVIOUS
  <2>1. part = p /\ (UNCHANGED alarm \/ Alarm(p)!Next)
    BY DEF AllNext, allVars
  <2>2. AlarmIInv(p)
    BY <2>1
  <2>3. QED BY <2>1, <2>2, AlarmStep, AlarmRests
<1>3. AInv => AlarmInv
  BY AlarmIInvIsEnough DEF AlarmInv
<1>4. QED BY <1>1, <1>2, <1>3, PTL DEF AllSpec

=============================================================================
