--------------------------- MODULE CanManagerProofs ---------------------------
(***************************************************************************)
(* Proofs about CanManager for every number of buses and frames, every set *)
(* of slots and times to live, and every delay of the driver.              *)
(*                                                                         *)
(* Two things are carried through the control cycle.  A slot and a frame   *)
(* that still may be sent have at least as long until they are out of date *)
(* as the time the manager gives them; and after a fault the slots forget  *)
(* bus by bus, the last of them before the second service finds the buses  *)
(* healthy, which arming waits for.                                        *)
(***************************************************************************)
EXTENDS CanManager, TLAPS, FiniteSetTheorems, WellFoundedInduction

(* A slot's time is not longer than that of its command. *)
GoodSlots ==
    {c \in Slot : /\ c.nonzero => c.valid
                  /\ c.valid /\ c.left > 0 => c.due >= c.left}

GoodFrames ==
    {f \in Frame \cup {Empty} :
        f.full /\ f.commands # {} /\ ~f.old => f.due >= f.left}

SlotTable == [Buses -> [Ids -> [Slots -> GoodSlots]]]
FrameTable == [Buses -> [Ids -> GoodFrames]]

Cycles == [at : {"idle", "dispatch", "flush"}, bus : Buses, frame : 0 .. FrameCount + 1]

(* No command of before a fault in the slots of a bus. *)
Forgotten(b) == \A i \in Ids, s \in Slots : ~slot[b][i][s].old

(* The flush after the first service has cleared the bus. *)
Passed(b) ==
    \/ cycle.at = "idle"
    \/ cycle.at = "flush" /\ b < cycle.bus
    \/ cycle.at = "flush" /\ b = cycle.bus /\ cycle.frame # 0

Forgetting ==
    \A b \in Buses :
        armed \/ services = 2 \/ (services = 1 /\ Passed(b)) => Forgotten(b)

IInv ==
    /\ slot \in SlotTable /\ mailbox \in FrameTable
    /\ pending \in [Buses -> [Ids -> BOOLEAN]]
    /\ cycle \in Cycles
    /\ armed \in BOOLEAN /\ services \in 0 .. 2
    /\ wire \in [Buses -> [Ids -> SUBSET Slots]]
    /\ Forgetting
    /\ armed => NothingOld

----------------------------------------------------------------------------
(* Least and greatest elements, from the well-founded orders of the library. *)

LEMMA LeastNatural ==
    ASSUME NEW S \in SUBSET Nat, S # {}
    PROVE  \E x \in S : \A y \in S : x <= y
<1>1. PICK x \in S : \A y \in S : <<y, x>> \notin OpToRel(<, Nat)
  BY NatLessThanWellFounded, WFMin, Zenon
<1>2. \A y \in S : ~(y < x)
  BY <1>1 DEF OpToRel
<1> QED
  BY <1>2

(* A smallest subset without a greatest element would lose one element and *)
(* have one.                                                               *)
LEMMA GreatestInteger ==
    ASSUME NEW S \in SUBSET Int, S # {}, IsFiniteSet(S)
    PROVE  \E x \in S : \A y \in S : y <= x
<1> DEFINE Good(A) == A # {} => \E x \in A : \A y \in A : y <= x
           Bad == {A \in SUBSET S : ~Good(A)}
<1>1. SUFFICES ASSUME Bad # {} PROVE FALSE
  BY Zenon
<1>2. IsWellFoundedOn(StrictSubsetOrdering(S), SUBSET S)
  BY FS_StrictSubsetOrderingWellFounded, FS_FiniteSubsetsOfFinite
<1>3. PICK A \in Bad : \A B \in Bad : <<B, A>> \notin StrictSubsetOrdering(S)
  <2>1. Bad \subseteq SUBSET S
    OBVIOUS
  <2> HIDE DEF Bad
  <2> QED
    BY <2>1, <1>1, <1>2, WFMin, Zenon
<1>4. PICK a : a \in A
  BY <1>3
<1>5. A \ {a} \notin Bad
  BY <1>3, <1>4 DEF StrictSubsetOrdering
<1>6. A \ {a} # {} => \E x \in A \ {a} : \A y \in A \ {a} : y <= x
  BY <1>5, <1>3
<1>7. Good(A)
  BY <1>3, <1>4, <1>6
<1> QED
  BY <1>7

----------------------------------------------------------------------------
(* Slots *)

LEMMA Times ==
    ASSUME ManagerAssumption
    PROVE  /\ Longest \in Nat /\ \A s \in Slots : Ttl[s] \in 1 .. Longest
           /\ Slack \in Nat /\ Least \in Int /\ Least <= -Slack
<1> DEFINE T == {Ttl[s] : s \in Slots}
<1>1. T \in SUBSET Int /\ T \in SUBSET Nat /\ T # {}
  BY DEF ManagerAssumption
<1>2. IsFiniteSet(T)
  <2>1. Ttl \in Surjection(Slots, T)
    BY DEF ManagerAssumption, Surjection
  <2> QED
    BY <2>1, FS_Surjection DEF ManagerAssumption
<1>3. \E x \in T : \A y \in T : x >= y
  <2>1. PICK x \in T : \A y \in T : y <= x
    BY <1>1, <1>2, GreatestInteger
  <2> QED
    BY <2>1, <1>1
<1>4. Longest \in T /\ \A y \in T : Longest >= y
  BY <1>3 DEF Longest, Max
<1>5. Longest \in Nat /\ \A s \in Slots : Ttl[s] \in 1 .. Longest
  BY <1>1, <1>4 DEF ManagerAssumption
<1> QED
  BY <1>5 DEF ManagerAssumption, Least

LEMMA NoCommandGood ==
    ASSUME ManagerAssumption
    PROVE  NoCommand \in GoodSlots
BY Times DEF NoCommand, GoodSlots, Slot

LEMMA CommandGood ==
    ASSUME ManagerAssumption, NEW s \in Slots, NEW nonzero \in BOOLEAN
    PROVE  Command(s, nonzero) \in GoodSlots /\ ~Command(s, nonzero).old
BY Times DEF Command, GoodSlots, Slot

LEMMA OldGood ==
    ASSUME ManagerAssumption, NEW c \in GoodSlots
    PROVE  [c EXCEPT !.old = c.nonzero] \in GoodSlots
BY DEF GoodSlots, Slot

LEMMA OlderSlotGood ==
    ASSUME ManagerAssumption, NEW c \in GoodSlots
    PROVE  OlderSlot(c) \in GoodSlots /\ OlderSlot(c).old = c.old
<1> DEFINE left == IF c.left > 0 THEN c.left - 1 ELSE c.left
           due == IF c.valid THEN (IF c.due > Least THEN c.due - 1 ELSE c.due) ELSE 0
           d == [c EXCEPT !.left = left, !.due = due]
<1>1. /\ c.valid \in BOOLEAN /\ c.nonzero \in BOOLEAN
      /\ c.left \in 0 .. Longest /\ c.due \in Least .. Longest
      /\ c.valid /\ c.left > 0 => c.due >= c.left
      /\ c \in Slot
  BY DEF GoodSlots, Slot
<1>2. /\ left \in 0 .. Longest /\ due \in Least .. Longest
      /\ c.valid /\ left > 0 => due >= left
  BY <1>1, Times
<1>3. OlderSlot(c) = d
  BY DEF OlderSlot, Less
<1> HIDE DEF left, due
<1>4. /\ d \in Slot /\ d.old = c.old /\ d.valid = c.valid /\ d.nonzero = c.nonzero
      /\ d.left = left /\ d.due = due
  BY <1>1, <1>2 DEF Slot
<1> HIDE DEF d
<1>5. d \in GoodSlots
  BY <1>1, <1>2, <1>4 DEF GoodSlots
<1> QED
  BY <1>3, <1>4, <1>5

LEMMA FreshGood ==
    ASSUME ManagerAssumption, NEW slots \in [Slots -> GoodSlots]
    PROVE  /\ Fresh(slots) \in [Slots -> GoodSlots]
           /\ \A s \in Slots : Fresh(slots)[s].old => slots[s].old
           /\ \A s \in CommandsOf(Fresh(slots)) :
                 LET c == Fresh(slots)[s]
                 IN  c.valid /\ c.left \in 1 .. Longest /\ c.due \in c.left .. Longest
<1>1. ASSUME NEW s \in Slots
      PROVE  Fresh(slots)[s] \in GoodSlots
             /\ (Fresh(slots)[s].old => slots[s].old)
  BY NoCommandGood DEF Fresh, NoCommand
<1>2. ASSUME NEW s \in CommandsOf(Fresh(slots))
      PROVE  LET c == Fresh(slots)[s]
             IN  c.valid /\ c.left \in 1 .. Longest /\ c.due \in c.left .. Longest
  BY <1>1, Times
  DEF Fresh, CommandsOf, NoCommand, OutOfDate, GoodSlots, Slot
<1> QED
  BY <1>1, <1>2 DEF Fresh

LEMMA SlotUpdated ==
    ASSUME slot \in SlotTable, NEW b \in Buses, NEW i \in Ids,
           NEW slots \in [Slots -> GoodSlots],
           slot' = [slot EXCEPT ![b][i] = slots]
    PROVE  /\ slot' \in SlotTable
           /\ (\A s \in Slots : slots[s].old => slot[b][i][s].old) =>
                \A c \in Buses : Forgotten(c) => Forgotten(c)'
<1>1. slot' \in SlotTable
  BY DEF SlotTable
<1>2. \A c \in Buses, j \in Ids, s \in Slots :
         slot'[c][j][s] = IF c = b /\ j = i THEN slots[s] ELSE slot[c][j][s]
  BY DEF SlotTable
<1> QED
  BY <1>1, <1>2 DEF Forgotten

----------------------------------------------------------------------------
(* Frames *)

LEMMA EmptyGood == Empty \in GoodFrames /\ ~Empty.full
BY DEF Empty, GoodFrames

LEMMA FullIsFrame ==
    ASSUME NEW f \in GoodFrames, f.full
    PROVE  f \in Frame
<1>1. f # Empty
  BY DEF Empty
<1> QED
  BY <1>1 DEF GoodFrames

(* The deadline of a frame is not after the time of any of its commands.   *)
LEMMA NewFrameGood ==
    ASSUME ManagerAssumption, NEW slots \in [Slots -> GoodSlots]
    PROVE  LET f == NewFrame(Fresh(slots)) IN
           /\ f \in GoodFrames /\ f.full
           /\ f.commands = CommandsOf(Fresh(slots))
           /\ f.old => \E s \in Slots : slots[s].old
<1> DEFINE new == Fresh(slots)
           C == CommandsOf(new)
           L == {new[s].left : s \in C}
           D == {new[s].due : s \in C}
           f == NewFrame(new)
<1>1. /\ C \subseteq Slots
      /\ \A s \in C : new[s].left \in 1 .. Longest /\ new[s].due \in new[s].left .. Longest
  BY FreshGood DEF CommandsOf
<1> HIDE DEF new
<1>2. CASE C = {}
  <2>1. f = [full |-> TRUE, commands |-> {}, left |-> 0, due |-> 0, old |-> FALSE]
    BY <1>2 DEF NewFrame
  <2>2. f \in Frame
    BY <2>1, Times DEF Frame
  <2>3. f \in GoodFrames
    BY <2>1, <2>2 DEF GoodFrames
  <2> QED
    BY <1>2, <2>1, <2>3 DEF new
<1>3. CASE C # {}
  <2>1. L \in SUBSET Nat /\ L # {} /\ D \in SUBSET Nat /\ D # {}
    BY <1>1, <1>3, Times
  <2>2. Min(L) \in L /\ (\A y \in L : Min(L) <= y)
    BY <2>1, LeastNatural DEF Min
  <2>3. Min(D) \in D
    BY <2>1, LeastNatural DEF Min
  <2>4. Min(L) \in 1 .. Longest /\ Min(D) \in 1 .. Longest /\ Min(D) >= Min(L)
    <3>1. PICK s \in C : Min(D) = new[s].due
      BY <2>3
    <3>2. Min(L) <= new[s].left /\ Min(L) \in 1 .. Longest
      BY <1>1, <2>2
    <3> QED
      BY <1>1, <3>1, <3>2, Times
  <2>5. f = [full |-> TRUE, commands |-> C, left |-> Min(L), due |-> Min(D),
             old |-> \E s \in C : new[s].old]
    BY <1>3 DEF NewFrame, Deadline
  <2> HIDE DEF L, D
  <2>6. f \in Frame
    <3>1. (\E s \in C : new[s].old) \in BOOLEAN
      BY Zenon
    <3>2. Min(L) \in -Slack .. Longest /\ Min(D) \in Least .. Longest
      BY <2>4, Times
    <3> HIDE DEF C
    <3> QED
      BY <1>1, <2>5, <3>1, <3>2 DEF Frame
  <2>7. f.full /\ f.commands = C /\ f.left = Min(L) /\ f.due = Min(D)
        /\ (f.old => \E s \in C : new[s].old)
    BY <2>5
  <2>8. f \in GoodFrames
    BY <2>4, <2>6, <2>7 DEF GoodFrames
  <2> QED
    BY <1>1, <2>7, <2>8, FreshGood DEF new
<1> QED
  BY <1>2, <1>3

LEMMA OlderFrameGood ==
    ASSUME ManagerAssumption, NEW f \in GoodFrames,
           f.full /\ ~f.old /\ f.commands # {} => f.left > -Slack
    PROVE  LET g == OlderFrame(f) IN
           /\ g \in GoodFrames
           /\ g.full = f.full
           /\ f.full => g.commands = f.commands /\ g.old = f.old
<1>1. CASE ~f.full \/ f.commands = {}
  BY <1>1 DEF OlderFrame
<1>2. CASE f.full /\ f.commands # {}
  <2> DEFINE left == IF f.left > -Slack THEN f.left - 1 ELSE f.left
             due == IF f.due > Least THEN f.due - 1 ELSE f.due
             g == [f EXCEPT !.left = left, !.due = due]
  <2>1. /\ f \in Frame /\ f.left \in -Slack .. Longest /\ f.due \in Least .. Longest
        /\ ~f.old => f.due >= f.left
    <3>1. f \in Frame
      BY <1>2, FullIsFrame
    <3> QED
      BY <1>2, <3>1 DEF GoodFrames, Frame
  <2>2. /\ left \in -Slack .. Longest /\ due \in Least .. Longest
        /\ ~f.old => due >= left
    BY <1>2, <2>1, Times
  <2>3. OlderFrame(f) = g
    BY <1>2 DEF OlderFrame, Less
  <2> HIDE DEF left, due
  <2>4. /\ g \in Frame /\ g.full = f.full /\ g.commands = f.commands /\ g.old = f.old
        /\ g.left = left /\ g.due = due
    BY <2>1, <2>2 DEF Frame
  <2> HIDE DEF g
  <2>5. g \in GoodFrames
    BY <2>2, <2>4 DEF GoodFrames
  <2> QED
    BY <2>3, <2>4, <2>5
<1> QED
  BY <1>1, <1>2

LEMMA OldFrameGood ==
    ASSUME NEW f \in GoodFrames, f.full
    PROVE  LET g == [f EXCEPT !.old = TRUE] IN
           g \in GoodFrames /\ g.full /\ g.old /\ g.commands = f.commands
<1> DEFINE g == [f EXCEPT !.old = TRUE]
<1>1. f \in Frame
  BY FullIsFrame
<1>2. g \in Frame /\ g.full /\ g.old /\ g.commands = f.commands
  BY <1>1 DEF Frame
<1> HIDE DEF g
<1>3. g \in GoodFrames
  BY <1>2 DEF GoodFrames
<1> QED
  BY <1>2, <1>3 DEF g

----------------------------------------------------------------------------
(* The operations *)

LEMMA FaultGood ==
    ASSUME ManagerAssumption, NEW slots \in SlotTable, mailbox \in FrameTable,
           Fault(slots), mailbox' = OldMailboxes
    PROVE  /\ slot' \in SlotTable /\ mailbox' \in FrameTable
           /\ armed' \in BOOLEAN /\ services' \in 0 .. 2
           /\ Forgetting' /\ (armed => NothingOld)'
<1>1. \A b \in Buses, i \in Ids, s \in Slots :
         [slots[b][i][s] EXCEPT !.old = slots[b][i][s].nonzero] \in GoodSlots
  BY OldGood DEF SlotTable
<1>2. slot' \in SlotTable
  BY <1>1, Zenon DEF Fault, SlotTable
<1>3. \A b \in Buses, i \in Ids : mailbox[b][i] \in GoodFrames
  BY DEF FrameTable
<1>4. ASSUME NEW b \in Buses, NEW i \in Ids
      PROVE  (IF mailbox[b][i].full THEN [mailbox[b][i] EXCEPT !.old = TRUE]
                                    ELSE Empty) \in GoodFrames
  BY <1>3, OldFrameGood, EmptyGood, Zenon
<1>5. mailbox' \in FrameTable
  BY <1>4, Zenon DEF OldMailboxes, FrameTable
<1>6. armed' = FALSE /\ services' = 0
  BY DEF Fault
<1>7. Forgetting'
  BY <1>6 DEF Forgetting
<1>8. (armed => NothingOld)'
  BY <1>6, Zenon
<1>9. armed' \in BOOLEAN /\ services' \in 0 .. 2
  <2>1. 0 \in 0 .. 2
    OBVIOUS
  <2> QED
    BY <1>6, <2>1, Zenon
<1> QED
  BY <1>2, <1>5, <1>7, <1>8, <1>9, Zenon

LEMMA InitIInv ==
    ASSUME ManagerAssumption, Init
    PROVE  IInv
<1>1. slot \in SlotTable
  BY NoCommandGood DEF Init, SlotTable
<1>2. mailbox \in FrameTable
  BY EmptyGood DEF Init, FrameTable
<1>3. cycle \in Cycles
  BY DEF Init, Cycles, Idle, Buses, ManagerAssumption
<1>4. wire \in [Buses -> [Ids -> SUBSET Slots]]
      /\ pending \in [Buses -> [Ids -> BOOLEAN]]
  BY DEF Init
<1>5. armed = FALSE /\ services = 0
  BY DEF Init
<1>6. armed \in BOOLEAN /\ services \in 0 .. 2 /\ ~armed
  <2>1. 0 \in 0 .. 2
    OBVIOUS
  <2> QED
    BY <1>5, <2>1, Zenon
<1>7. Forgetting
  BY <1>5 DEF Forgetting
<1> QED
  BY <1>1, <1>2, <1>3, <1>4, <1>6, <1>7, Zenon DEF IInv

LEMMA ServiceIInv ==
    ASSUME ManagerAssumption, IInv, Service
    PROVE  IInv'
<1>1. cycle.at = "idle" /\ cycle' = [cycle EXCEPT !.at = "dispatch"]
      /\ cycle' \in Cycles /\ UNCHANGED <<pending, wire>>
  BY DEF Service, IInv, Cycles
<1>2. CASE Fault(slot) /\ mailbox' = OldMailboxes
  BY <1>1, <1>2, FaultGood DEF IInv
<1>3. CASE /\ armed' \in {armed, armed \/ (services = 2 /\ NothingOld)}
           /\ services' = IF services < 2 THEN services + 1 ELSE 2
           /\ UNCHANGED <<slot, mailbox>>
  <2>1. services' \in 0 .. 2 /\ (services' = 2 => services \in 1 .. 2)
    BY <1>3 DEF IInv
  <2>2. /\ armed' \in BOOLEAN
        /\ armed' => armed \/ services = 2
        /\ armed' => armed \/ NothingOld
    BY <1>3, Zenon DEF IInv
  <2>3. ASSUME NEW b \in Buses, armed' \/ services' = 2
        PROVE  Forgotten(b)'
    <3>1. armed \/ services = 2 \/ (services = 1 /\ Passed(b))
      BY <1>1, <2>1, <2>2, <2>3 DEF Passed
    <3>2. Forgotten(b)
      BY <3>1 DEF IInv, Forgetting
    <3> QED
      BY <1>3, <3>2 DEF Forgotten
  <2>4. Forgetting'
    BY <1>1, <2>3 DEF Forgetting, Passed, IInv, Cycles
  <2>5. (armed => NothingOld)'
    BY <1>3, <2>2 DEF NothingOld, IInv
  <2> QED
    BY <1>1, <1>3, <2>1, <2>2, <2>4, <2>5 DEF IInv
<1> QED
  BY <1>2, <1>3 DEF Service

LEMMA SendIInv ==
    ASSUME ManagerAssumption, IInv, NEW b \in Buses, NEW i \in Ids,
           NEW s \in Slots, NEW nonzero \in BOOLEAN,
           SendMotorCurrent(b, i, s, nonzero)
    PROVE  IInv'
<1> DEFINE slots == Updated(slot[b][i], s, nonzero)
<1>1. slots \in [Slots -> GoodSlots]
      /\ \A t \in Slots : slots[t].old => slot[b][i][t].old
  BY CommandGood DEF Updated, IInv, SlotTable
<1>2. slot' = [slot EXCEPT ![b][i] = slots]
  BY DEF SendMotorCurrent, IInv, SlotTable
<1>3. slot' \in SlotTable /\ \A c \in Buses : Forgotten(c) => Forgotten(c)'
  BY <1>1, <1>2, SlotUpdated DEF IInv
<1>4. pending' \in [Buses -> [Ids -> BOOLEAN]]
  BY DEF SendMotorCurrent, IInv
<1>5. UNCHANGED <<cycle, armed, services, mailbox, wire>>
  BY DEF SendMotorCurrent
<1>6. Forgetting' /\ (armed => NothingOld)'
  BY <1>3, <1>5 DEF IInv, Forgetting, Passed, NothingOld
<1> QED
  BY <1>3, <1>4, <1>5, <1>6 DEF IInv

LEMMA PurgeIInv ==
    ASSUME ManagerAssumption, IInv, Purge
    PROVE  IInv'
<1> PICK b : b = cycle.bus
  OBVIOUS
<1>1. /\ cycle.at = "flush" /\ b \in Buses /\ cycle.frame \in {0, FrameCount + 1}
      /\ UNCHANGED <<armed, services, mailbox, wire>>
      /\ BusCount \in Nat \ {0} /\ FrameCount \in Nat \ {0}
  BY DEF Purge, IInv, Cycles, ManagerAssumption
<1>2. cycle' = CASE cycle.frame = 0 -> [cycle EXCEPT !.frame = 1]
                 [] cycle.frame # 0 /\ b < BusCount ->
                      [cycle EXCEPT !.bus = b + 1, !.frame = 0]
                 [] OTHER -> Idle
  BY DEF Purge
<1>3. /\ cycle' \in Cycles
      /\ \A c \in Buses : Passed(c)' => Passed(c) \/ c = b
  <2>1. CASE cycle.frame = 0
    BY <1>1, <1>2, <2>1 DEF IInv, Cycles, Passed
  <2>2. CASE cycle.frame # 0 /\ b < BusCount
    <3>1. /\ cycle' = [at |-> "flush", bus |-> b + 1, frame |-> 0]
          /\ b + 1 \in Buses
      <4>1. cycle' = [cycle EXCEPT !.bus = b + 1, !.frame = 0]
        BY <1>1, <1>2, <2>2
      <4>2. b + 1 \in Buses
        BY <1>1, <2>2 DEF Buses
      <4> QED
        BY <1>1, <4>1, <4>2 DEF IInv, Cycles
    <3>2. cycle' \in Cycles
      BY <1>1, <3>1 DEF Cycles
    <3>3. \A c \in Buses : c < b + 1 => c < b \/ c = b
      BY <1>1 DEF Buses
    <3> QED
      BY <1>1, <3>1, <3>2, <3>3 DEF Passed
  <2>3. CASE cycle.frame # 0 /\ ~(b < BusCount)
    <3>1. cycle' = Idle /\ b = BusCount
      BY <1>1, <1>2, <2>3 DEF Buses
    <3>2. \A c \in Buses : c < b \/ c = b
      BY <1>1, <3>1 DEF Buses
    <3> QED
      BY <1>1, <3>1, <3>2 DEF Idle, Cycles, Passed, Buses
  <2> QED
    BY <1>1, <2>1, <2>2, <2>3
<1>4. CASE armed
  <2>1. UNCHANGED <<slot, pending>>
    BY <1>4 DEF Purge
  <2>2. Forgetting'
    BY <1>1, <1>4, <2>1 DEF IInv, Forgetting, Forgotten
  <2> QED
    BY <1>1, <1>3, <2>1, <2>2 DEF IInv, NothingOld
<1>5. CASE ~armed
  <2>1. slot' = [slot EXCEPT ![b] = [i \in Ids |-> [s \in Slots |-> NoCommand]]]
    BY <1>5 DEF Purge, Cleared
  <2>2. slot' \in SlotTable
    BY <1>1, <2>1, NoCommandGood DEF IInv, SlotTable
  <2>3. pending' \in [Buses -> [Ids -> BOOLEAN]]
    <3>1. pending' = [pending EXCEPT ![b] = [i \in Ids |->
                        pending[b][i] \/ \E s \in Slots : slot[b][i][s].valid]]
      BY <1>5 DEF Purge, IInv
    <3>2. [i \in Ids |-> pending[b][i] \/ \E s \in Slots : slot[b][i][s].valid]
             \in [Ids -> BOOLEAN]
      BY Zenon
    <3> QED
      BY <3>1, <3>2, Zenon DEF IInv
  <2>4. /\ Forgotten(b)'
        /\ \A c \in Buses : Forgotten(c) => Forgotten(c)'
    <3>1. \A c \in Buses, i \in Ids, s \in Slots :
            slot'[c][i][s] = IF c = b THEN NoCommand ELSE slot[c][i][s]
      BY <2>1 DEF IInv, SlotTable
    <3> QED
      BY <1>1, <3>1 DEF Forgotten, NoCommand
  <2>5. Forgetting'
    BY <1>1, <1>3, <1>5, <2>4 DEF IInv, Forgetting
  <2> QED
    BY <1>1, <1>3, <1>5, <2>2, <2>3, <2>5 DEF IInv
<1> QED
  BY <1>4, <1>5

(* A step of the flush: the frame goes to the driver, or stays. *)
LEMMA FlushIInv ==
    ASSUME ManagerAssumption, IInv, NEW b \in Buses, NEW i \in Ids, FlushFrame(b, i)
    PROVE  IInv'
<1> DEFINE slots == Fresh(slot[b][i])
           table == [slot EXCEPT ![b][i] = slots]
<1>1. /\ slot[b][i] \in [Slots -> GoodSlots]
      /\ mailbox[b][i] \in GoodFrames
  BY DEF IInv, SlotTable, FrameTable
<1>2. /\ slots \in [Slots -> GoodSlots]
      /\ \A s \in Slots : slots[s].old => slot[b][i][s].old
  BY <1>1, FreshGood
<1>3. table \in SlotTable
  BY <1>2 DEF IInv, SlotTable
<1>4. /\ cycle.at = "flush" /\ cycle.bus = b /\ cycle.frame = i
      /\ cycle' = [cycle EXCEPT !.frame = @ + 1] /\ UNCHANGED wire
  BY DEF FlushFrame, AtFrame, NextFrame
<1>5. /\ cycle' \in Cycles
      /\ \A c \in Buses : Passed(c)' => Passed(c)
  <2>1. i \in 1 .. FrameCount /\ FrameCount \in Nat
    BY DEF Ids, ManagerAssumption
  <2>2. i + 1 \in 0 .. FrameCount + 1 /\ cycle \in Cycles
    BY <2>1 DEF IInv
  <2>3. cycle' = [at |-> "flush", bus |-> b, frame |-> i + 1]
    BY <1>4, <2>2 DEF Cycles
  <2>4. cycle' \in Cycles
    BY <2>2, <2>3 DEF Cycles
  <2>5. i # 0
    BY <2>1
  <2> QED
    BY <1>4, <2>3, <2>4, <2>5, Zenon DEF Passed
<1>6. CASE slot' = table /\ UNCHANGED <<armed, services, mailbox>>
           /\ pending' \in [Buses -> [Ids -> BOOLEAN]]
  <2>1. slot' \in SlotTable /\ \A c \in Buses : Forgotten(c) => Forgotten(c)'
    BY <1>2, <1>6, SlotUpdated DEF IInv
  <2>2. Forgetting' /\ (armed => NothingOld)'
    BY <1>5, <1>6, <2>1 DEF IInv, Forgetting, NothingOld
  <2> QED
    BY <1>4, <1>5, <1>6, <2>1, <2>2 DEF IInv
<1>7. CASE MustSend(b, i) /\ Accepted(b, i)
  <2>1. /\ slot' = [slot EXCEPT ![b][i] = slots]
        /\ mailbox' = [mailbox EXCEPT ![b][i] = NewFrame(slots)]
        /\ pending' = [pending EXCEPT ![b][i] = FALSE]
        /\ UNCHANGED <<armed, services>>
    BY <1>7 DEF Accepted
  <2>2. slot' \in SlotTable /\ \A c \in Buses : Forgotten(c) => Forgotten(c)'
    BY <1>2, <2>1, SlotUpdated DEF IInv
  <2>3. NewFrame(slots) \in GoodFrames
        /\ (NewFrame(slots).old => \E s \in Slots : slot[b][i][s].old)
    BY <1>1, NewFrameGood
  <2>4. mailbox' \in FrameTable
    BY <2>1, <2>3 DEF IInv, FrameTable
  <2>5. (armed => NothingOld)'
    <3>1. \A c \in Buses, j \in Ids :
            mailbox'[c][j] = IF c = b /\ j = i THEN NewFrame(slots) ELSE mailbox[c][j]
      BY <2>1 DEF IInv, FrameTable
    <3>2. armed => Forgotten(b)
      BY DEF IInv, Forgetting
    <3>3. armed => ~NewFrame(slots).old
      BY <2>3, <3>2 DEF Forgotten
    <3> QED
      BY <2>1, <3>1, <3>3, SMT DEF IInv, NothingOld
  <2>6. Forgetting'
    BY <1>5, <2>1, <2>2 DEF IInv, Forgetting
  <2>7. pending' \in [Buses -> [Ids -> BOOLEAN]]
    BY <2>1 DEF IInv
  <2> QED
    BY <1>4, <1>5, <2>1, <2>2, <2>4, <2>5, <2>6, <2>7 DEF IInv
<1>8. CASE Fault(table) /\ mailbox' = OldMailboxes
           /\ pending' \in [Buses -> [Ids -> BOOLEAN]]
  BY <1>3, <1>4, <1>5, <1>8, FaultGood DEF IInv
<1>9. MustSend(b, i) /\ BusyOrError(b, i) =>
        /\ pending' \in [Buses -> [Ids -> BOOLEAN]]
        /\ \/ slot' = table /\ UNCHANGED <<armed, services, mailbox>>
           \/ Fault(table) /\ mailbox' = OldMailboxes
  BY DEF BusyOrError, IInv
<1>10. \/ MustSend(b, i) /\ (Accepted(b, i) \/ BusyOrError(b, i))
       \/ slot' = table /\ UNCHANGED <<pending, armed, services, mailbox>>
  BY DEF FlushFrame
<1>11. UNCHANGED pending => pending' \in [Buses -> [Ids -> BOOLEAN]]
  BY DEF IInv
<1> QED
  BY <1>6, <1>7, <1>8, <1>9, <1>10, <1>11, Zenon

LEMMA LeavesIInv ==
    ASSUME ManagerAssumption, IInv, NEW b \in Buses, NEW i \in Ids,
           NEW sent \in BOOLEAN, Leaves(b, i, sent)
    PROVE  IInv'
<1>1. mailbox' = [mailbox EXCEPT ![b][i] = Empty] /\ mailbox[b][i].full
      /\ UNCHANGED <<slot, pending, cycle, armed, services>>
  BY DEF Leaves
<1>2. mailbox' \in FrameTable
  BY <1>1, EmptyGood DEF IInv, FrameTable
<1>3. (armed => NothingOld)'
  BY <1>1, EmptyGood DEF IInv, FrameTable, NothingOld
<1>4. wire' \in [Buses -> [Ids -> SUBSET Slots]]
  <2>1. mailbox[b][i].commands \in SUBSET Slots
    <3>1. mailbox[b][i] \in GoodFrames
      BY DEF IInv, FrameTable
    <3>2. mailbox[b][i] \in Frame
      BY <1>1, <3>1, FullIsFrame
    <3> QED
      BY <3>2 DEF Frame
  <2> QED
    BY <2>1 DEF Leaves, IInv
<1>5. Forgetting'
  BY <1>1 DEF IInv, Forgetting, Forgotten, Passed
<1> QED
  BY <1>1, <1>2, <1>3, <1>4, <1>5 DEF IInv

LEMMA TickIInv ==
    ASSUME ManagerAssumption, IInv, Tick
    PROVE  IInv'
<1>1. UNCHANGED <<pending, cycle, armed, services, wire>>
  BY DEF Tick
<1>2. /\ slot' \in SlotTable
      /\ \A b \in Buses : Forgotten(b) => Forgotten(b)'
  <2>1. \A b \in Buses, i \in Ids, s \in Slots :
          OlderSlot(slot[b][i][s]) \in GoodSlots
          /\ OlderSlot(slot[b][i][s]).old = slot[b][i][s].old
    BY OlderSlotGood DEF IInv, SlotTable
  <2>2. slot' = [b \in Buses |-> [i \in Ids |-> [s \in Slots |->
                   OlderSlot(slot[b][i][s])]]]
    BY DEF Tick
  <2>3. slot' \in SlotTable
    BY <2>1, <2>2, Zenon DEF SlotTable
  <2>4. \A b \in Buses, i \in Ids, s \in Slots :
          slot'[b][i][s].old = slot[b][i][s].old
    BY <2>1, <2>2
  <2> QED
    BY <2>3, <2>4 DEF Forgotten
<1>3. /\ mailbox' \in FrameTable
      /\ NothingOld => NothingOld'
  <2>1. ASSUME NEW b \in Buses, NEW i \in Ids
        PROVE  LET f == mailbox[b][i]
               IN  /\ OlderFrame(f) \in GoodFrames
                   /\ OlderFrame(f).full = f.full
                   /\ f.full => OlderFrame(f).old = f.old
    <3>1. mailbox[b][i] \in GoodFrames
      BY DEF IInv, FrameTable
    <3> QED
      BY <3>1, OlderFrameGood DEF Tick
  <2> QED
    BY <2>1 DEF Tick, FrameTable, NothingOld
<1>4. Forgetting' /\ (armed => NothingOld)'
  BY <1>1, <1>2, <1>3 DEF IInv, Forgetting, Passed
<1> QED
  BY <1>1, <1>2, <1>3, <1>4 DEF IInv

LEMMA NextIInv ==
    ASSUME ManagerAssumption, IInv, [Next]_vars
    PROVE  IInv'
<1>1. CASE BeginFlush
  <2>1. cycle' \in Cycles /\ \A b \in Buses : ~Passed(b)'
    BY <1>1 DEF BeginFlush, Cycles, Passed, Buses, IInv, ManagerAssumption
  <2>2. Forgetting'
    BY <1>1, <2>1 DEF BeginFlush, IInv, Forgetting, Forgotten
  <2> QED
    BY <1>1, <2>1, <2>2 DEF BeginFlush, IInv, NothingOld
<1>2. CASE OtherFault
  BY <1>2, FaultGood DEF OtherFault, IInv
<1>3. CASE UNCHANGED vars
  BY <1>3 DEF vars, IInv, Forgetting, Forgotten, Passed, NothingOld
<1> QED
  BY <1>1, <1>2, <1>3, ServiceIInv, PurgeIInv, FlushIInv, SendIInv, LeavesIInv,
     TickIInv DEF Next, Control

LEMMA Induction ==
    ASSUME ManagerAssumption
    PROVE  Spec => []IInv
<1>1. Init => IInv
  BY InitIInv
<1>2. IInv /\ [Next]_vars => IInv'
  BY NextIInv
<1> QED
  BY <1>1, <1>2, PTL DEF Spec

----------------------------------------------------------------------------
(* The state is well-formed: every time left is within the command's time  *)
(* to live and the driver's slack.                                         *)
THEOREM TypeCorrect == ASSUME ManagerAssumption PROVE Spec => []TypeOK
<1>1. IInv => TypeOK
  <2> SUFFICES ASSUME IInv PROVE TypeOK
    OBVIOUS
  <2>1. GoodSlots \subseteq Slot /\ GoodFrames \subseteq Frame \cup {Empty}
    BY DEF GoodSlots, GoodFrames
  <2>2. slot \in [Buses -> [Ids -> [Slots -> Slot]]]
    BY <2>1 DEF IInv, SlotTable
  <2>3. mailbox \in [Buses -> [Ids -> Frame \cup {Empty}]]
    BY <2>1 DEF IInv, FrameTable
  <2> QED
    BY <2>2, <2>3, Zenon DEF IInv, TypeOK, Cycles
<1> QED
  BY <1>1, Induction, PTL

(* No command leaves later than its time to live and the driver's slack    *)
(* after it was given.                                                     *)
THEOREM NoLateCommandHolds == ASSUME ManagerAssumption PROVE Spec => []NoLateCommand
<1>1. IInv => NoLateCommand
  <2> SUFFICES ASSUME IInv, NEW b \in Buses, NEW i \in Ids, mailbox[b][i].full,
                      ~mailbox[b][i].old, mailbox[b][i].commands # {}
               PROVE  mailbox[b][i].due >= -Slack
    BY DEF NoLateCommand
  <2>1. mailbox[b][i] \in GoodFrames
    BY DEF IInv, FrameTable
  <2>2. mailbox[b][i] \in Frame
    BY <2>1, FullIsFrame
  <2>3. mailbox[b][i].due >= mailbox[b][i].left
    BY <2>1 DEF GoodFrames
  <2>4. mailbox[b][i].left \in -Slack .. Longest /\ mailbox[b][i].due \in Least .. Longest
    BY <2>2 DEF Frame
  <2> QED
    BY <2>3, <2>4, Times
<1> QED
  BY <1>1, Induction, PTL

(* An armed robot holds no command of before a fault, wherever in the      *)
(* control cycle the fault was found.                                      *)
THEOREM ForgetsAtFaultHolds == ASSUME ManagerAssumption PROVE Spec => []ForgetsAtFault
<1>1. IInv => ForgetsAtFault
  BY DEF IInv, Forgetting, Forgotten, NothingOld, ForgetsAtFault
<1> QED
  BY <1>1, Induction, PTL

(* The manager in every state: nothing leaves late, and nothing of before  *)
(* a fault is kept.                                                        *)
THEOREM ManagerHolds == ASSUME ManagerAssumption PROVE Spec => []ManagerInv
  BY TypeCorrect, NoLateCommandHolds, ForgetsAtFaultHolds, PTL DEF ManagerInv

----------------------------------------------------------------------------
(* Stops.  A frame is only cleared of its commands by a purge, which makes *)
(* it due, or when they are out of date, which has it sent.                *)

LEMMA StopsStart == Init => \A b \in Buses, i \in Ids : Stoppable(b, i)
BY DEF Init, Stoppable, Runs, Empty

(* A fault and the time keep which slots are commanded, and which frames   *)
(* are in flight with which commands.                                      *)
LEMMA SlotsMarked ==
    ASSUME IInv, NEW b \in Buses, NEW i \in Ids, Stoppable(b, i),
           CommandsOf(slot'[b][i]) = CommandsOf(slot[b][i]),
           mailbox'[b][i].full <=> mailbox[b][i].full,
           mailbox[b][i].full => mailbox'[b][i].commands = mailbox[b][i].commands,
           UNCHANGED <<pending, wire>>
    PROVE  Stoppable(b, i)'
BY DEF Stoppable, Runs, StopIsDue

LEMMA MarkedFrame ==
    ASSUME IInv, mailbox' = OldMailboxes, NEW b \in Buses, NEW i \in Ids
    PROVE  /\ mailbox'[b][i].full <=> mailbox[b][i].full
           /\ mailbox[b][i].full => mailbox'[b][i].commands = mailbox[b][i].commands
<1>1. mailbox[b][i] \in GoodFrames
  BY DEF IInv, FrameTable
<1>2. mailbox'[b][i] = IF mailbox[b][i].full THEN [mailbox[b][i] EXCEPT !.old = TRUE]
                                             ELSE Empty
  BY DEF OldMailboxes
<1>3. CASE mailbox[b][i].full
  <2>1. mailbox[b][i] \in Frame
    BY <1>1, <1>3, FullIsFrame
  <2>2. QED BY <1>2, <1>3, <2>1 DEF Frame
<1>4. CASE ~mailbox[b][i].full
  BY <1>2, <1>4 DEF Empty
<1>5. QED BY <1>3, <1>4

LEMMA MarkedSlots ==
    ASSUME NEW slots \in SlotTable, Fault(slots), NEW b \in Buses, NEW i \in Ids
    PROVE  CommandsOf(slot'[b][i]) = CommandsOf(slots[b][i])
<1>1. ASSUME NEW s \in Slots
      PROVE  slot'[b][i][s].nonzero = slots[b][i][s].nonzero
  <2>1. slots[b][i][s] \in Slot
    BY DEF SlotTable, GoodSlots
  <2>2. slot'[b][i][s] = [slots[b][i][s] EXCEPT !.old = slots[b][i][s].nonzero]
    BY DEF Fault
  <2>3. QED BY <2>1, <2>2 DEF Slot
<1>2. QED BY <1>1 DEF CommandsOf

LEMMA FaultKeepsStops ==
    ASSUME IInv, Fault(slot), mailbox' = OldMailboxes, UNCHANGED <<pending, wire>>,
           NEW b \in Buses, NEW i \in Ids, Stoppable(b, i)
    PROVE  Stoppable(b, i)'
<1>1. CommandsOf(slot'[b][i]) = CommandsOf(slot[b][i])
  BY MarkedSlots DEF IInv
<1>2. QED BY <1>1, MarkedFrame, SlotsMarked

LEMMA PurgeKeepsStops ==
    ASSUME IInv, Purge, NEW b \in Buses, NEW i \in Ids, Stoppable(b, i)
    PROVE  Stoppable(b, i)'
<1>1. UNCHANGED <<mailbox, wire>>
  BY DEF Purge
<1>2. CASE armed \/ b # cycle.bus
  <2>1. slot'[b][i] = slot[b][i] /\ pending'[b][i] = pending[b][i]
    BY <1>2 DEF Purge, IInv, SlotTable
  <2>2. QED BY <1>1, <2>1 DEF Stoppable, Runs, StopIsDue
<1>3. CASE ~armed /\ b = cycle.bus
  <2>1. pending'[b][i] = (pending[b][i] \/ \E s \in Slots : slot[b][i][s].valid)
    BY <1>3 DEF Purge, IInv
  <2>2. \A s \in Slots : slot[b][i][s].nonzero => slot[b][i][s].valid
    BY DEF IInv, SlotTable, GoodSlots
  <2>3. CommandsOf(slot[b][i]) # {} \/ pending[b][i] => pending'[b][i]
    BY <2>1, <2>2, Zenon DEF CommandsOf
  <2>4. QED BY <1>1, <2>3 DEF Stoppable, Runs, StopIsDue
<1>4. QED BY <1>2, <1>3

LEMMA FlushKeepsStops ==
    ASSUME ManagerAssumption, IInv, NEW c \in Buses, NEW j \in Ids, FlushFrame(c, j),
           NEW b \in Buses, NEW i \in Ids, Stoppable(b, i)
    PROVE  Stoppable(b, i)'
<1> DEFINE slots == Fresh(slot[c][j])
           table == [slot EXCEPT ![c][j] = slots]
<1>1. UNCHANGED wire
  BY DEF FlushFrame, NextFrame
<1>2. slot \in SlotTable /\ mailbox \in FrameTable /\ pending \in [Buses -> [Ids -> BOOLEAN]]
  BY DEF IInv
<1>3. CASE ~MustSend(c, j)
  <2>1. /\ slot' = table /\ UNCHANGED <<pending, mailbox>>
    BY <1>3 DEF FlushFrame
  <2>2. CommandsOf(slots) = CommandsOf(slot[c][j])
    BY <1>3 DEF MustSend, Fresh, CommandsOf
  <2>3. CommandsOf(slot'[b][i]) = CommandsOf(slot[b][i])
    BY <1>2, <2>1, <2>2 DEF SlotTable
  <2>4. QED BY <1>1, <2>1, <2>3, SlotsMarked
<1>4. CASE Accepted(c, j)
  <2>1. /\ slot' = table /\ mailbox' = [mailbox EXCEPT ![c][j] = NewFrame(slots)]
        /\ pending' = [pending EXCEPT ![c][j] = FALSE]
    BY <1>4 DEF Accepted
  <2>2. CASE b = c /\ i = j
    <3>1. slot'[b][i] = slots /\ mailbox'[b][i] = NewFrame(slots)
      BY <1>2, <2>1, <2>2 DEF SlotTable, FrameTable
    <3>2. NewFrame(slots).full /\ NewFrame(slots).commands = CommandsOf(slots)
      BY DEF NewFrame
    <3>3. StopIsDue(b, i)'
      BY <3>1, <3>2 DEF StopIsDue
    <3>4. QED BY <3>3 DEF Stoppable
  <2>3. CASE ~(b = c /\ i = j)
    <3>1. /\ slot'[b][i] = slot[b][i] /\ mailbox'[b][i] = mailbox[b][i]
          /\ pending'[b][i] = pending[b][i]
      BY <1>2, <2>1, <2>3 DEF SlotTable, FrameTable
    <3>2. QED BY <1>1, <3>1 DEF Stoppable, Runs, StopIsDue
  <2>4. QED BY <2>2, <2>3
<1>5. CASE BusyOrError(c, j)
  <2>1. pending' = [pending EXCEPT ![c][j] = TRUE]
    BY <1>5 DEF BusyOrError
  <2>2. CASE b = c /\ i = j
    BY <1>2, <2>1, <2>2 DEF Stoppable, StopIsDue
  <2>3. CASE ~(b = c /\ i = j)
    <3>1. pending'[b][i] = pending[b][i]
      BY <1>2, <2>1, <2>3
    <3>2. CASE slot' = table /\ UNCHANGED mailbox
      <4>1. slot'[b][i] = slot[b][i]
        BY <1>2, <2>3, <3>2 DEF SlotTable
      <4>2. QED BY <1>1, <3>1, <3>2, <4>1 DEF Stoppable, Runs, StopIsDue
    <3>3. CASE Fault(table) /\ mailbox' = OldMailboxes
      <4>1. /\ table[b][i] = slot[b][i]
            /\ slot[c][j] \in [Slots -> GoodSlots]
        BY <1>2, <2>3 DEF SlotTable
      <4>2. slots \in [Slots -> GoodSlots]
        BY <4>1, FreshGood
      <4>3. table \in SlotTable
        BY <1>2, <4>2 DEF SlotTable
      <4>4. CommandsOf(slot'[b][i]) = CommandsOf(slot[b][i])
        <5> HIDE DEF table
        <5>1. QED BY <3>3, <4>1, <4>3, MarkedSlots
      <4>5. QED BY <1>1, <3>1, <3>3, <4>4, MarkedFrame DEF Stoppable, Runs, StopIsDue
    <3>4. QED BY <1>5, <3>2, <3>3 DEF BusyOrError
  <2>4. QED BY <2>2, <2>3
<1>6. QED BY <1>3, <1>4, <1>5 DEF FlushFrame

(* What leaves the mailbox was sent, was a command whose successor is due,  *)
(* or was zeros, which are aborted with a fault only.                       *)
LEMMA LeavesKeepsStops ==
    ASSUME IInv, NEW c \in Buses, NEW j \in Ids, NEW sent \in BOOLEAN, Leaves(c, j, sent),
           NEW b \in Buses, NEW i \in Ids, Stoppable(b, i)
    PROVE  Stoppable(b, i)' \/ ZerosAborted(b, i)
<1>1. /\ mailbox[c][j].full /\ (sent \/ mailbox[c][j].commands # {} \/ mailbox[c][j].old)
      /\ mailbox' = [mailbox EXCEPT ![c][j] = Empty]
      /\ wire' = IF sent THEN [wire EXCEPT ![c][j] = mailbox[c][j].commands] ELSE wire
      /\ UNCHANGED <<slot, pending>>
  BY DEF Leaves
<1>2. mailbox \in FrameTable /\ wire \in [Buses -> [Ids -> SUBSET Slots]]
  BY DEF IInv
<1>3. CASE ~(b = c /\ i = j)
  <2>1. mailbox'[b][i] = mailbox[b][i] /\ wire'[b][i] = wire[b][i]
    BY <1>1, <1>2, <1>3 DEF FrameTable
  <2>2. QED BY <1>1, <2>1 DEF Stoppable, Runs, StopIsDue
<1>4. CASE b = c /\ i = j
  <2>1. mailbox'[b][i] = Empty /\ ~mailbox'[b][i].full
    BY <1>1, <1>2, <1>4 DEF FrameTable, Empty
  <2>2. wire'[b][i] = IF sent THEN mailbox[b][i].commands ELSE wire[b][i]
    BY <1>1, <1>2, <1>4
  <2>3. CASE mailbox[b][i].commands # {}
    <3>1. StopIsDue(b, i) => StopIsDue(b, i)'
      BY <1>1, <2>3 DEF StopIsDue
    <3>2. Runs(b, i)
      BY <1>1, <1>4, <2>3 DEF Runs
    <3>3. QED BY <3>1, <3>2 DEF Stoppable
  <2>4. CASE mailbox[b][i].commands = {} /\ sent
    BY <2>1, <2>2, <2>4 DEF Stoppable, Runs
  <2>5. CASE mailbox[b][i].commands = {} /\ ~sent
    BY <1>1, <1>4, <2>1, <2>2, <2>5 DEF ZerosAborted
  <2>6. QED BY <2>3, <2>4, <2>5
<1>5. QED BY <1>3, <1>4

LEMMA TickKeepsStops ==
    ASSUME IInv, Tick, NEW b \in Buses, NEW i \in Ids, Stoppable(b, i)
    PROVE  Stoppable(b, i)'
<1>1. slot[b][i] \in [Slots -> GoodSlots] /\ mailbox[b][i] \in GoodFrames
  BY DEF IInv, SlotTable, FrameTable
<1>2. ASSUME NEW s \in Slots
      PROVE  slot'[b][i][s].nonzero = slot[b][i][s].nonzero
  <2>1. slot[b][i][s] \in Slot
    BY <1>1 DEF GoodSlots
  <2>2. slot'[b][i][s] = OlderSlot(slot[b][i][s])
    BY DEF Tick
  <2>3. QED BY <2>1, <2>2 DEF OlderSlot, Slot
<1>3. CommandsOf(slot'[b][i]) = CommandsOf(slot[b][i])
  BY <1>2 DEF CommandsOf
<1>4. mailbox'[b][i] = OlderFrame(mailbox[b][i])
  BY DEF Tick
<1>5. /\ mailbox'[b][i].full <=> mailbox[b][i].full
      /\ mailbox[b][i].full => mailbox'[b][i].commands = mailbox[b][i].commands
  <2>1. CASE mailbox[b][i].full
    <3>1. mailbox[b][i] \in Frame
      BY <1>1, <2>1, FullIsFrame
    <3>2. QED BY <1>4, <2>1, <3>1 DEF OlderFrame, Frame
  <2>2. CASE ~mailbox[b][i].full
    BY <1>4, <2>2 DEF OlderFrame
  <2>3. QED BY <2>1, <2>2
<1>6. UNCHANGED <<pending, wire>>
  BY DEF Tick
<1>7. QED BY <1>3, <1>5, <1>6, SlotsMarked

LEMMA SendKeepsStops ==
    ASSUME IInv, NEW c \in Buses, NEW j \in Ids, NEW s \in Slots, NEW nonzero \in BOOLEAN,
           SendMotorCurrent(c, j, s, nonzero),
           NEW b \in Buses, NEW i \in Ids, Stoppable(b, i)
    PROVE  Stoppable(b, i)'
<1>1. /\ slot' = [slot EXCEPT ![c][j] = Updated(@, s, nonzero)]
      /\ pending' = [pending EXCEPT ![c][j] = TRUE] /\ UNCHANGED <<mailbox, wire>>
  BY DEF SendMotorCurrent
<1>2. slot \in SlotTable /\ pending \in [Buses -> [Ids -> BOOLEAN]]
  BY DEF IInv
<1>3. CASE b = c /\ i = j
  BY <1>1, <1>2, <1>3 DEF Stoppable, StopIsDue
<1>4. CASE ~(b = c /\ i = j)
  <2>1. slot'[b][i] = slot[b][i] /\ pending'[b][i] = pending[b][i]
    BY <1>1, <1>2, <1>4 DEF SlotTable
  <2>2. QED BY <1>1, <2>1 DEF Stoppable, Runs, StopIsDue
<1>5. QED BY <1>3, <1>4

LEMMA StepKeepsStops ==
    ASSUME ManagerAssumption, IInv, [Next]_vars, NEW b \in Buses, NEW i \in Ids, Stoppable(b, i)
    PROVE  Stoppable(b, i)' \/ ZerosAborted(b, i)
<1>1. CASE UNCHANGED <<slot, pending, mailbox, wire>>
  BY <1>1 DEF Stoppable, Runs, StopIsDue
<1>2. CASE Service
  <2>1. /\ UNCHANGED <<pending, wire>>
        /\ \/ Fault(slot) /\ mailbox' = OldMailboxes
           \/ UNCHANGED <<slot, mailbox>>
    BY <1>2 DEF Service
  <2>2. QED BY <1>1, <2>1, FaultKeepsStops
<1>3. CASE OtherFault
  BY <1>3, FaultKeepsStops DEF OtherFault
<1>4. CASE BeginFlush
  BY <1>1, <1>4 DEF BeginFlush
<1>5. CASE UNCHANGED vars
  BY <1>1, <1>5 DEF vars
<1>6. QED
  BY <1>2, <1>3, <1>4, <1>5, PurgeKeepsStops, FlushKeepsStops, LeavesKeepsStops,
     TickKeepsStops, SendKeepsStops DEF Next, Control

(* No stop is lost in the manager: until zeros have left it, a motor that   *)
(* runs has a frame that is due or becomes due; FlushTx and the driver may  *)
(* refuse, expire, abort and purge as they do, only a fault aborts zeros.   *)
THEOREM KeepsStopsHolds == ASSUME ManagerAssumption PROVE Spec => KeepsStops
<1> DEFINE Kept == \A b \in Buses, i \in Ids :
                      Stoppable(b, i) => Stoppable(b, i)' \/ ZerosAborted(b, i)
           Start == \A b \in Buses, i \in Ids : Stoppable(b, i)
<1>1. Init => Start
  BY StopsStart
<1>2. IInv /\ [Next]_vars => [Kept]_vars
  BY ManagerAssumption, StepKeepsStops
<1>3. Spec => []IInv
  BY Induction
<1> HIDE DEF Kept, Start
<1>4. Spec => Start /\ [][Kept]_vars
  BY <1>1, <1>2, <1>3, PTL DEF Spec
<1>5. QED BY <1>4 DEF KeepsStops, Kept, Start

----------------------------------------------------------------------------
(* CanPort *)

(* Two frames in flight have different buses or identifiers. *)
LEMMA ViewIsInjective ==
    ASSUME NEW p \in Full, NEW q \in Full, View(p).bus = View(q).bus,
           View(p).id = View(q).id
    PROVE  p = q
BY DEF View, Full

LEMMA SameView ==
    ASSUME \A p \in Buses \X Ids :
             /\ mailbox'[p[1]][p[2]].full = mailbox[p[1]][p[2]].full
             /\ mailbox[p[1]][p[2]].full => View(p)' = View(p)
    PROVE  Flight' = Flight
<1>1. Full' = Full
  BY DEF Full
<1>2. \A p \in Full : View(p)' = View(p)
  BY DEF Full
<1> QED
  BY <1>1, <1>2 DEF Flight

LEMMA MarkView ==
    ASSUME NEW b \in Buses, NEW i \in Ids, NEW nonzero \in BOOLEAN, NEW old \in BOOLEAN
    PROVE  [[bus |-> b, id |-> i, nonzero |-> nonzero, old |-> old] EXCEPT !.old = TRUE]
             = [bus |-> b, id |-> i, nonzero |-> nonzero, old |-> TRUE]
<1> DEFINE f == [[bus |-> b, id |-> i, nonzero |-> nonzero, old |-> old] EXCEPT !.old = TRUE]
           g == [bus |-> b, id |-> i, nonzero |-> nonzero, old |-> TRUE]
<1>1. /\ f \in [bus : Buses, id : Ids, nonzero : BOOLEAN, old : BOOLEAN]
      /\ g \in [bus : Buses, id : Ids, nonzero : BOOLEAN, old : BOOLEAN]
  OBVIOUS
<1>2. f.bus = g.bus /\ f.id = g.id /\ f.nonzero = g.nonzero /\ f.old = g.old
  OBVIOUS
<1> HIDE DEF f, g
<1>3. f = g
  BY <1>1, <1>2
<1> QED
  BY <1>3 DEF f, g

LEMMA FaultRefines ==
    ASSUME IInv, NEW slots, Fault(slots), mailbox' = OldMailboxes
    PROVE  armed' = FALSE /\ Flight' = {[f EXCEPT !.old = TRUE] : f \in Flight}
<1>1. \A b \in Buses, i \in Ids :
        mailbox'[b][i] = IF mailbox[b][i].full
                         THEN [mailbox[b][i] EXCEPT !.old = TRUE] ELSE Empty
  BY DEF OldMailboxes
<1>2. ASSUME NEW p \in Buses \X Ids
      PROVE  /\ mailbox'[p[1]][p[2]].full = mailbox[p[1]][p[2]].full
             /\ mailbox[p[1]][p[2]].full =>
                  View(p)' = [View(p) EXCEPT !.old = TRUE]
  <2>1. mailbox[p[1]][p[2]] \in GoodFrames
    BY DEF IInv, FrameTable
  <2>2. CASE mailbox[p[1]][p[2]].full
    <3>1. mailbox[p[1]][p[2]] \in Frame
      BY <2>1, <2>2, FullIsFrame
    <3>2. mailbox'[p[1]][p[2]] = [mailbox[p[1]][p[2]] EXCEPT !.old = TRUE]
      BY <1>1, <2>2
    <3>3. /\ mailbox'[p[1]][p[2]].full = TRUE /\ mailbox'[p[1]][p[2]].old = TRUE
          /\ mailbox'[p[1]][p[2]].commands = mailbox[p[1]][p[2]].commands
          /\ mailbox[p[1]][p[2]].full = TRUE
      BY <3>1, <3>2 DEF Frame
    <3>4. View(p)' = [bus |-> p[1], id |-> p[2],
                      nonzero |-> mailbox[p[1]][p[2]].commands # {}, old |-> TRUE]
      BY <3>3, Zenon DEF View
    <3>5. [View(p) EXCEPT !.old = TRUE] =
             [bus |-> p[1], id |-> p[2],
              nonzero |-> mailbox[p[1]][p[2]].commands # {}, old |-> TRUE]
      <4>1. /\ p[1] \in Buses /\ p[2] \in Ids
            /\ (mailbox[p[1]][p[2]].commands # {}) \in BOOLEAN
            /\ mailbox[p[1]][p[2]].old \in BOOLEAN
        BY <3>1 DEF Frame
      <4> QED
        BY <4>1, MarkView DEF View
    <3> QED
      BY <3>3, <3>4, <3>5, Zenon
  <2>3. CASE ~mailbox[p[1]][p[2]].full
    BY <1>1, <2>1, <2>3 DEF Empty, GoodFrames, Frame
  <2> QED
    BY <2>2, <2>3
<1>3. Full' = Full
  BY <1>2 DEF Full
<1>4. \A p \in Full : View(p)' = [View(p) EXCEPT !.old = TRUE]
  BY <1>2 DEF Full
<1>5. Flight' = {[View(p) EXCEPT !.old = TRUE] : p \in Full}
  BY <1>3, <1>4, Zenon DEF Flight
<1>6. {[View(p) EXCEPT !.old = TRUE] : p \in Full}
        = {[f EXCEPT !.old = TRUE] : f \in Flight}
  BY Zenon DEF Flight
<1> QED
  BY <1>5, <1>6, Zenon DEF Fault

LEMMA AcceptedRefines ==
    ASSUME ManagerAssumption, IInv, NEW b \in Buses, NEW i \in Ids, Accepted(b, i)
    PROVE  Port!Next
<1> DEFINE slots == Fresh(slot[b][i])
           f == NewFrame(slots)
           nonzero == CommandsOf(slots) # {}
           new == [bus |-> b, id |-> i, nonzero |-> nonzero, old |-> FALSE]
<1>1. slot[b][i] \in [Slots -> GoodSlots]
  BY DEF IInv, SlotTable
<1>2. f.full /\ f.commands = CommandsOf(slots)
      /\ (f.old => \E s \in Slots : slot[b][i][s].old)
  BY <1>1, NewFrameGood
<1>3. nonzero => armed
  BY DEF Accepted
<1>4. f.old = FALSE
  <2>1. CASE nonzero
    <3>1. Forgotten(b)
      BY <1>3, <2>1 DEF IInv, Forgetting
    <3>2. f.old \in BOOLEAN
      BY Zenon DEF NewFrame
    <3> QED
      BY <1>2, <3>1, <3>2 DEF Forgotten
  <2>2. CASE ~nonzero
    BY <2>2 DEF NewFrame
  <2> QED
    BY <2>1, <2>2
<1> HIDE DEF f
<1>5. \A p \in Buses \X Ids :
        mailbox'[p[1]][p[2]] = IF p = <<b, i>> THEN f ELSE mailbox[p[1]][p[2]]
  BY DEF Accepted, IInv, FrameTable, f
<1>6. ~mailbox[b][i].full /\ armed' = armed
  BY DEF Accepted
<1>7. Full' = Full \cup {<<b, i>>} /\ <<b, i>> \notin Full
  BY <1>2, <1>5, <1>6 DEF Full
<1>8. \A p \in Full : View(p)' = View(p)
  BY <1>5, <1>7, Zenon DEF View, Full
<1>9. View(<<b, i>>)' = new
  BY <1>2, <1>4, <1>5, Zenon DEF View
<1>10. Flight' = Flight \cup {new}
  BY <1>7, <1>8, <1>9 DEF Flight
<1>11. \A g \in Flight : <<g.bus, g.id>> # <<b, i>>
  BY <1>7 DEF Flight, View, Full
<1>12. nonzero \in BOOLEAN
  OBVIOUS
<1> HIDE DEF nonzero
<1> QED
  BY <1>3, <1>6, <1>10, <1>11, <1>12, Zenon
  DEF Port!Next, Port!Accept

LEMMA LeavesRefines ==
    ASSUME IInv, NEW b \in Buses, NEW i \in Ids, NEW sent \in BOOLEAN,
           Leaves(b, i, sent)
    PROVE  Port!Next
<1>1. mailbox[b][i].full /\ armed' = armed
      /\ mailbox' = [mailbox EXCEPT ![b][i] = Empty]
  BY DEF Leaves
<1>2. \A p \in Buses \X Ids :
        mailbox'[p[1]][p[2]] = IF p = <<b, i>> THEN Empty ELSE mailbox[p[1]][p[2]]
  BY <1>1 DEF IInv, FrameTable
<1>3. <<b, i>> \in Full /\ Full' = Full \ {<<b, i>>}
  BY <1>1, <1>2, EmptyGood DEF Full
<1>4. \A p \in Full \ {<<b, i>>} : View(p)' = View(p)
  BY <1>2, Zenon DEF View, Full
<1>5. \A p \in Full : View(p) = View(<<b, i>>) => p = <<b, i>>
  BY <1>3, ViewIsInjective
<1>6. Flight' = Flight \ {View(<<b, i>>)}
  <2>1. Flight' = {View(p) : p \in Full \ {<<b, i>>}}
    BY <1>3, <1>4, Zenon DEF Flight
  <2> HIDE DEF View
  <2>2. {View(p) : p \in Full \ {<<b, i>>}} = Flight \ {View(<<b, i>>)}
    BY <1>3, <1>5 DEF Flight
  <2> QED
    BY <2>1, <2>2
<1>7. View(<<b, i>>) \in Flight
  BY <1>3, Zenon DEF Flight
<1> QED
  BY <1>1, <1>6, <1>7, Zenon DEF Port!Next, Port!Leave

LEMMA StepRefines ==
    ASSUME ManagerAssumption, IInv, [Next]_vars
    PROVE  [Port!Next]_<<armed, Flight>>
<1>1. CASE UNCHANGED <<armed, mailbox>>
  BY <1>1 DEF Flight, Full, View
<1>2. ASSUME NEW slots, Fault(slots), mailbox' = OldMailboxes
      PROVE  Port!Next
  BY <1>2, FaultRefines, Zenon DEF Port!Next, Port!Fault
<1>3. CASE Service
  <2>1. CASE armed' = (armed \/ (services = 2 /\ NothingOld)) /\ UNCHANGED mailbox
    <3>1. CASE UNCHANGED armed
      BY <1>1, <2>1, <3>1
    <3>2. CASE armed' # armed
      <4>1. armed' = TRUE /\ NothingOld
        BY <2>1, <3>2, Zenon DEF IInv
      <4>2. Flight' = Flight
        BY <2>1 DEF Flight, Full, View
      <4>3. \A f \in Flight : ~f.old
        BY <4>1 DEF Flight, Full, View, NothingOld
      <4> QED
        BY <4>1, <4>2, <4>3, Zenon DEF Port!Next, Port!Arm
    <3> QED
      BY <3>1, <3>2
  <2>2. CASE UNCHANGED <<armed, mailbox>>
    BY <1>1, <2>2
  <2> QED
    BY <1>2, <1>3, <2>1, <2>2 DEF Service
<1>4. ASSUME NEW b \in Buses, NEW i \in Ids, FlushFrame(b, i)
      PROVE  [Port!Next]_<<armed, Flight>>
  BY <1>1, <1>2, <1>4, AcceptedRefines DEF FlushFrame, BusyOrError
<1>5. CASE Tick
  <2>1. ASSUME NEW p \in Buses \X Ids
        PROVE  LET f == mailbox[p[1]][p[2]]
                   g == mailbox'[p[1]][p[2]]
               IN  /\ g.full = f.full
                   /\ f.full => g.commands = f.commands /\ g.old = f.old
    <3>1. mailbox[p[1]][p[2]] \in GoodFrames
      BY DEF IInv, FrameTable
    <3>2. mailbox'[p[1]][p[2]] = OlderFrame(mailbox[p[1]][p[2]])
      BY <1>5 DEF Tick
    <3> QED
      BY <1>5, <3>1, <3>2, OlderFrameGood DEF Tick
  <2>2. Flight' = Flight
    <3>1. \A p \in Buses \X Ids :
             /\ mailbox'[p[1]][p[2]].full = mailbox[p[1]][p[2]].full
             /\ mailbox[p[1]][p[2]].full => View(p)' = View(p)
      BY <2>1, Zenon DEF View
    <3> QED
      BY <3>1, SameView
  <2> QED
    BY <1>5, <2>2 DEF Tick
<1>6. CASE \E b \in Buses, i \in Ids, sent \in BOOLEAN : Leaves(b, i, sent)
  BY <1>6, LeavesRefines
<1>7. CASE OtherFault
  BY <1>2, <1>7 DEF OtherFault
<1>8. BeginFlush \/ Purge \/ UNCHANGED vars => UNCHANGED <<armed, mailbox>>
  BY DEF BeginFlush, Purge, vars
<1>9. ASSUME NEW b \in Buses, NEW i \in Ids, NEW s \in Slots,
             NEW nonzero \in BOOLEAN, SendMotorCurrent(b, i, s, nonzero)
      PROVE  UNCHANGED <<armed, mailbox>>
  BY <1>9 DEF SendMotorCurrent
<1> QED
  BY <1>1, <1>3, <1>4, <1>5, <1>6, <1>7, <1>8, <1>9 DEF Next, Control

(* The manager is a user of the driver that the driver's promise allows,   *)
(* and what it believes of the mailboxes is a behaviour of the promise.    *)
THEOREM ManagerUsesThePort == ASSUME ManagerAssumption PROVE Spec => PortSpec
<1>1. Init => Port!Init
  BY DEF Init, Port!Init, Empty, Flight, Full
<1>2. IInv /\ [Next]_vars => [Port!Next]_<<armed, Flight>>
  BY StepRefines
<1> QED
  BY <1>1, <1>2, Induction, PTL
  DEF Spec, PortSpec, Port!Spec, Port!vars

==============================================================================
