------------------------ MODULE MessageCenterProofs ------------------------
(***************************************************************************)
(* Proofs about MessageCenter, for every number of topics, keys, ring      *)
(* entries, slots and every dispatch budget.                               *)
(***************************************************************************)
EXTENDS MessageCenter, TLAPS, FiniteSetTheorems

USE DEF Index, Counter

(* The indices of the ring: wrapping keeps them inside it. *)
LEMMA AfterInIndex ==
    ASSUME NEW i \in Index
    PROVE  After(i) \in Index
BY SizeAssumption DEF After

LEMMA WindowInIndex ==
    ASSUME NEW tail \in Index, NEW head \in Index
    PROVE  /\ Window(tail, head) \subseteq Index
           /\ IsFiniteSet(Window(tail, head))
<1>1. Window(tail, head) \subseteq Index
  BY SizeAssumption DEF Window
<1>2. IsFiniteSet(Index)
  BY SizeAssumption, FS_Interval
<1>3. QED BY <1>1, <1>2, FS_Subset

(* Appending to a ring that is not full adds the entry at the head. *)
LEMMA WindowAppend ==
    ASSUME NEW tail \in Index, NEW head \in Index, After(head) # tail
    PROVE  /\ Window(tail, After(head)) = Window(tail, head) \cup {head}
           /\ head \notin Window(tail, head)
BY SizeAssumption DEF After, Window

(* Advancing the tail of a ring that is not empty removes the oldest entry. *)
LEMMA WindowAdvance ==
    ASSUME NEW tail \in Index, NEW head \in Index, tail # head
    PROVE  /\ Window(After(tail), head) = Window(tail, head) \ {tail}
           /\ tail \in Window(tail, head)
BY SizeAssumption DEF After, Window

(* Appending to a full ring exchanges the oldest entry for the new one. *)
LEMMA WindowOverwrite ==
    ASSUME NEW tail \in Index, NEW head \in Index, After(head) = tail
    PROVE  /\ Window(After(tail), After(head)) =
                (Window(tail, head) \ {tail}) \cup {head}
           /\ tail \in Window(tail, head)
           /\ head \notin Window(tail, head)
BY SizeAssumption DEF After, Window

----------------------------------------------------------------------------
(* Type correctness.  A ring entry that was never written is NoEvent; the  *)
(* entries that wait are events of the topics MsgCenter_Publish serves.    *)

QueueSound ==
    \A i \in Queued : /\ mc_queue[i] \in Event
                      /\ mc_queue[i].topic \in PlainTopics
                      /\ mc_queue[i].key = Key0

TypeInv == TypeOK /\ QueueSound

LEMMA SuccType ==
    ASSUME NEW n \in Counter
    PROVE  Succ(n) \in Counter
BY SizeAssumption DEF Succ

LEMMA CountType ==
    ASSUME NEW d \in [Topics -> Diagnostics], NEW t \in Topics
    PROVE  /\ [d EXCEPT ![t].published = Succ(@)] \in [Topics -> Diagnostics]
           /\ [d EXCEPT ![t].delivered = Succ(@)] \in [Topics -> Diagnostics]
           /\ [d EXCEPT ![t].overwritten = Succ(@)] \in [Topics -> Diagnostics]
           /\ [d EXCEPT ![t].coalesced = Succ(@)] \in [Topics -> Diagnostics]
           /\ [d EXCEPT ![t].rejected = Succ(@)] \in [Topics -> Diagnostics]
BY SuccType DEF Diagnostics

LEMMA RejectType ==
    ASSUME mc_diagnostics \in [Topics -> Diagnostics], NEW t \in Topics, Reject(t)
    PROVE  mc_diagnostics' \in [Topics -> Diagnostics]
BY CountType DEF Reject

LEMMA PlainAreTopics == PlainTopics \subseteq Topics
BY DEF Topics

LEMMA KeysNat == Key0 \in Keys /\ Keys \subseteq Nat
BY UseAssumption DEF Keys, Key0

LEMMA NoneNoEvent == NoEvent \notin Event
BY UseAssumption DEF NoEvent, Event

(* What a lookup returns: an existing slot, or the new last one. *)
LEMMA LookupType ==
    ASSUME NEW t \in Topics, NEW k \in Keys, NEW phase \in Phase,
           mc_latest \in Seq(Slot), Len(mc_latest) <= LatestCapacity,
           ~SlotRefused(t, k, phase)
    PROVE  /\ LatestSlots(t, k, phase) \in Seq(Slot)
           /\ Len(LatestSlots(t, k, phase)) <= LatestCapacity
           /\ Len(LatestSlots(t, k, phase)) >= Len(mc_latest)
           /\ LatestSlot(t, k) \in 1 .. Len(LatestSlots(t, k, phase))
<1>1. FreshSlot(t, k, phase) \in Slot
  BY SizeAssumption DEF FreshSlot, Slot
<1>2. CASE SlotsOf(t, k) = {}
  BY <1>1, <1>2, SizeAssumption DEF LatestSlots, LatestSlot, SlotRefused
<1>3. CASE SlotsOf(t, k) # {}
  <2>1. LatestSlot(t, k) \in SlotsOf(t, k)
    BY <1>3 DEF LatestSlot
  <2>2. QED BY <1>3, <2>1 DEF LatestSlots, SlotsOf
<1>4. QED BY <1>2, <1>3

LEMMA SeqReplace ==
    ASSUME NEW S, NEW s \in Seq(S), NEW i \in 1 .. Len(s), NEW e \in S
    PROVE  /\ [s EXCEPT ![i] = e] \in Seq(S)
           /\ Len([s EXCEPT ![i] = e]) = Len(s)
OBVIOUS

LEMMA StoreType ==
    ASSUME NEW slots \in Seq(Slot), NEW i \in 1 .. Len(slots), NEW t \in Topics,
           mc_diagnostics \in [Topics -> Diagnostics],
           StoreLatest(slots, i, t)
    PROVE  /\ mc_latest' \in Seq(Slot)
           /\ Len(mc_latest') = Len(slots)
           /\ mc_diagnostics' \in [Topics -> Diagnostics]
<1>1. Stamp(t) \in Counter
  BY SuccType DEF Stamp, Diagnostics
<1>2. slots[i] \in Slot
  OBVIOUS
<1>3. [[slots[i] EXCEPT !.data = Stamp(t)] EXCEPT !.pending = TRUE] \in Slot
  BY <1>1, <1>2 DEF Slot
<1>4. mc_latest' = [slots EXCEPT ![i] =
                      [[slots[i] EXCEPT !.data = Stamp(t)] EXCEPT !.pending = TRUE]]
  BY <1>2 DEF StoreLatest, Slot
<1>5. mc_latest' \in Seq(Slot) /\ Len(mc_latest') = Len(slots)
  BY <1>3, <1>4
<1>6. mc_diagnostics' \in [Topics -> Diagnostics]
  BY SuccType DEF StoreLatest, Diagnostics
<1>7. QED BY <1>5, <1>6

LEMMA QueuePublishType ==
    ASSUME TypeInv, NEW t \in PlainTopics, PublishToQueue(t)
    PROVE  TypeInv'
<1> DEFINE ev == [topic |-> t, key |-> Key0, data |-> Stamp(t)]
<1>1. t \in Topics /\ ev \in Event
  BY PlainAreTopics, KeysNat, SuccType
     DEF TypeInv, TypeOK, Event, Stamp, Diagnostics
<1>2. mc_tail' \in Index /\ mc_head' \in Index
  BY AfterInIndex DEF TypeInv, TypeOK, PublishToQueue
<1>3. mc_queue' \in [Index -> Event \cup {NoEvent}]
  BY <1>1 DEF TypeInv, TypeOK, PublishToQueue
<1>4. Queued' \subseteq Queued \cup {mc_head}
  BY WindowAppend, WindowOverwrite DEF TypeInv, TypeOK, PublishToQueue, IsFull, Queued
<1>5. QueueSound'
  <2> SUFFICES ASSUME NEW i \in Queued'
               PROVE  (/\ mc_queue[i] \in Event
                       /\ mc_queue[i].topic \in PlainTopics
                       /\ mc_queue[i].key = Key0)'
    BY DEF QueueSound
  <2>1. CASE i = mc_head
    BY <1>1, <2>1 DEF TypeInv, TypeOK, PublishToQueue
  <2>2. CASE i # mc_head
    BY <1>4, <2>2, WindowInIndex DEF TypeInv, TypeOK, QueueSound, PublishToQueue, Queued
  <2>3. QED BY <2>1, <2>2
<1>6. mc_diagnostics' \in [Topics -> Diagnostics]
  <2>1. IsFull => mc_queue[mc_tail].topic \in Topics
    BY WindowOverwrite, PlainAreTopics DEF TypeInv, TypeOK, QueueSound, IsFull, Queued
  <2>2. CASE IsFull
    <3> DEFINE counted == [mc_diagnostics EXCEPT ![t].published = Succ(@)]
    <3>1. counted \in [Topics -> Diagnostics]
      BY <1>1, CountType DEF TypeInv, TypeOK
    <3>2. mc_diagnostics' =
            [counted EXCEPT ![mc_queue[mc_tail].topic].overwritten = Succ(@)]
      BY <2>2 DEF PublishToQueue
    <3> HIDE DEF counted
    <3>3. QED BY <2>1, <2>2, <3>1, <3>2, CountType
  <2>3. CASE ~IsFull
    BY <1>1, <2>3, CountType DEF TypeInv, TypeOK, PublishToQueue
  <2>4. QED BY <2>2, <2>3
<1>7. QED
  BY <1>2, <1>3, <1>5, <1>6
     DEF TypeInv, TypeOK, PublishToQueue, latestVars, dispatchVars

LEMMA PublishLatestType ==
    ASSUME TypeInv, NEW u \in KeyedUse, PublishLatest(u.topic, u.key, u.phase)
    PROVE  TypeInv'
<1>1. u.topic \in Topics /\ u.key \in Keys /\ u.phase \in Phase
  BY UseAssumption DEF Topics, Keys
<1>2. /\ mc_latest' \in Seq(Slot)
      /\ Len(mc_latest') <= LatestCapacity
      /\ Len(mc_latest') >= Len(mc_latest)
      /\ mc_diagnostics' \in [Topics -> Diagnostics]
  <2>1. CASE SlotRefused(u.topic, u.key, u.phase)
    <3>1. mc_latest' = mc_latest /\ Reject(u.topic)
      BY <2>1 DEF PublishLatest
    <3>2. QED BY <1>1, <3>1, RejectType DEF TypeInv, TypeOK
  <2>2. CASE ~SlotRefused(u.topic, u.key, u.phase)
    <3>1. StoreLatest(LatestSlots(u.topic, u.key, u.phase),
                      LatestSlot(u.topic, u.key), u.topic)
      BY <2>2 DEF PublishLatest
    <3>2. QED BY <1>1, <2>2, <3>1, LookupType, StoreType DEF TypeInv, TypeOK
  <2>3. QED BY <2>1, <2>2
<1>3. mc_latest_topic' \in [Topics -> 0 .. Len(mc_latest')]
  BY <1>2 DEF TypeInv, TypeOK, PublishLatest
<1>4. QED
  BY <1>2, <1>3
     DEF TypeInv, TypeOK, QueueSound, Queued, PublishLatest, queueVars, dispatchVars

LEMMA UseLatestType ==
    ASSUME TypeInv, NEW u \in TopicUse, UseLatest(u.topic, u.phase)
    PROVE  TypeInv'
<1>1. u.topic \in Topics /\ Key0 \in Keys /\ u.phase \in Phase
  BY UseAssumption, PlainAreTopics, KeysNat
<1>2. CASE SlotRefused(u.topic, Key0, u.phase)
  <2>1. mc_diagnostics' \in [Topics -> Diagnostics]
    BY <1>1, <1>2, RejectType DEF TypeInv, TypeOK, UseLatest
  <2>2. UNCHANGED <<queueVars, latestVars, dispatchVars>>
    BY <1>2 DEF UseLatest
  <2>3. QED
    BY <2>1, <2>2
       DEF TypeInv, TypeOK, QueueSound, Queued, latestVars, queueVars, dispatchVars
<1>3. CASE ~SlotRefused(u.topic, Key0, u.phase)
  <2>1. /\ mc_latest' \in Seq(Slot)
        /\ Len(mc_latest') <= LatestCapacity
        /\ Len(mc_latest') >= Len(mc_latest)
        /\ LatestSlot(u.topic, Key0) \in 1 .. Len(mc_latest')
    BY <1>1, <1>3, LookupType DEF TypeInv, TypeOK, UseLatest
  <2>2. mc_latest_topic' \in [Topics -> 0 .. Len(mc_latest')]
    <3>1. mc_latest_topic' = [mc_latest_topic EXCEPT
                                ![u.topic] = LatestSlot(u.topic, Key0)]
      BY <1>3 DEF UseLatest
    <3>2. mc_latest_topic \in [Topics -> 0 .. Len(mc_latest)]
          /\ mc_latest \in Seq(Slot)
      BY DEF TypeInv, TypeOK
    <3>3. mc_latest_topic \in [Topics -> 0 .. Len(mc_latest')]
      BY <2>1, <3>2
    <3>4. LatestSlot(u.topic, Key0) \in 0 .. Len(mc_latest')
      BY <2>1
    <3>5. QED BY <3>1, <3>3, <3>4
  <2>3. QED
    BY <1>3, <2>1, <2>2
       DEF TypeInv, TypeOK, QueueSound, Queued, UseLatest, queueVars, dispatchVars
<1>4. QED BY <1>2, <1>3

LEMMA ToSlotType ==
    ASSUME TypeInv, NEW t \in PlainTopics, PublishToSlot(t)
    PROVE  TypeInv'
<1>1. t \in Topics /\ mc_latest_topic[t] \in 1 .. Len(mc_latest)
  BY PlainAreTopics DEF TypeInv, TypeOK, PublishToSlot
<1>2. /\ mc_latest' \in Seq(Slot)
      /\ Len(mc_latest') = Len(mc_latest)
      /\ mc_diagnostics' \in [Topics -> Diagnostics]
  BY <1>1, StoreType DEF TypeInv, TypeOK, PublishToSlot
<1>3. QED
  BY <1>2 DEF TypeInv, TypeOK, QueueSound, Queued, PublishToSlot, queueVars, dispatchVars

LEMMA ChannelType ==
    ASSUME NEW ev \in Event
    PROVE  ChannelOf(ev) \in Channels
BY DEF ChannelOf, Channels, Event

LEMMA WaitingType ==
    ASSUME TypeOK
    PROVE  WaitingInSlots \in [Channels -> Counter]
<1> SUFFICES ASSUME NEW c \in Channels
             PROVE  WaitingInSlots[c] \in Counter
  BY DEF WaitingInSlots
<1>1. CASE \E i \in DOMAIN mc_latest :
             mc_latest[i].pending /\ ChannelOf(mc_latest[i]) = c
  <2> DEFINE i == CHOOSE i \in DOMAIN mc_latest : ChannelOf(mc_latest[i]) = c
  <2>1. i \in DOMAIN mc_latest
    BY <1>1
  <2> HIDE DEF i
  <2>2. mc_latest[i] \in Slot
    BY <2>1 DEF TypeOK
  <2>3. WaitingInSlots[c] = mc_latest[i].data
    BY <1>1 DEF WaitingInSlots, i
  <2>4. QED BY <2>2, <2>3 DEF Slot
<1>2. CASE ~ \E i \in DOMAIN mc_latest :
               mc_latest[i].pending /\ ChannelOf(mc_latest[i]) = c
  BY <1>2, SizeAssumption DEF WaitingInSlots
<1>3. QED BY <1>1, <1>2

LEMMA DispatchType ==
    ASSUME TypeInv, Dispatch
    PROVE  TypeInv'
<1>1. CASE BeginDispatch
  <2>1. dispatcher' \in Dispatcher
    BY <1>1 DEF TypeInv, TypeOK, BeginDispatch, Steps, Dispatcher
  <2>2. QED
    BY <1>1, <2>1, WaitingType
       DEF TypeInv, TypeOK, QueueSound, Queued, BeginDispatch, queueVars, latestVars
<1>2. ASSUME NEW phase \in Phase, TakeLatest(phase)
      PROVE  TypeInv'
  <2> DEFINE i == dispatcher.slot
  <2>1. i \in 1 .. LatestCapacity /\ i + 1 \in 1 .. LatestCapacity + 1
    BY <1>2, SizeAssumption DEF TypeInv, TypeOK, TakeLatest, Dispatcher
  <2>2. dispatcher' \in Dispatcher
    BY <1>2, <2>1 DEF TypeInv, TypeOK, TakeLatest, Steps, Dispatcher
  <2>3. /\ hand' \in Event \cup {NoEvent}
        /\ mc_latest' \in Seq(Slot)
        /\ Len(mc_latest') = Len(mc_latest)
    <3>1. CASE i <= Len(mc_latest) /\ mc_latest[i].phase = phase
               /\ mc_latest[i].pending
      <4>1. mc_latest[i] \in Slot
        BY <2>1, <3>1, SizeAssumption DEF TypeInv, TypeOK
      <4>2. [mc_latest[i] EXCEPT !.pending = FALSE] \in Slot
        BY <4>1 DEF Slot
      <4>3. mc_latest' = [mc_latest EXCEPT ![i] = [mc_latest[i] EXCEPT !.pending = FALSE]]
        BY <1>2, <3>1 DEF TakeLatest
      <4>4. hand' \in Event
        BY <1>2, <3>1, <4>1 DEF TakeLatest, Slot, Event
      <4>5. mc_latest \in Seq(Slot)
        BY DEF TypeInv, TypeOK
      <4>6. i \in 1 .. Len(mc_latest)
        BY <2>1, <3>1, <4>5, SizeAssumption
      <4> HIDE DEF i
      <4>7. QED BY <4>2, <4>3, <4>4, <4>5, <4>6, SeqReplace
    <3>2. CASE ~ (i <= Len(mc_latest) /\ mc_latest[i].phase = phase
                  /\ mc_latest[i].pending)
      BY <1>2, <3>2 DEF TypeInv, TypeOK, TakeLatest
    <3>3. QED BY <3>1, <3>2
  <2>4. QED
    BY <1>2, <2>2, <2>3
       DEF TypeInv, TypeOK, QueueSound, Queued, TakeLatest, queueVars
<1>3. ASSUME NEW phase \in Phase, EndLatest(phase)
      PROVE  TypeInv'
  <2>1. dispatcher' \in Dispatcher
    <3>1. StepAfter(phase) \in Steps /\ 1 \in 1 .. LatestCapacity + 1
      BY SizeAssumption DEF StepAfter, Steps
    <3>2. QED BY <1>3, <3>1 DEF TypeInv, TypeOK, EndLatest, Dispatcher
  <2>2. QED
    BY <1>3, <2>1
       DEF TypeInv, TypeOK, QueueSound, Queued, EndLatest, queueVars, latestVars
<1>4. CASE TakeQueued
  <2> DEFINE ev == mc_queue[mc_tail]
  <2>1. /\ mc_tail' \in Index
        /\ Queued' = Queued \ {mc_tail}
        /\ mc_tail \in Queued
    BY <1>4, AfterInIndex, WindowAdvance
       DEF TypeInv, TypeOK, TakeQueued, IsEmpty, Queued
  <2>2. ev \in Event /\ ev.topic \in Topics
    BY <2>1, PlainAreTopics DEF TypeInv, QueueSound
  <2>3. dispatcher' \in Dispatcher
    <3>1. dispatcher.processed + 1 \in 0 .. DispatchBudget
      BY <1>4, SizeAssumption DEF TypeInv, TypeOK, TakeQueued, Dispatcher
    <3>2. QED
      BY <1>4, <3>1 DEF TypeInv, TypeOK, TakeQueued, CountProcessed, Steps, Dispatcher
  <2>4. mc_diagnostics' \in [Topics -> Diagnostics]
    <3>1. [mc_diagnostics EXCEPT ![ev.topic].coalesced = Succ(@)]
            \in [Topics -> Diagnostics]
      BY <2>2, CountType DEF TypeInv, TypeOK
    <3>2. \/ mc_diagnostics' =
               [mc_diagnostics EXCEPT ![ev.topic].coalesced = Succ(@)]
          \/ mc_diagnostics' = mc_diagnostics
      BY <1>4 DEF TakeQueued
    <3>3. mc_diagnostics \in [Topics -> Diagnostics]
      BY DEF TypeInv, TypeOK
    <3>4. QED BY <3>1, <3>2, <3>3
  <2>5. hand' \in Event \cup {NoEvent}
    BY <1>4, <2>2 DEF TypeInv, TypeOK, TakeQueued
  <2>6. QueueSound'
    BY <1>4, <2>1 DEF TypeInv, QueueSound, TakeQueued
  <2>7. QED
    BY <1>4, <2>1, <2>3, <2>4, <2>5, <2>6
       DEF TypeInv, TypeOK, TakeQueued, latestVars
<1>5. CASE EndQueue
  <2>1. dispatcher' \in Dispatcher
    BY <1>5, SizeAssumption DEF EndQueue, StepAfterQueue, Steps, Dispatcher
  <2>2. QED
    BY <1>5, <2>1
       DEF TypeInv, TypeOK, QueueSound, Queued, EndQueue, queueVars, latestVars
<1>6. CASE Deliver
  <2>1. hand \in Event /\ ChannelOf(hand) \in Channels /\ hand.topic \in Topics
        /\ hand.data \in Counter
    BY <1>6, ChannelType DEF TypeInv, TypeOK, Deliver, Event
  <2>2. mc_diagnostics' \in [Topics -> Diagnostics]
    BY <1>6, <2>1, CountType DEF TypeInv, TypeOK, Deliver
  <2>3. QED
    BY <1>6, <2>1, <2>2
       DEF TypeInv, TypeOK, QueueSound, Queued, Deliver, queueVars, latestVars
<1>7. CASE RunHooks
  <2>1. Idle \in Dispatcher
    BY SizeAssumption DEF Idle, Steps, Dispatcher
  <2>2. Nothing \in [Channels -> Counter]
    BY SizeAssumption DEF Nothing
  <2>3. QED
    BY <1>7, <2>1, <2>2
       DEF TypeInv, TypeOK, QueueSound, Queued, RunHooks, queueVars, latestVars
<1>8. QED
  BY <1>1, <1>2, <1>3, <1>4, <1>5, <1>6, <1>7 DEF Dispatch

LEMMA InitType ==
    ASSUME Init
    PROVE  TypeInv
<1>1. Idle \in Dispatcher
  BY SizeAssumption DEF Idle, Steps, Dispatcher
<1>2. Nothing \in [Channels -> Counter] /\ 0 \in Counter /\ 0 \in Index
  BY SizeAssumption DEF Nothing
<1>3. mc_latest \in Seq(Slot) /\ Len(mc_latest) = 0
  BY DEF Init
<1>4. Queued = {}
  BY DEF Init, Queued, Window
<1>5. mc_diagnostics \in [Topics -> Diagnostics]
  BY <1>2 DEF Init, Diagnostics
<1>6. QED
  BY <1>1, <1>2, <1>3, <1>4, <1>5, SizeAssumption
     DEF Init, TypeInv, TypeOK, QueueSound

LEMMA TypeStep ==
    ASSUME TypeInv, [Next]_vars
    PROVE  TypeInv'
<1>1. CASE UNCHANGED vars
  BY <1>1 DEF TypeInv, TypeOK, QueueSound, Queued, vars
<1>2. CASE Next
  BY <1>2, QueuePublishType, ToSlotType, PublishLatestType, UseLatestType,
     DispatchType DEF Next, Publish
<1>3. QED BY <1>1, <1>2

(* The variables of MessageCenter always have their types, and every ring  *)
(* entry that waits is an event of a ring topic: modules/message_center    *)
(* never reads a ring entry, a slot or a counter outside its array.        *)
THEOREM TypeCorrect == Spec => [](TypeOK /\ QueueSound)
<1>1. Init => TypeInv
  BY InitType
<1>2. TypeInv /\ [Next]_vars => TypeInv'
  BY TypeStep
<1>3. QED BY <1>1, <1>2, PTL DEF Spec, TypeInv

----------------------------------------------------------------------------
(* Conservation.  As long as no counter wraps, published is the exact sum  *)
(* of what was delivered, reported and still held.  The sum is inductive   *)
(* once the slot a topic was switched to is known to be a slot of it.      *)

TopicSlot ==
    \A t \in Topics :
        mc_latest_topic[t] # 0 => mc_latest[mc_latest_topic[t]].topic = t

Balance ==
    \A t \in Topics :
        /\ mc_diagnostics[t].published + mc_diagnostics[t].rejected <= MaxPublish
        /\ mc_diagnostics[t].published = Settled(t) + Held(t)

CountInv == TypeInv /\ TopicSlot /\ Balance

LEMMA HeldFinite ==
    ASSUME TypeOK, NEW t
    PROVE  /\ IsFiniteSet(QueuedOf(t)) /\ Cardinality(QueuedOf(t)) \in Nat
           /\ IsFiniteSet(PendingOf(t)) /\ Cardinality(PendingOf(t)) \in Nat
<1>1. IsFiniteSet(Queued)
  BY WindowInIndex DEF TypeOK, Queued
<1>2. IsFiniteSet(DOMAIN mc_latest)
  <2>1. DOMAIN mc_latest = 1 .. Len(mc_latest) /\ Len(mc_latest) \in Nat
    BY DEF TypeOK
  <2>2. QED BY <2>1, FS_Interval
<1>3. QueuedOf(t) \in SUBSET Queued /\ PendingOf(t) \in SUBSET (DOMAIN mc_latest)
  BY DEF QueuedOf, PendingOf, PendingIn
<1>4. QED BY <1>1, <1>2, <1>3, FS_Subset, FS_CardinalityType

(* Looking a slot up changes no pending value. *)
LEMMA LookupPending ==
    ASSUME NEW t \in Topics, NEW k \in Keys, NEW phase \in Phase,
           mc_latest \in Seq(Slot), Len(mc_latest) <= LatestCapacity,
           ~SlotRefused(t, k, phase), NEW u
    PROVE  /\ PendingIn(LatestSlots(t, k, phase), u) = PendingOf(u)
           /\ LatestSlots(t, k, phase)[LatestSlot(t, k)].topic = t
           /\ \A i \in DOMAIN mc_latest :
                LatestSlots(t, k, phase)[i] = mc_latest[i]
<1>1. FreshSlot(t, k, phase) \in Slot /\ ~FreshSlot(t, k, phase).pending
      /\ FreshSlot(t, k, phase).topic = t
  BY SizeAssumption DEF FreshSlot, Slot
<1>2. CASE SlotsOf(t, k) = {}
  <2>1. LatestSlots(t, k, phase) = Append(mc_latest, FreshSlot(t, k, phase))
        /\ LatestSlot(t, k) = Len(mc_latest) + 1
    BY <1>2 DEF LatestSlots, LatestSlot
  <2>2. DOMAIN LatestSlots(t, k, phase) = DOMAIN mc_latest \cup {Len(mc_latest) + 1}
    BY <2>1
  <2>3. /\ LatestSlots(t, k, phase)[Len(mc_latest) + 1] = FreshSlot(t, k, phase)
        /\ \A i \in DOMAIN mc_latest : LatestSlots(t, k, phase)[i] = mc_latest[i]
    BY <2>1, <1>1
  <2>4. QED BY <1>1, <2>1, <2>2, <2>3 DEF PendingOf, PendingIn
<1>3. CASE SlotsOf(t, k) # {}
  <2>1. LatestSlot(t, k) \in SlotsOf(t, k)
    BY <1>3 DEF LatestSlot
  <2>2. QED BY <1>3, <2>1 DEF LatestSlots, SlotsOf, PendingOf
<1>4. QED BY <1>2, <1>3

(* A store makes its slot pending, and counts the value it replaces.       *)
LEMMA StorePending ==
    ASSUME NEW slots \in Seq(Slot), NEW i \in 1 .. Len(slots), NEW t \in Topics,
           slots[i].topic = t, StoreLatest(slots, i, t), NEW u \in Topics
    PROVE  /\ mc_latest'[i].topic = t
           /\ \A j \in DOMAIN slots : mc_latest'[j].topic = slots[j].topic
           /\ Cardinality(PendingIn(mc_latest', u)) =
                Cardinality(PendingIn(slots, u))
                  + (IF u = t /\ ~slots[i].pending THEN 1 ELSE 0)
<1>1. IsFiniteSet(PendingIn(slots, u)) /\ Cardinality(PendingIn(slots, u)) \in Nat
  <2>1. IsFiniteSet(DOMAIN slots)
    BY FS_Interval
  <2>2. PendingIn(slots, u) \in SUBSET (DOMAIN slots)
    BY DEF PendingIn
  <2>3. QED BY <2>1, <2>2, FS_Subset, FS_CardinalityType
<1>2. /\ DOMAIN mc_latest' = DOMAIN slots
      /\ \A j \in DOMAIN slots : /\ mc_latest'[j].topic = slots[j].topic
                                 /\ j # i => mc_latest'[j] = slots[j]
      /\ mc_latest'[i].pending
  <2>1. slots[i] \in Slot
    OBVIOUS
  <2>2. QED BY <2>1 DEF StoreLatest, Slot
<1>3. CASE u = t
  <2>1. PendingIn(mc_latest', u) = PendingIn(slots, u) \cup {i}
    BY <1>2, <1>3 DEF PendingIn
  <2>2. i \in PendingIn(slots, u) <=> slots[i].pending
    BY <1>3 DEF PendingIn
  <2>3. Cardinality(PendingIn(mc_latest', u)) =
          IF i \in PendingIn(slots, u) THEN Cardinality(PendingIn(slots, u))
                                       ELSE Cardinality(PendingIn(slots, u)) + 1
    BY <1>1, <2>1, FS_AddElement
  <2>4. CASE slots[i].pending
    BY <1>1, <1>2, <1>3, <2>2, <2>3, <2>4
  <2>5. CASE ~slots[i].pending
    BY <1>1, <1>2, <1>3, <2>2, <2>3, <2>5
  <2>6. QED BY <2>4, <2>5
<1>4. CASE u # t
  <2>1. PendingIn(mc_latest', u) = PendingIn(slots, u)
    BY <1>2, <1>4 DEF PendingIn
  <2>2. QED BY <1>1, <1>2, <1>4, <2>1
<1>5. QED BY <1>3, <1>4

LEMMA SuccExact ==
    ASSUME MaxPublish < CounterModulus, NEW n \in Nat, n < MaxPublish
    PROVE  Succ(n) = n + 1
BY SizeAssumption DEF Succ

(* Every term of the sum is a natural number, and bounded by the sum.      *)
Terms(u) ==
    /\ mc_diagnostics[u].published \in Nat
    /\ mc_diagnostics[u].delivered \in Nat
    /\ mc_diagnostics[u].overwritten \in Nat
    /\ mc_diagnostics[u].coalesced \in Nat
    /\ mc_diagnostics[u].rejected \in Nat
    /\ Cardinality(QueuedOf(u)) \in Nat
    /\ Cardinality(PendingOf(u)) \in Nat
    /\ InHand(u) \in Nat

BalanceOf(u) ==
    /\ Settled(u) \in Nat
    /\ Held(u) \in Nat
    /\ mc_diagnostics[u].published + mc_diagnostics[u].rejected <= MaxPublish
    /\ mc_diagnostics[u].published = Settled(u) + Held(u)

LEMMA BalanceTerms ==
    ASSUME CountInv, NEW u \in Topics
    PROVE  /\ Terms(u)
           /\ BalanceOf(u)
           /\ mc_diagnostics[u].delivered <= Settled(u)
           /\ mc_diagnostics[u].overwritten <= Settled(u)
           /\ mc_diagnostics[u].coalesced <= Settled(u)
           /\ Settled(u) + Held(u) <= MaxPublish
<1>1. mc_diagnostics[u] \in Diagnostics
  BY DEF CountInv, TypeInv, TypeOK
<1>2. InHand(u) \in Nat
  BY DEF InHand
<1>3. Terms(u)
  BY <1>1, <1>2, HeldFinite, SizeAssumption DEF Diagnostics, CountInv, TypeInv, Terms
<1>4. Settled(u) \in Nat /\ Held(u) \in Nat
  BY <1>3 DEF Terms, Settled, Held
<1>5. BalanceOf(u)
  BY <1>4 DEF CountInv, Balance, BalanceOf
<1>6. /\ mc_diagnostics[u].delivered <= Settled(u)
      /\ mc_diagnostics[u].overwritten <= Settled(u)
      /\ mc_diagnostics[u].coalesced <= Settled(u)
  BY <1>3 DEF Terms, Settled
<1>7. Settled(u) + Held(u) <= MaxPublish
  BY <1>3, <1>5, SizeAssumption DEF Terms, BalanceOf
<1>8. QED BY <1>3, <1>5, <1>6, <1>7

(* A store into a slot of t, in a table that holds the same pending values. *)
Stored(slots, i, t) ==
    /\ slots \in Seq(Slot)
    /\ i \in 1 .. Len(slots)
    /\ slots[i].topic = t
    /\ CanPublish(t)
    /\ StoreLatest(slots, i, t)
    /\ \A u \in Topics : PendingIn(slots, u) = PendingOf(u)
    /\ UNCHANGED <<queueVars, hand>>

LEMMA StoreBalance ==
    ASSUME MaxPublish < CounterModulus, CountInv,
           NEW slots, NEW i, NEW t \in Topics, Stored(slots, i, t)
    PROVE  Balance'
<1> SUFFICES ASSUME NEW u \in Topics
             PROVE  (/\ mc_diagnostics[u].published + mc_diagnostics[u].rejected
                          <= MaxPublish
                     /\ mc_diagnostics[u].published = Settled(u) + Held(u))'
  BY DEF Balance
<1>0. /\ Terms(u)
      /\ BalanceOf(u)
      /\ mc_diagnostics[u].coalesced <= Settled(u)
      /\ Settled(u) + Held(u) <= MaxPublish
  BY BalanceTerms
<1>1. QueuedOf(u)' = QueuedOf(u) /\ InHand(u)' = InHand(u)
  BY DEF Stored, QueuedOf, Queued, queueVars, InHand
<1>2. Cardinality(PendingOf(u)') = Cardinality(PendingOf(u))
                                    + (IF u = t /\ ~slots[i].pending THEN 1 ELSE 0)
  BY StorePending DEF PendingOf, Stored
<1>3. CASE u # t
  <2>1. mc_diagnostics'[u] = mc_diagnostics[u]
    BY <1>3 DEF Stored, StoreLatest, CountInv, TypeInv, TypeOK
  <2>2. Settled(u)' = Settled(u) /\ Held(u)' = Held(u)
    BY <1>0, <1>1, <1>2, <1>3, <2>1 DEF Terms, Settled, Held
  <2>3. QED BY <1>0, <2>1, <2>2 DEF BalanceOf
<1>4. CASE u = t
  <2>1. /\ mc_diagnostics'[u].published = Succ(mc_diagnostics[u].published)
        /\ mc_diagnostics'[u].coalesced =
              IF slots[i].pending THEN Succ(mc_diagnostics[u].coalesced)
                                  ELSE mc_diagnostics[u].coalesced
        /\ mc_diagnostics'[u].delivered = mc_diagnostics[u].delivered
        /\ mc_diagnostics'[u].overwritten = mc_diagnostics[u].overwritten
        /\ mc_diagnostics'[u].rejected = mc_diagnostics[u].rejected
    BY <1>4 DEF Stored, StoreLatest, CountInv, TypeInv, TypeOK, Diagnostics
  <2>2. mc_diagnostics[u].published + mc_diagnostics[u].rejected < MaxPublish
    BY <1>4 DEF CanPublish, Stored
  <2>3. mc_diagnostics[u].published < MaxPublish
    BY <1>0, <2>2, SizeAssumption DEF Terms
  <2>4. mc_diagnostics[u].coalesced < MaxPublish
    BY <1>0, <2>3, SizeAssumption DEF Terms, BalanceOf
  <2>5. /\ Succ(mc_diagnostics[u].published) = mc_diagnostics[u].published + 1
        /\ Succ(mc_diagnostics[u].coalesced) = mc_diagnostics[u].coalesced + 1
    BY <1>0, <2>3, <2>4, SuccExact DEF Terms
  <2>6. CASE slots[i].pending
    <3>1. Held(u)' = Held(u)
      BY <1>0, <1>1, <1>2, <2>6 DEF Terms, Held
    <3>2. Settled(u)' = Settled(u) + 1
      BY <1>0, <2>1, <2>5, <2>6 DEF Terms, Settled
    <3>3. QED BY <1>0, <2>1, <2>2, <2>5, <3>1, <3>2, SizeAssumption DEF Terms, BalanceOf
  <2>7. CASE ~slots[i].pending
    <3>1. Held(u)' = Held(u) + 1
      BY <1>0, <1>1, <1>2, <1>4, <2>7 DEF Terms, Held
    <3>2. Settled(u)' = Settled(u)
      BY <1>0, <2>1, <2>7 DEF Terms, Settled
    <3>3. QED BY <1>0, <2>1, <2>2, <2>5, <3>1, <3>2, SizeAssumption DEF Terms, BalanceOf
  <2>8. QED BY <2>6, <2>7
<1>5. QED BY <1>3, <1>4

LEMMA RejectBalance ==
    ASSUME MaxPublish < CounterModulus, CountInv, NEW t \in Topics, CanPublish(t),
           Reject(t), UNCHANGED queueVars, UNCHANGED hand,
           \A u \in Topics : PendingOf(u)' = PendingOf(u)
    PROVE  Balance'
<1> SUFFICES ASSUME NEW u \in Topics
             PROVE  (/\ mc_diagnostics[u].published + mc_diagnostics[u].rejected
                          <= MaxPublish
                     /\ mc_diagnostics[u].published = Settled(u) + Held(u))'
  BY DEF Balance
<1>0. Terms(u) /\ BalanceOf(u)
  BY BalanceTerms
<1>1. /\ mc_diagnostics'[u].published = mc_diagnostics[u].published
      /\ mc_diagnostics'[u].delivered = mc_diagnostics[u].delivered
      /\ mc_diagnostics'[u].overwritten = mc_diagnostics[u].overwritten
      /\ mc_diagnostics'[u].coalesced = mc_diagnostics[u].coalesced
      /\ mc_diagnostics'[u].rejected = IF u = t THEN Succ(mc_diagnostics[u].rejected)
                                                ELSE mc_diagnostics[u].rejected
  BY DEF Reject, CountInv, TypeInv, TypeOK, Diagnostics
<1>2. QueuedOf(u)' = QueuedOf(u) /\ InHand(u)' = InHand(u)
  BY DEF QueuedOf, Queued, queueVars, InHand
<1>3. Settled(u)' = Settled(u) /\ Held(u)' = Held(u)
  BY <1>0, <1>1, <1>2 DEF Terms, Settled, Held
<1>4. CASE u # t
  BY <1>0, <1>1, <1>3, <1>4 DEF BalanceOf
<1>5. CASE u = t
  <2>1. mc_diagnostics[u].published + mc_diagnostics[u].rejected < MaxPublish
    BY <1>5 DEF CanPublish
  <2>2. mc_diagnostics[u].rejected < MaxPublish
    BY <1>0, <2>1, SizeAssumption DEF Terms
  <2>3. mc_diagnostics'[u].rejected = mc_diagnostics[u].rejected + 1
    BY <1>0, <1>1, <1>5, <2>2, SuccExact DEF Terms
  <2>4. QED BY <1>0, <1>1, <1>3, <2>1, <2>3, SizeAssumption DEF Terms, BalanceOf
<1>6. QED BY <1>4, <1>5

LEMMA PublishLatestCount ==
    ASSUME MaxPublish < CounterModulus, CountInv,
           NEW t \in Topics, NEW k \in Keys, NEW phase \in Phase,
           PublishLatest(t, k, phase)
    PROVE  Balance' /\ TopicSlot'
<1>1. CASE SlotRefused(t, k, phase)
  <2>1. Reject(t) /\ CanPublish(t)
        /\ UNCHANGED <<queueVars, hand, mc_latest, mc_latest_topic>>
    BY <1>1 DEF PublishLatest, dispatchVars
  <2>2. \A u \in Topics : PendingOf(u)' = PendingOf(u)
    BY <2>1 DEF PendingOf
  <2>3. Balance'
    BY <2>1, <2>2, RejectBalance
  <2>4. QED BY <2>1, <2>3 DEF TopicSlot, CountInv
<1>2. CASE ~SlotRefused(t, k, phase)
  <2> DEFINE slots == LatestSlots(t, k, phase)
             i == LatestSlot(t, k)
  <2>1. /\ slots \in Seq(Slot)
        /\ Len(slots) >= Len(mc_latest)
        /\ i \in 1 .. Len(slots)
        /\ slots[i].topic = t
        /\ \A u \in Topics : PendingIn(slots, u) = PendingOf(u)
        /\ \A j \in DOMAIN mc_latest : slots[j] = mc_latest[j]
    BY <1>2, LookupType, LookupPending DEF CountInv, TypeInv, TypeOK
  <2>2. /\ CanPublish(t)
        /\ StoreLatest(slots, i, t)
        /\ UNCHANGED <<queueVars, hand, mc_latest_topic>>
    BY <1>2 DEF PublishLatest, dispatchVars
  <2> HIDE DEF slots, i
  <2>3. Balance'
    <3>1. Stored(slots, i, t)
      BY <2>1, <2>2 DEF Stored
    <3>2. QED BY <3>1, StoreBalance
  <2>4. TopicSlot'
    <3> SUFFICES ASSUME NEW u \in Topics, mc_latest_topic[u] # 0
                 PROVE  mc_latest'[mc_latest_topic[u]].topic = u
      BY <2>2 DEF TopicSlot
    <3>1. mc_latest_topic[u] \in DOMAIN mc_latest
          /\ mc_latest[mc_latest_topic[u]].topic = u
      BY DEF CountInv, TypeInv, TypeOK, TopicSlot
    <3>2. mc_latest_topic[u] \in DOMAIN slots
          /\ slots[mc_latest_topic[u]].topic = u
      BY <2>1, <3>1 DEF CountInv, TypeInv, TypeOK
    <3>3. QED BY <2>1, <2>2, <3>2, StorePending
  <2>5. QED BY <2>3, <2>4
<1>3. QED BY <1>1, <1>2

LEMMA ToSlotCount ==
    ASSUME MaxPublish < CounterModulus, CountInv,
           NEW t \in PlainTopics, PublishToSlot(t)
    PROVE  Balance' /\ TopicSlot'
<1>1. /\ t \in Topics
      /\ mc_latest \in Seq(Slot)
      /\ mc_latest_topic[t] \in 1 .. Len(mc_latest)
      /\ mc_latest[mc_latest_topic[t]].topic = t
  BY PlainAreTopics DEF CountInv, TypeInv, TypeOK, TopicSlot, PublishToSlot
<1>2. /\ CanPublish(t)
      /\ StoreLatest(mc_latest, mc_latest_topic[t], t)
      /\ UNCHANGED <<queueVars, hand, mc_latest_topic>>
  BY DEF PublishToSlot, dispatchVars
<1>3. Balance'
  <2>1. Stored(mc_latest, mc_latest_topic[t], t)
    BY <1>1, <1>2 DEF Stored, PendingOf
  <2>2. QED BY <1>1, <2>1, StoreBalance
<1>4. \A j \in DOMAIN mc_latest : mc_latest'[j].topic = mc_latest[j].topic
  BY <1>1, <1>2, StorePending
<1>5. TopicSlot'
  BY <1>2, <1>4 DEF TopicSlot, CountInv, TypeInv, TypeOK
<1>6. QED BY <1>3, <1>5

LEMMA UseLatestCount ==
    ASSUME MaxPublish < CounterModulus, CountInv,
           NEW t \in PlainTopics, NEW phase \in Phase, UseLatest(t, phase)
    PROVE  Balance' /\ TopicSlot'
<1>1. t \in Topics /\ Key0 \in Keys
  BY PlainAreTopics, KeysNat
<1>2. UNCHANGED <<queueVars, hand>>
  BY DEF UseLatest, dispatchVars
<1>3. CASE SlotRefused(t, Key0, phase)
  <2>1. Reject(t) /\ CanPublish(t) /\ UNCHANGED <<mc_latest, mc_latest_topic>>
    BY <1>3 DEF UseLatest, latestVars
  <2>2. \A u \in Topics : PendingOf(u)' = PendingOf(u)
    BY <2>1 DEF PendingOf
  <2>3. Balance'
    BY <1>1, <1>2, <2>1, <2>2, RejectBalance
  <2>4. QED BY <2>1, <2>3 DEF TopicSlot, CountInv
<1>4. CASE ~SlotRefused(t, Key0, phase)
  <2>1. /\ mc_latest' = LatestSlots(t, Key0, phase)
        /\ mc_latest_topic' = [mc_latest_topic EXCEPT ![t] = LatestSlot(t, Key0)]
        /\ UNCHANGED mc_diagnostics
    BY <1>4 DEF UseLatest
  <2>2. /\ mc_latest'[LatestSlot(t, Key0)].topic = t
        /\ \A u \in Topics : PendingIn(mc_latest', u) = PendingOf(u)
        /\ \A j \in DOMAIN mc_latest : mc_latest'[j] = mc_latest[j]
    BY <1>1, <1>4, <2>1, LookupPending DEF CountInv, TypeInv, TypeOK
  <2>3. Balance'
    <3> SUFFICES ASSUME NEW u \in Topics
                 PROVE  (/\ mc_diagnostics[u].published + mc_diagnostics[u].rejected
                              <= MaxPublish
                         /\ mc_diagnostics[u].published = Settled(u) + Held(u))'
      BY DEF Balance
    <3>1. QueuedOf(u)' = QueuedOf(u) /\ InHand(u)' = InHand(u)
          /\ PendingOf(u)' = PendingOf(u)
      BY <1>2, <2>2 DEF QueuedOf, Queued, queueVars, InHand, PendingOf
    <3>2. Settled(u)' = Settled(u) /\ Held(u)' = Held(u)
      BY <2>1, <3>1 DEF Settled, Held
    <3>3. QED BY <2>1, <3>2 DEF CountInv, Balance
  <2>4. TopicSlot'
    <3> SUFFICES ASSUME NEW u \in Topics, mc_latest_topic'[u] # 0
                 PROVE  mc_latest'[mc_latest_topic'[u]].topic = u
      BY DEF TopicSlot
    <3>1. CASE u = t
      BY <1>1, <2>1, <2>2, <3>1 DEF CountInv, TypeInv, TypeOK
    <3>2. CASE u # t
      <4>1. mc_latest_topic'[u] = mc_latest_topic[u]
            /\ mc_latest_topic[u] \in DOMAIN mc_latest
            /\ mc_latest[mc_latest_topic[u]].topic = u
        BY <2>1, <3>2 DEF CountInv, TypeInv, TypeOK, TopicSlot
      <4>2. QED BY <2>2, <4>1
    <3>3. QED BY <3>1, <3>2
  <2>5. QED BY <2>3, <2>4
<1>5. QED BY <1>3, <1>4

(* The ring after a publication: one entry more for t, and one less for    *)
(* the topic of the entry that a full ring gives up.                       *)
Victim(u) == IsFull /\ mc_queue[mc_tail].topic = u

LEMMA RingAfterPublish ==
    ASSUME CountInv, NEW t \in PlainTopics, PublishToQueue(t), NEW u \in Topics
    PROVE  /\ Cardinality(QueuedOf(u)') =
                Cardinality(QueuedOf(u)) + (IF u = t THEN 1 ELSE 0)
                  - (IF Victim(u) THEN 1 ELSE 0)
           /\ Victim(u) => Cardinality(QueuedOf(u)) >= 1
<1>1. /\ mc_tail \in Index /\ mc_head \in Index
      /\ mc_queue \in [Index -> Event \cup {NoEvent}]
      /\ IsFiniteSet(QueuedOf(u)) /\ Cardinality(QueuedOf(u)) \in Nat
      /\ Queued \subseteq Index
  BY HeldFinite, WindowInIndex DEF CountInv, TypeInv, TypeOK, Queued
<1>2. mc_head \notin Queued
  BY <1>1, WindowAppend, WindowOverwrite DEF Queued
<1>3. /\ mc_queue'[mc_head].topic = t
      /\ \A i \in Queued : mc_queue'[i] = mc_queue[i]
  BY <1>1, <1>2 DEF PublishToQueue
<1>4. CASE ~IsFull
  <2>1. Queued' = Queued \cup {mc_head}
    BY <1>1, <1>4, WindowAppend DEF PublishToQueue, IsFull, Queued
  <2>2. QueuedOf(u)' = IF u = t THEN QueuedOf(u) \cup {mc_head} ELSE QueuedOf(u)
    BY <1>3, <2>1 DEF QueuedOf
  <2>3. mc_head \notin QueuedOf(u) /\ ~Victim(u)
    BY <1>2, <1>4 DEF QueuedOf, Victim
  <2>4. Cardinality(QueuedOf(u) \cup {mc_head}) = Cardinality(QueuedOf(u)) + 1
    BY <1>1, <2>3, FS_AddElement
  <2>5. QED BY <1>1, <2>2, <2>3, <2>4
<1>5. CASE IsFull
  <2>1. Queued' = (Queued \ {mc_tail}) \cup {mc_head} /\ mc_tail \in Queued
    BY <1>1, <1>5, WindowOverwrite DEF PublishToQueue, IsFull, Queued
  <2> DEFINE rest == QueuedOf(u) \ {mc_tail}
  <2>2. QueuedOf(u)' = IF u = t THEN rest \cup {mc_head} ELSE rest
    BY <1>2, <1>3, <2>1 DEF QueuedOf
  <2>3. mc_tail \in QueuedOf(u) <=> Victim(u)
    BY <1>5, <2>1 DEF QueuedOf, Victim
  <2>4. IsFiniteSet(rest) /\ mc_head \notin rest
        /\ Cardinality(rest) = IF Victim(u) THEN Cardinality(QueuedOf(u)) - 1
                                            ELSE Cardinality(QueuedOf(u))
    BY <1>1, <1>2, <2>3, FS_RemoveElement DEF QueuedOf
  <2>5. Cardinality(rest) \in Nat
    BY <2>4, FS_CardinalityType
  <2> HIDE DEF rest
  <2>6. Cardinality(rest \cup {mc_head}) = Cardinality(rest) + 1
    BY <2>4, FS_AddElement
  <2>7. QED BY <1>1, <2>2, <2>4, <2>5, <2>6
<1>6. QED BY <1>4, <1>5

LEMMA QueueBalance ==
    ASSUME MaxPublish < CounterModulus, CountInv,
           NEW t \in PlainTopics, PublishToQueue(t)
    PROVE  Balance' /\ TopicSlot'
<1>1. TopicSlot'
  BY DEF PublishToQueue, latestVars, CountInv, TopicSlot
<1> SUFFICES ASSUME NEW u \in Topics
             PROVE  (/\ mc_diagnostics[u].published + mc_diagnostics[u].rejected
                          <= MaxPublish
                     /\ mc_diagnostics[u].published = Settled(u) + Held(u))'
  BY <1>1 DEF Balance
<1>0. /\ Terms(u)
      /\ BalanceOf(u)
      /\ mc_diagnostics[u].overwritten <= Settled(u)
      /\ Settled(u) + Held(u) <= MaxPublish
  BY BalanceTerms
<1>2. /\ Cardinality(QueuedOf(u)') = Cardinality(QueuedOf(u))
           + (IF u = t THEN 1 ELSE 0) - (IF Victim(u) THEN 1 ELSE 0)
      /\ Victim(u) => Cardinality(QueuedOf(u)) >= 1
  BY RingAfterPublish
<1>3. PendingOf(u)' = PendingOf(u) /\ InHand(u)' = InHand(u)
  BY DEF PublishToQueue, latestVars, dispatchVars, PendingOf, InHand
<1>4. /\ mc_diagnostics'[u].published =
           IF u = t THEN Succ(mc_diagnostics[u].published)
                    ELSE mc_diagnostics[u].published
      /\ mc_diagnostics'[u].overwritten =
           IF Victim(u) THEN Succ(mc_diagnostics[u].overwritten)
                        ELSE mc_diagnostics[u].overwritten
      /\ mc_diagnostics'[u].delivered = mc_diagnostics[u].delivered
      /\ mc_diagnostics'[u].coalesced = mc_diagnostics[u].coalesced
      /\ mc_diagnostics'[u].rejected = mc_diagnostics[u].rejected
  <2> DEFINE counted == [mc_diagnostics EXCEPT ![t].published = Succ(@)]
             victim  == mc_queue[mc_tail].topic
  <2>1. t \in Topics
    BY PlainAreTopics
  <2>2. counted \in [Topics -> Diagnostics]
    BY <2>1, CountType DEF CountInv, TypeInv, TypeOK
  <2>3. /\ counted[u].published = IF u = t THEN Succ(mc_diagnostics[u].published)
                                           ELSE mc_diagnostics[u].published
        /\ counted[u].overwritten = mc_diagnostics[u].overwritten
        /\ counted[u].delivered = mc_diagnostics[u].delivered
        /\ counted[u].coalesced = mc_diagnostics[u].coalesced
        /\ counted[u].rejected = mc_diagnostics[u].rejected
    BY <2>1 DEF CountInv, TypeInv, TypeOK, Diagnostics
  <2>4. mc_diagnostics' = IF IsFull THEN [counted EXCEPT ![victim].overwritten = Succ(@)]
                                    ELSE counted
    BY DEF PublishToQueue
  <2> HIDE DEF counted
  <2>5. /\ mc_diagnostics'[u].overwritten =
             IF Victim(u) THEN Succ(counted[u].overwritten) ELSE counted[u].overwritten
        /\ mc_diagnostics'[u].published = counted[u].published
        /\ mc_diagnostics'[u].delivered = counted[u].delivered
        /\ mc_diagnostics'[u].coalesced = counted[u].coalesced
        /\ mc_diagnostics'[u].rejected = counted[u].rejected
    BY <2>2, <2>4 DEF Victim, Diagnostics
  <2>6. QED BY <2>3, <2>5
<1>5. u = t => Succ(mc_diagnostics[u].published) = mc_diagnostics[u].published + 1
               /\ mc_diagnostics[u].published + mc_diagnostics[u].rejected < MaxPublish
  <2> SUFFICES ASSUME u = t
               PROVE  Succ(mc_diagnostics[u].published) = mc_diagnostics[u].published + 1
               /\ mc_diagnostics[u].published + mc_diagnostics[u].rejected < MaxPublish
    OBVIOUS
  <2>1. mc_diagnostics[u].published + mc_diagnostics[u].rejected < MaxPublish
    BY DEF PublishToQueue, CanPublish
  <2>2. mc_diagnostics[u].published < MaxPublish
    BY <1>0, <2>1, SizeAssumption DEF Terms
  <2>3. QED BY <1>0, <2>1, <2>2, SuccExact DEF Terms
<1>6. Victim(u) => Succ(mc_diagnostics[u].overwritten) = mc_diagnostics[u].overwritten + 1
  <2> SUFFICES ASSUME Victim(u)
               PROVE  Succ(mc_diagnostics[u].overwritten) = mc_diagnostics[u].overwritten + 1
    OBVIOUS
  <2>1. Held(u) >= 1
    BY <1>0, <1>2 DEF Terms, Held
  <2>2. mc_diagnostics[u].overwritten < MaxPublish
    BY <1>0, <2>1, SizeAssumption DEF Terms, BalanceOf
  <2>3. QED BY <1>0, <2>2, SuccExact DEF Terms
<1>7. Held(u)' = Held(u) + (IF u = t THEN 1 ELSE 0) - (IF Victim(u) THEN 1 ELSE 0)
  BY <1>0, <1>2, <1>3 DEF Terms, Held
<1>8. Settled(u)' = Settled(u) + (IF Victim(u) THEN 1 ELSE 0)
  BY <1>0, <1>4, <1>6 DEF Terms, Settled
<1>9. QED BY <1>0, <1>4, <1>5, <1>7, <1>8, SizeAssumption DEF Terms, BalanceOf

(* A step that only moves an event from what is held to what is settled,    *)
(* or between the places that hold it, keeps the balance.                   *)
LEMMA MoveBalance ==
    ASSUME CountInv,
           \A u \in Topics :
              /\ mc_diagnostics'[u].published = mc_diagnostics[u].published
              /\ mc_diagnostics'[u].rejected = mc_diagnostics[u].rejected
              /\ Settled(u)' + Held(u)' = Settled(u) + Held(u)
    PROVE  Balance'
BY DEF CountInv, Balance

LEMMA StillBalance ==
    ASSUME CountInv,
           UNCHANGED <<queueVars, mc_latest, mc_latest_topic, mc_diagnostics, hand>>
    PROVE  Balance' /\ TopicSlot'
<1>1. \A u \in Topics : Settled(u)' = Settled(u) /\ Held(u)' = Held(u)
  BY DEF Settled, Held, QueuedOf, Queued, PendingOf, InHand, queueVars
<1>2. Balance'
  BY <1>1 DEF CountInv, Balance
<1>3. TopicSlot'
  BY DEF CountInv, TopicSlot
<1>4. QED BY <1>2, <1>3

LEMMA TakeLatestCount ==
    ASSUME CountInv, NEW phase \in Phase, TakeLatest(phase)
    PROVE  Balance' /\ TopicSlot'
<1> DEFINE i == dispatcher.slot
           ready == i <= Len(mc_latest) /\ mc_latest[i].phase = phase
                       /\ mc_latest[i].pending
<1>1. UNCHANGED <<queueVars, mc_latest_topic, mc_diagnostics>>
  BY DEF TakeLatest
<1>2. CASE ~ready
  <2>1. UNCHANGED <<hand, mc_latest>>
    BY <1>2 DEF TakeLatest
  <2>2. QED BY <1>1, <2>1, StillBalance
<1>3. CASE ready
  <2>1. /\ i \in DOMAIN mc_latest
        /\ mc_latest \in Seq(Slot)
        /\ mc_latest[i] \in Slot
        /\ mc_latest[i].pending
        /\ hand = NoEvent
        /\ hand'.topic = mc_latest[i].topic
        /\ mc_latest' = [mc_latest EXCEPT ![i].pending = FALSE]
    BY <1>3 DEF TakeLatest, CountInv, TypeInv, TypeOK, Dispatcher
  <2>2. /\ DOMAIN mc_latest' = DOMAIN mc_latest
        /\ \A j \in DOMAIN mc_latest : /\ mc_latest'[j].topic = mc_latest[j].topic
                                       /\ j # i => mc_latest'[j] = mc_latest[j]
        /\ ~mc_latest'[i].pending
    BY <2>1 DEF Slot
  <2> HIDE DEF i, ready
  <2>3. TopicSlot'
    BY <1>1, <2>2 DEF CountInv, TypeInv, TypeOK, TopicSlot
  <2>4. ASSUME NEW u \in Topics
        PROVE  Settled(u)' + Held(u)' = Settled(u) + Held(u)
    <3>1. PendingOf(u)' = PendingOf(u) \ {i}
      BY <2>2 DEF PendingOf, PendingIn
    <3>2. i \in PendingOf(u) <=> mc_latest[i].topic = u
      BY <2>1 DEF PendingOf, PendingIn
    <3>3. IsFiniteSet(PendingOf(u))
      BY HeldFinite DEF CountInv, TypeInv
    <3>4. Cardinality(PendingOf(u)') =
            Cardinality(PendingOf(u)) - (IF mc_latest[i].topic = u THEN 1 ELSE 0)
      <4>1. Cardinality(PendingOf(u)) \in Nat
        BY <3>3, FS_CardinalityType
      <4>2. Cardinality(PendingOf(u) \ {i}) =
              IF i \in PendingOf(u) THEN Cardinality(PendingOf(u)) - 1
                                    ELSE Cardinality(PendingOf(u))
        BY <3>3, FS_RemoveElement
      <4>3. QED BY <3>1, <3>2, <4>1, <4>2
    <3>5. InHand(u)' = InHand(u) + (IF mc_latest[i].topic = u THEN 1 ELSE 0)
      BY <2>1, UseAssumption DEF InHand, NoEvent
    <3>6. QueuedOf(u)' = QueuedOf(u) /\ Settled(u)' = Settled(u)
      BY <1>1 DEF QueuedOf, Queued, queueVars, Settled
    <3>7. Terms(u) /\ BalanceOf(u)
      BY BalanceTerms
    <3>8. Held(u)' = Held(u)
      BY <3>4, <3>5, <3>6, <3>7 DEF Terms, Held
    <3>9. QED BY <3>6, <3>8
  <2>5. Balance'
    BY <1>1, <2>4, MoveBalance
  <2>6. QED BY <2>3, <2>5
<1>4. QED BY <1>2, <1>3

LEMMA TakeQueuedCount ==
    ASSUME MaxPublish < CounterModulus, CountInv, TakeQueued
    PROVE  Balance' /\ TopicSlot'
<1> DEFINE ev == mc_queue[mc_tail]
<1>1. /\ mc_tail \in Index /\ mc_head \in Index /\ mc_tail # mc_head
      /\ mc_tail' = After(mc_tail) /\ mc_head' = mc_head /\ mc_queue' = mc_queue
      /\ UNCHANGED latestVars
      /\ hand = NoEvent
      /\ mc_diagnostics \in [Topics -> Diagnostics]
  BY DEF TakeQueued, CountInv, TypeInv, TypeOK, IsEmpty
<1>2. Queued' = Queued \ {mc_tail} /\ mc_tail \in Queued
  BY <1>1, WindowAdvance DEF Queued
<1>3. ev.topic \in Topics
  BY <1>2, PlainAreTopics DEF CountInv, TypeInv, QueueSound
<1>4. /\ mc_diagnostics' = IF Obsolete(ev)
                           THEN [mc_diagnostics EXCEPT ![ev.topic].coalesced = Succ(@)]
                           ELSE mc_diagnostics
      /\ hand' = IF Obsolete(ev) THEN hand ELSE ev
  BY DEF TakeQueued
<1> HIDE DEF ev
<1>5. TopicSlot'
  BY <1>1 DEF latestVars, CountInv, TopicSlot
<1>6. ASSUME NEW u \in Topics
      PROVE  /\ mc_diagnostics'[u].published = mc_diagnostics[u].published
             /\ mc_diagnostics'[u].rejected = mc_diagnostics[u].rejected
             /\ Settled(u)' + Held(u)' = Settled(u) + Held(u)
  <2>0. Terms(u) /\ BalanceOf(u) /\ Settled(u) + Held(u) <= MaxPublish
        /\ mc_diagnostics[u].coalesced <= Settled(u)
    BY BalanceTerms
  <2>1. QueuedOf(u)' = QueuedOf(u) \ {mc_tail}
    BY <1>1, <1>2 DEF QueuedOf
  <2>2. mc_tail \in QueuedOf(u) <=> ev.topic = u
    BY <1>2 DEF QueuedOf, ev
  <2>3. IsFiniteSet(QueuedOf(u))
    BY HeldFinite DEF CountInv, TypeInv
  <2>4. Cardinality(QueuedOf(u) \ {mc_tail}) =
          IF mc_tail \in QueuedOf(u) THEN Cardinality(QueuedOf(u)) - 1
                                     ELSE Cardinality(QueuedOf(u))
    BY <2>3, FS_RemoveElement
  <2>5. Cardinality(QueuedOf(u) \ {mc_tail}) \in Nat
    BY <2>3, FS_RemoveElement, FS_CardinalityType
  <2>6. PendingOf(u)' = PendingOf(u)
    BY <1>1 DEF PendingOf, latestVars
  <2>7. /\ mc_diagnostics'[u].published = mc_diagnostics[u].published
        /\ mc_diagnostics'[u].rejected = mc_diagnostics[u].rejected
        /\ mc_diagnostics'[u].delivered = mc_diagnostics[u].delivered
        /\ mc_diagnostics'[u].overwritten = mc_diagnostics[u].overwritten
        /\ mc_diagnostics'[u].coalesced =
             IF Obsolete(ev) /\ ev.topic = u THEN Succ(mc_diagnostics[u].coalesced)
                                             ELSE mc_diagnostics[u].coalesced
    BY <1>1, <1>3, <1>4 DEF Diagnostics
  <2>8. InHand(u)' = InHand(u) + (IF ~Obsolete(ev) /\ ev.topic = u THEN 1 ELSE 0)
    BY <1>1, <1>4, UseAssumption DEF InHand, NoEvent
  <2>9. CASE ev.topic # u
    <3>1. Settled(u)' = Settled(u)
      BY <2>7, <2>9 DEF Settled
    <3>2. Held(u)' = Held(u)
      BY <2>0, <2>1, <2>2, <2>4, <2>6, <2>8, <2>9 DEF Held, Terms
    <3>3. QED BY <2>7, <3>1, <3>2
  <2>10. CASE ev.topic = u /\ ~Obsolete(ev)
    <3>1. Settled(u)' = Settled(u)
      BY <2>7, <2>10 DEF Settled
    <3>2. Held(u)' = Held(u)
      BY <2>0, <2>1, <2>2, <2>4, <2>6, <2>8, <2>10 DEF Held, Terms
    <3>3. QED BY <2>7, <3>1, <3>2
  <2>11. CASE ev.topic = u /\ Obsolete(ev)
    <3>1. Held(u)' = Held(u) - 1 /\ Held(u) >= 1
      BY <2>0, <2>1, <2>2, <2>4, <2>5, <2>6, <2>8, <2>11 DEF Held, Terms
    <3>2. mc_diagnostics[u].coalesced < MaxPublish
      BY <2>0, <3>1, SizeAssumption DEF Terms, BalanceOf
    <3>3. mc_diagnostics'[u].coalesced = mc_diagnostics[u].coalesced + 1
      BY <2>0, <2>7, <2>11, <3>2, SuccExact DEF Terms
    <3>4. Settled(u)' = Settled(u) + 1
      BY <2>0, <2>7, <3>3 DEF Settled, Terms
    <3>5. QED BY <2>0, <2>7, <3>1, <3>4 DEF BalanceOf
  <2>12. QED BY <2>9, <2>10, <2>11
<1>7. Balance'
  BY <1>6, MoveBalance
<1>8. QED BY <1>5, <1>7

LEMMA DeliverCount ==
    ASSUME MaxPublish < CounterModulus, CountInv, Deliver
    PROVE  Balance' /\ TopicSlot'
<1>1. /\ hand # NoEvent /\ hand.topic \in Topics /\ hand' = NoEvent
      /\ UNCHANGED <<queueVars, latestVars>>
      /\ mc_diagnostics' = [mc_diagnostics EXCEPT ![hand.topic].delivered = Succ(@)]
      /\ mc_diagnostics \in [Topics -> Diagnostics]
  BY DEF Deliver, CountInv, TypeInv, TypeOK, Event
<1>2. TopicSlot'
  BY <1>1 DEF latestVars, CountInv, TopicSlot
<1>3. ASSUME NEW u \in Topics
      PROVE  /\ mc_diagnostics'[u].published = mc_diagnostics[u].published
             /\ mc_diagnostics'[u].rejected = mc_diagnostics[u].rejected
             /\ Settled(u)' + Held(u)' = Settled(u) + Held(u)
  <2>0. Terms(u) /\ BalanceOf(u) /\ Settled(u) + Held(u) <= MaxPublish
        /\ mc_diagnostics[u].delivered <= Settled(u)
    BY BalanceTerms
  <2>1. QueuedOf(u)' = QueuedOf(u) /\ PendingOf(u)' = PendingOf(u)
    BY <1>1 DEF QueuedOf, Queued, PendingOf, queueVars, latestVars
  <2>2. InHand(u)' = 0
    BY <1>1, UseAssumption DEF InHand, NoEvent
  <2>3. /\ mc_diagnostics'[u].published = mc_diagnostics[u].published
        /\ mc_diagnostics'[u].rejected = mc_diagnostics[u].rejected
        /\ mc_diagnostics'[u].overwritten = mc_diagnostics[u].overwritten
        /\ mc_diagnostics'[u].coalesced = mc_diagnostics[u].coalesced
        /\ mc_diagnostics'[u].delivered =
             IF u = hand.topic THEN Succ(mc_diagnostics[u].delivered)
                               ELSE mc_diagnostics[u].delivered
    BY <1>1 DEF Diagnostics
  <2>4. CASE u # hand.topic
    <3>1. Settled(u)' = Settled(u)
      BY <2>3, <2>4 DEF Settled
    <3>2. Held(u)' = Held(u)
      BY <2>0, <2>1, <2>2, <2>4 DEF Held, InHand
    <3>3. QED BY <2>3, <3>1, <3>2
  <2>5. CASE u = hand.topic
    <3>1. Held(u)' = Held(u) - 1 /\ Held(u) >= 1
      BY <2>0, <2>1, <2>2, <2>5 DEF Held, InHand, Terms
    <3>2. mc_diagnostics[u].delivered < MaxPublish
      BY <2>0, <3>1, SizeAssumption DEF Terms, BalanceOf
    <3>3. mc_diagnostics'[u].delivered = mc_diagnostics[u].delivered + 1
      BY <2>0, <2>3, <2>5, <3>2, SuccExact DEF Terms
    <3>4. Settled(u)' = Settled(u) + 1
      BY <2>0, <2>3, <3>3 DEF Settled, Terms
    <3>5. QED BY <2>0, <2>3, <3>1, <3>4 DEF BalanceOf
  <2>6. QED BY <2>4, <2>5
<1>4. Balance'
  BY <1>3, MoveBalance
<1>5. QED BY <1>2, <1>4

LEMMA CountInit ==
    ASSUME Init
    PROVE  CountInv
<1>1. TypeInv
  BY InitType
<1>2. TopicSlot
  BY DEF Init, TopicSlot
<1>3. \A u \in Topics : QueuedOf(u) = {} /\ PendingOf(u) = {} /\ InHand(u) = 0
  BY UseAssumption
     DEF Init, QueuedOf, Queued, Window, PendingOf, PendingIn, InHand, NoEvent
<1>4. \A u \in Topics : Held(u) = 0
  BY <1>3, FS_EmptySet DEF Held
<1>5. Balance
  BY <1>4, SizeAssumption DEF Init, Balance, Settled
<1>6. QED BY <1>1, <1>2, <1>5 DEF CountInv

LEMMA CountStep ==
    ASSUME MaxPublish < CounterModulus, CountInv, [Next]_vars
    PROVE  CountInv'
<1> SUFFICES ASSUME CountInv, [Next]_vars PROVE Balance' /\ TopicSlot'
  BY TypeStep DEF CountInv
<1>1. CASE UNCHANGED vars
  BY <1>1, StillBalance DEF vars, queueVars
<1>2. CASE \E t \in PlainTopics : Publish(t)
  BY <1>2, ToSlotCount, QueueBalance DEF Publish
<1>3. CASE \E u \in KeyedUse : PublishLatest(u.topic, u.key, u.phase)
  BY <1>3, PublishLatestCount, UseAssumption DEF Topics, Keys
<1>4. CASE \E u \in TopicUse : UseLatest(u.topic, u.phase)
  BY <1>4, UseLatestCount, UseAssumption
<1>5. CASE BeginDispatch
  BY <1>5, StillBalance DEF BeginDispatch, queueVars, latestVars
<1>6. CASE \E phase \in Phase : TakeLatest(phase)
  BY <1>6, TakeLatestCount
<1>7. CASE \E phase \in Phase : EndLatest(phase)
  BY <1>7, StillBalance DEF EndLatest, queueVars, latestVars
<1>8. CASE TakeQueued
  BY <1>8, TakeQueuedCount
<1>9. CASE EndQueue
  BY <1>9, StillBalance DEF EndQueue, queueVars, latestVars
<1>10. CASE Deliver
  BY <1>10, DeliverCount
<1>11. CASE RunHooks
  BY <1>11, StillBalance DEF RunHooks, queueVars, latestVars
<1>12. QED
  BY <1>1, <1>2, <1>3, <1>4, <1>5, <1>6, <1>7, <1>8, <1>9, <1>10, <1>11
     DEF Next, Dispatch

(* While no counter of a topic has wrapped, Conservation is exact: every    *)
(* publication MsgCenter accepted was delivered, or is counted as           *)
(* overwritten or coalesced, or still waits, whatever the number of topics, *)
(* slots, ring entries and publications.                                    *)
THEOREM ConservationHolds ==
    ASSUME MaxPublish < CounterModulus
    PROVE  Spec => []Conservation
<1>1. Init => CountInv
  BY CountInit
<1>2. CountInv /\ [Next]_vars => CountInv'
  BY CountStep
<1>3. CountInv => Conservation
  <2> SUFFICES ASSUME CountInv, NEW t \in Topics
               PROVE  (mc_diagnostics[t].published - Settled(t) - Held(t))
                        % CounterModulus = 0
    BY DEF Conservation
  <2>1. BalanceOf(t)
    BY BalanceTerms
  <2>2. mc_diagnostics[t].published - Settled(t) - Held(t) = 0
    BY <2>1 DEF BalanceOf
  <2>3. QED BY <2>2, SizeAssumption
<1>4. QED BY <1>1, <1>2, <1>3, PTL DEF Spec

----------------------------------------------------------------------------
(* The slots, for every width of the counters: whose they are, and where   *)
(* the newest value of each is.                                            *)

ChanOf(i) == ChannelOf(mc_latest[i])

(* The newest event of a channel that can no longer be prevented. *)
Rcv(c) == IF ChannelOf(hand) = c THEN hand.data ELSE received[c]

OneSlotEach ==
    \A i \in DOMAIN mc_latest, j \in DOMAIN mc_latest : ChanOf(i) = ChanOf(j) => i = j

(* A slot of a ring topic is the one that the topic was switched to. *)
SwitchedSlots ==
    /\ \A i \in DOMAIN mc_latest : mc_latest[i].topic \in PlainTopics =>
          mc_latest[i].key = Key0 /\ mc_latest_topic[mc_latest[i].topic] = i
    /\ \A t \in Topics : mc_latest_topic[t] # 0 =>
          t \in PlainTopics /\ ChanOf(mc_latest_topic[t]) = <<t, Key0>>

(* Between two dispatches nothing is in hand, and what is delivered after  *)
(* the ring is a command.                                                  *)
HandSound ==
    /\ dispatcher.step \in {"idle", "hooks"} => hand = NoEvent
    /\ dispatcher.step = "control" /\ hand # NoEvent =>
          \E i \in DOMAIN mc_latest :
              mc_latest[i].phase = "CONTROL" /\ ChanOf(i) = ChannelOf(hand)

NewestHeld ==
    \A i \in DOMAIN mc_latest :
        \/ mc_latest[i].data = 0
        \/ mc_latest[i].pending
        \/ Rcv(ChanOf(i)) = mc_latest[i].data

SlotsFine == OneSlotEach /\ SwitchedSlots /\ HandSound /\ NewestHeld

SlotInv == TypeInv /\ SlotsFine

LEMMA SlotTypes ==
    ASSUME TypeInv
    PROVE  /\ DOMAIN mc_latest = 1 .. Len(mc_latest) /\ Len(mc_latest) \in Nat
           /\ \A i \in DOMAIN mc_latest :
                /\ mc_latest[i] \in Slot /\ ChanOf(i) \in Channels
                /\ i \in Nat \ {0} /\ i <= LatestCapacity
<1>1. mc_latest \in Seq(Slot) /\ Len(mc_latest) <= LatestCapacity
  BY DEF TypeInv, TypeOK
<1>2. DOMAIN mc_latest = 1 .. Len(mc_latest) /\ Len(mc_latest) \in Nat
  BY <1>1
<1>3. ASSUME NEW i \in DOMAIN mc_latest
      PROVE  /\ mc_latest[i] \in Slot /\ i \in Nat \ {0} /\ i <= LatestCapacity
  BY <1>1, <1>2, SizeAssumption
<1>4. ASSUME NEW i \in DOMAIN mc_latest
      PROVE  ChanOf(i) \in Channels
  BY <1>3 DEF Slot, ChanOf, ChannelOf, Channels
<1>5. QED BY <1>2, <1>3, <1>4

LEMMA NoneIsNoChannel == ChannelOf(NoEvent) \notin Channels
BY UseAssumption DEF ChannelOf, NoEvent, Channels

LEMMA HandType ==
    ASSUME TypeInv, hand # NoEvent
    PROVE  hand \in Event /\ ChannelOf(hand) \in Channels
BY ChannelType DEF TypeInv, TypeOK

(* Slots keep their channel and phase. *)
SlotsKept ==
    /\ DOMAIN mc_latest \subseteq DOMAIN mc_latest'
    /\ \A j \in DOMAIN mc_latest : /\ ChannelOf(mc_latest'[j]) = ChanOf(j)
                                   /\ mc_latest'[j].phase = mc_latest[j].phase

(* The slot i of <<t, k>>, new or not, gets a value that must be delivered. *)
StoredAt(i, t, k) ==
    /\ DOMAIN mc_latest' = DOMAIN mc_latest \cup {i}
    /\ \A j \in DOMAIN mc_latest : j # i => mc_latest'[j] = mc_latest[j]
    /\ mc_latest'[i].topic = t /\ mc_latest'[i].key = k
    /\ mc_latest'[i].data = Stamp(t) /\ mc_latest'[i].pending
    /\ i \in DOMAIN mc_latest =>
         ChanOf(i) = <<t, k>> /\ mc_latest[i].phase = mc_latest'[i].phase
    /\ i \notin DOMAIN mc_latest => \A j \in DOMAIN mc_latest : ChanOf(j) # <<t, k>>
    /\ t \in PlainTopics => k = Key0 /\ mc_latest_topic[t] = i /\ i # 0
    /\ mc_diagnostics'[t].published = Stamp(t)
    /\ \A u \in Topics : u # t =>
          mc_diagnostics'[u].published = mc_diagnostics[u].published
    /\ CanPublish(t) /\ t \in Topics /\ k \in Keys
    /\ UNCHANGED <<queueVars, mc_latest_topic, dispatchVars>>

(* What a lookup of <<t, k>> returns: the table with the slot i of it. *)
Looked(slots, i, t, k, phase) ==
    /\ DOMAIN slots = DOMAIN mc_latest \cup {i}
    /\ \A j \in DOMAIN mc_latest : slots[j] = mc_latest[j]
    /\ slots[i].topic = t /\ slots[i].key = k /\ slots[i].phase = phase
    /\ i \notin DOMAIN mc_latest =>
         /\ slots[i].data = 0 /\ ~slots[i].pending
         /\ \A j \in DOMAIN mc_latest : ChanOf(j) # <<t, k>>

LEMMA FreshType ==
    ASSUME NEW t \in Topics, NEW k \in Keys, NEW phase \in Phase
    PROVE  FreshSlot(t, k, phase) \in Slot
<1>1. 0 \in 0 .. CounterModulus - 1
  BY SizeAssumption
<1>2. QED BY <1>1 DEF FreshSlot, Slot

LEMMA LookupSlots ==
    ASSUME NEW t \in Topics, NEW k \in Keys, NEW phase \in Phase,
           mc_latest \in Seq(Slot), ~SlotRefused(t, k, phase)
    PROVE  \E slots \in Seq(Slot) : \E i \in DOMAIN slots :
              /\ slots = LatestSlots(t, k, phase) /\ i = LatestSlot(t, k)
              /\ Looked(slots, i, t, k, phase)
<1> DEFINE slots == LatestSlots(t, k, phase)
           i == LatestSlot(t, k)
<1> SUFFICES slots \in Seq(Slot) /\ i \in DOMAIN slots /\ Looked(slots, i, t, k, phase)
  OBVIOUS
<1>1. FreshSlot(t, k, phase) \in Slot
  BY FreshType
<1>0. /\ ~FreshSlot(t, k, phase).pending
      /\ FreshSlot(t, k, phase).topic = t /\ FreshSlot(t, k, phase).key = k
      /\ FreshSlot(t, k, phase).phase = phase /\ FreshSlot(t, k, phase).data = 0
  BY DEF FreshSlot
<1>2. CASE SlotsOf(t, k) = {}
  <2>1. slots = Append(mc_latest, FreshSlot(t, k, phase)) /\ i = Len(mc_latest) + 1
    BY <1>2 DEF LatestSlots, LatestSlot
  <2>2. \A j \in DOMAIN mc_latest : ChanOf(j) # <<t, k>>
    BY <1>2 DEF SlotsOf, ChanOf, ChannelOf
  <2>3. /\ slots \in Seq(Slot) /\ DOMAIN slots = DOMAIN mc_latest \cup {i}
        /\ slots[i] = FreshSlot(t, k, phase)
        /\ \A j \in DOMAIN mc_latest : slots[j] = mc_latest[j]
    BY <1>1, <2>1
  <2> HIDE DEF slots, i
  <2>4. QED BY <1>0, <2>2, <2>3 DEF Looked
<1>3. CASE SlotsOf(t, k) # {}
  <2>1. i \in SlotsOf(t, k) /\ slots = mc_latest
    BY <1>3 DEF LatestSlot, LatestSlots
  <2>2. i \in DOMAIN mc_latest /\ mc_latest[i].topic = t /\ mc_latest[i].key = k
        /\ mc_latest[i].phase = phase
    BY <2>1 DEF SlotsOf, SlotRefused
  <2> HIDE DEF slots, i
  <2>3. QED BY <2>1, <2>2 DEF Looked
<1>4. QED BY <1>2, <1>3

LEMMA StoreSlots ==
    ASSUME NEW slots \in Seq(Slot), NEW i \in DOMAIN slots, NEW t \in Topics,
           mc_diagnostics \in [Topics -> Diagnostics], StoreLatest(slots, i, t)
    PROVE  /\ DOMAIN mc_latest' = DOMAIN slots
           /\ \A j \in DOMAIN slots : j # i => mc_latest'[j] = slots[j]
           /\ mc_latest'[i].topic = slots[i].topic /\ mc_latest'[i].key = slots[i].key
           /\ mc_latest'[i].phase = slots[i].phase
           /\ mc_latest'[i].data = Stamp(t) /\ mc_latest'[i].pending
           /\ mc_diagnostics'[t].published = Stamp(t)
           /\ \A u \in Topics : u # t =>
                mc_diagnostics'[u].published = mc_diagnostics[u].published
<1>1. slots[i] \in Slot
  OBVIOUS
<1>2. mc_latest' = [slots EXCEPT ![i] = [slots[i] EXCEPT !.data = Stamp(t), !.pending = TRUE]]
  BY DEF StoreLatest
<1>3. [slots[i] EXCEPT !.data = Stamp(t), !.pending = TRUE].pending
      /\ [slots[i] EXCEPT !.data = Stamp(t), !.pending = TRUE].data = Stamp(t)
  BY <1>1 DEF Slot
<1>4. /\ mc_diagnostics'[t].published = Stamp(t)
      /\ \A u \in Topics : u # t =>
           mc_diagnostics'[u].published = mc_diagnostics[u].published
  BY DEF StoreLatest, Stamp, Diagnostics
<1>5. QED BY <1>1, <1>2, <1>3, <1>4 DEF Slot

LEMMA PublishLatestStores ==
    ASSUME TypeInv, NEW u \in KeyedUse, PublishLatest(u.topic, u.key, u.phase),
           ~SlotRefused(u.topic, u.key, u.phase)
    PROVE  \E i : StoredAt(i, u.topic, u.key)
<1>1. u.topic \in Topics /\ u.key \in Keys /\ u.phase \in Phase
      /\ u.topic \notin PlainTopics
  BY UseAssumption DEF Topics, Keys
<1>2. mc_latest \in Seq(Slot) /\ mc_diagnostics \in [Topics -> Diagnostics]
  BY DEF TypeInv, TypeOK
<1>3. PICK slots \in Seq(Slot) : \E i \in DOMAIN slots :
         /\ slots = LatestSlots(u.topic, u.key, u.phase) /\ i = LatestSlot(u.topic, u.key)
         /\ Looked(slots, i, u.topic, u.key, u.phase)
  BY <1>1, <1>2, LookupSlots
<1>4. PICK i \in DOMAIN slots :
         /\ slots = LatestSlots(u.topic, u.key, u.phase) /\ i = LatestSlot(u.topic, u.key)
         /\ Looked(slots, i, u.topic, u.key, u.phase)
  BY <1>3
<1>5. StoreLatest(slots, i, u.topic) /\ CanPublish(u.topic)
      /\ UNCHANGED <<queueVars, mc_latest_topic, dispatchVars>>
  BY <1>4 DEF PublishLatest
<1>6. i \in DOMAIN mc_latest =>
         ChanOf(i) = <<u.topic, u.key>> /\ mc_latest[i].phase = u.phase
  BY <1>4 DEF Looked, ChanOf, ChannelOf
<1>7. StoredAt(i, u.topic, u.key)
  BY <1>1, <1>2, <1>4, <1>5, <1>6, StoreSlots DEF StoredAt, Looked
<1>8. QED BY <1>7

LEMMA ToSlotStores ==
    ASSUME TypeInv, SwitchedSlots, NEW t \in PlainTopics, PublishToSlot(t)
    PROVE  StoredAt(mc_latest_topic[t], t, Key0)
<1> DEFINE i == mc_latest_topic[t]
<1>1. /\ t \in Topics /\ Key0 \in Keys /\ i \in DOMAIN mc_latest
      /\ mc_latest \in Seq(Slot) /\ mc_diagnostics \in [Topics -> Diagnostics]
  BY PlainAreTopics, KeysNat DEF TypeInv, TypeOK, PublishToSlot
<1>2. StoreLatest(mc_latest, i, t) /\ CanPublish(t)
      /\ UNCHANGED <<queueVars, mc_latest_topic, dispatchVars>>
  BY DEF PublishToSlot
<1>3. ChanOf(i) = <<t, Key0>>
  BY <1>1 DEF SwitchedSlots, PublishToSlot
<1>4. mc_latest[i].topic = t /\ mc_latest[i].key = Key0
  BY <1>3 DEF ChanOf, ChannelOf
<1>5. mc_latest_topic[t] = i /\ i # 0
  BY DEF PublishToSlot
<1> HIDE DEF i
<1>6. /\ DOMAIN mc_latest' = DOMAIN mc_latest
      /\ \A j \in DOMAIN mc_latest : j # i => mc_latest'[j] = mc_latest[j]
      /\ mc_latest'[i].topic = t /\ mc_latest'[i].key = Key0
      /\ mc_latest'[i].phase = mc_latest[i].phase
      /\ mc_latest'[i].data = Stamp(t) /\ mc_latest'[i].pending
      /\ mc_diagnostics'[t].published = Stamp(t)
      /\ \A u \in Topics : u # t =>
           mc_diagnostics'[u].published = mc_diagnostics[u].published
  BY <1>1, <1>2, <1>4, StoreSlots
<1>7. DOMAIN mc_latest = DOMAIN mc_latest \cup {i}
  BY <1>1
<1>8. StoredAt(i, t, Key0)
  BY <1>1, <1>2, <1>3, <1>5, <1>6, <1>7 DEF StoredAt
<1>9. QED BY <1>8 DEF i

LEMMA StoredKeeps ==
    ASSUME SlotInv, NEW i, NEW t, NEW k, StoredAt(i, t, k)
    PROVE  SlotsKept /\ SlotsFine'
<1>1. ChannelOf(mc_latest'[i]) = <<t, k>>
  BY DEF StoredAt, ChannelOf
<1>2. SlotsKept
  BY <1>1 DEF StoredAt, SlotsKept, ChanOf
<1>3. OneSlotEach'
  <2>1. ASSUME NEW j \in DOMAIN mc_latest, j # i
        PROVE  ChannelOf(mc_latest'[j]) # <<t, k>>
    BY <2>1 DEF StoredAt, SlotInv, SlotsFine, OneSlotEach, ChanOf
  <2>2. QED BY <1>1, <2>1 DEF StoredAt, SlotInv, SlotsFine, OneSlotEach, ChanOf
<1>4. mc_latest_topic' = mc_latest_topic /\ hand' = hand /\ received' = received
      /\ dispatcher' = dispatcher
  BY DEF StoredAt, dispatchVars
<1>5. SwitchedSlots'
  <2>1. ASSUME NEW j \in DOMAIN mc_latest', mc_latest'[j].topic \in PlainTopics
        PROVE  mc_latest'[j].key = Key0 /\ mc_latest_topic[mc_latest'[j].topic] = j
    BY <2>1 DEF StoredAt, SlotInv, SlotsFine, SwitchedSlots
  <2>2. ASSUME NEW u \in Topics, mc_latest_topic[u] # 0
        PROVE  u \in PlainTopics /\ ChannelOf(mc_latest'[mc_latest_topic[u]]) = <<u, Key0>>
    <3>1. mc_latest_topic[u] \in DOMAIN mc_latest
      BY <2>2 DEF SlotInv, TypeInv, TypeOK
    <3>2. QED BY <1>2, <2>2, <3>1 DEF SlotsKept, SlotInv, SlotsFine, SwitchedSlots
  <2>3. QED BY <1>4, <2>1, <2>2 DEF SwitchedSlots, ChanOf
<1>6. HandSound'
  BY <1>2, <1>4 DEF SlotInv, SlotsFine, HandSound, SlotsKept, ChanOf
<1>7. NewestHeld'
  BY <1>4 DEF StoredAt, SlotInv, SlotsFine, NewestHeld, Rcv, ChanOf
<1>8. QED BY <1>2, <1>3, <1>5, <1>6, <1>7 DEF SlotsFine

(* What the subscribers will have seen changes only when a value is taken. *)
LEMMA RcvFree ==
    ASSUME hand = NoEvent, NEW c \in Channels
    PROVE  Rcv(c) = received[c]
BY NoneIsNoChannel DEF Rcv

LEMMA TakenRcv ==
    ASSUME hand = NoEvent, UNCHANGED received, NEW c \in Channels
    PROVE  Rcv(c)' = IF ChannelOf(hand') = c THEN hand'.data ELSE Rcv(c)
BY RcvFree DEF Rcv, ChannelOf

LEMMA DeliverRcv ==
    ASSUME TypeInv, Deliver, NEW c \in Channels
    PROVE  Rcv(c)' = Rcv(c)
<1>1. ChannelOf(hand) \in Channels /\ received \in [Channels -> Counter]
  BY HandType DEF Deliver, TypeInv, TypeOK
<1>2. hand' = NoEvent /\ received' = [received EXCEPT ![ChannelOf(hand)] = hand.data]
  BY DEF Deliver
<1>3. Rcv(c)' = received'[c]
  BY <1>2, NoneIsNoChannel DEF Rcv
<1>4. QED BY <1>1, <1>2, <1>3 DEF Rcv

(* Steps that leave the slots, and what their channels will have seen. *)
LEMMA SameSlots ==
    ASSUME SlotInv, UNCHANGED latestVars,
           \A i \in DOMAIN mc_latest : Rcv(ChanOf(i))' = Rcv(ChanOf(i)), HandSound'
    PROVE  SlotsKept /\ SlotsFine'
<1>1. SlotsKept
  BY DEF SlotsKept, latestVars, ChanOf
<1>2. OneSlotEach' /\ SwitchedSlots'
  BY DEF SlotInv, SlotsFine, OneSlotEach, SwitchedSlots, latestVars, ChanOf
<1>3. NewestHeld'
  BY DEF SlotInv, SlotsFine, NewestHeld, latestVars, ChanOf
<1>4. QED BY <1>1, <1>2, <1>3 DEF SlotsFine

LEMMA UseLatestSlots ==
    ASSUME SlotInv, NEW u \in TopicUse, UseLatest(u.topic, u.phase)
    PROVE  SlotsKept /\ SlotsFine'
<1> DEFINE t == u.topic
<1>1. /\ t \in Topics /\ t \in PlainTopics /\ u.phase \in Phase /\ Key0 \in Keys
      /\ hand = NoEvent /\ UNCHANGED <<hand, received, dispatcher>>
      /\ dispatcher.step = "idle"
  BY UseAssumption, PlainAreTopics, KeysNat
     DEF UseLatest, SlotInv, SlotsFine, HandSound, dispatchVars
<1>2. HandSound'
  BY <1>1 DEF HandSound
<1>3. CASE SlotRefused(t, Key0, u.phase)
  <2>1. UNCHANGED latestVars
    BY <1>3 DEF UseLatest
  <2>2. QED BY <1>1, <1>2, <2>1, SameSlots DEF Rcv, ChanOf, latestVars
<1>4. CASE ~SlotRefused(t, Key0, u.phase)
  <2>1. mc_latest \in Seq(Slot) /\ mc_latest_topic \in [Topics -> Nat]
    BY DEF SlotInv, TypeInv, TypeOK
  <2>2. PICK slots \in Seq(Slot) : \E i \in DOMAIN slots :
           /\ slots = LatestSlots(t, Key0, u.phase) /\ i = LatestSlot(t, Key0)
           /\ Looked(slots, i, t, Key0, u.phase)
    BY <1>1, <1>4, <2>1, LookupSlots
  <2>3. PICK i \in DOMAIN slots :
           /\ slots = LatestSlots(t, Key0, u.phase) /\ i = LatestSlot(t, Key0)
           /\ Looked(slots, i, t, Key0, u.phase)
    BY <2>2
  <2>4. mc_latest' = slots /\ mc_latest_topic' = [mc_latest_topic EXCEPT ![t] = i]
    BY <1>4, <2>3 DEF UseLatest
  <2>5. ChannelOf(slots[i]) = <<t, Key0>>
    BY <2>3 DEF Looked, ChannelOf
  <2>6. ASSUME NEW j \in DOMAIN slots, j # i
        PROVE  j \in DOMAIN mc_latest /\ slots[j] = mc_latest[j] /\ ChanOf(j) # <<t, Key0>>
    <3>1. j \in DOMAIN mc_latest /\ slots[j] = mc_latest[j]
      BY <2>3, <2>6 DEF Looked
    <3>2. i \in DOMAIN mc_latest => ChanOf(i) = <<t, Key0>>
      BY <2>3, <2>5 DEF Looked, ChanOf
    <3>3. ChanOf(j) # <<t, Key0>>
      BY <2>3, <2>6, <3>1, <3>2 DEF Looked, SlotInv, SlotsFine, OneSlotEach
    <3>4. QED BY <3>1, <3>3
  <2>7. i \in DOMAIN mc_latest => slots[i] = mc_latest[i]
    BY <2>3 DEF Looked
  <2>8. SlotsKept
    BY <2>3, <2>4 DEF SlotsKept, Looked, ChanOf
  <2>9. OneSlotEach'
    BY <2>4, <2>5, <2>6 DEF SlotInv, SlotsFine, OneSlotEach, ChanOf
  <2>10. SwitchedSlots'
    <3>1. ASSUME NEW j \in DOMAIN slots, slots[j].topic \in PlainTopics
          PROVE  slots[j].key = Key0 /\ mc_latest_topic'[slots[j].topic] = j
      <4>1. CASE j = i
        BY <1>1, <2>1, <2>3, <2>4, <4>1 DEF Looked
      <4>2. CASE j # i
        <5>1. slots[j].key = Key0 /\ mc_latest_topic[slots[j].topic] = j
          BY <2>6, <3>1, <4>2 DEF SlotInv, SlotsFine, SwitchedSlots
        <5>2. slots[j].topic # t
          BY <2>6, <4>2, <5>1 DEF ChanOf, ChannelOf
        <5>3. QED BY <2>1, <2>4, <5>1, <5>2
      <4>3. QED BY <4>1, <4>2
    <3>2. ASSUME NEW v \in Topics, mc_latest_topic'[v] # 0
          PROVE  v \in PlainTopics /\ ChannelOf(slots[mc_latest_topic'[v]]) = <<v, Key0>>
      <4>1. CASE v = t
        BY <1>1, <2>1, <2>4, <2>5, <4>1
      <4>2. CASE v # t
        <5>1. mc_latest_topic'[v] = mc_latest_topic[v]
          BY <2>1, <2>4, <4>2
        <5>2. mc_latest_topic[v] \in DOMAIN mc_latest
          BY <3>2, <5>1 DEF SlotInv, TypeInv, TypeOK
        <5>3. v \in PlainTopics /\ ChanOf(mc_latest_topic[v]) = <<v, Key0>>
          BY <3>2, <5>1 DEF SlotInv, SlotsFine, SwitchedSlots
        <5>4. slots[mc_latest_topic[v]] = mc_latest[mc_latest_topic[v]]
          BY <2>3, <5>2 DEF Looked
        <5>5. QED BY <5>1, <5>3, <5>4 DEF ChanOf
      <4>3. QED BY <4>1, <4>2
    <3>3. QED BY <2>4, <3>1, <3>2 DEF SwitchedSlots, ChanOf
  <2>11. NewestHeld'
    <3>1. ASSUME NEW j \in DOMAIN slots
          PROVE  \/ slots[j].data = 0 \/ slots[j].pending
                 \/ Rcv(ChannelOf(slots[j])) = slots[j].data
      <4>1. CASE j \in DOMAIN mc_latest
        BY <2>6, <2>7, <4>1 DEF SlotInv, SlotsFine, NewestHeld, ChanOf
      <4>2. CASE j \notin DOMAIN mc_latest
        BY <2>3, <4>2 DEF Looked
      <4>3. QED BY <4>1, <4>2
    <3>2. QED BY <1>1, <2>4, <3>1 DEF NewestHeld, Rcv, ChanOf
  <2>12. QED BY <1>2, <2>8, <2>9, <2>10, <2>11 DEF SlotsFine
<1>5. QED BY <1>3, <1>4

(* The slot i gives its value to the dispatcher. *)
TookSlot(i) ==
    /\ i \in DOMAIN mc_latest /\ mc_latest[i].pending
    /\ DOMAIN mc_latest' = DOMAIN mc_latest
    /\ \A j \in DOMAIN mc_latest :
         /\ mc_latest'[j].topic = mc_latest[j].topic
         /\ mc_latest'[j].key = mc_latest[j].key
         /\ mc_latest'[j].phase = mc_latest[j].phase
         /\ mc_latest'[j].data = mc_latest[j].data
         /\ j # i => mc_latest'[j] = mc_latest[j]
    /\ ~mc_latest'[i].pending
    /\ hand = NoEvent /\ ChannelOf(hand') = ChanOf(i) /\ hand'.data = mc_latest[i].data

LEMMA TakeLatestTakes ==
    ASSUME TypeInv, NEW phase \in Phase, TakeLatest(phase)
    PROVE  \/ TookSlot(dispatcher.slot) /\ mc_latest[dispatcher.slot].phase = phase
           \/ /\ UNCHANGED <<hand, mc_latest>>
              /\ dispatcher.slot \in DOMAIN mc_latest =>
                   mc_latest[dispatcher.slot].phase # phase
                     \/ ~mc_latest[dispatcher.slot].pending
<1> DEFINE i == dispatcher.slot
<1>1. CASE i <= Len(mc_latest) /\ mc_latest[i].phase = phase /\ mc_latest[i].pending
  <2>1. i \in DOMAIN mc_latest /\ mc_latest[i] \in Slot
    BY <1>1, SlotTypes, SizeAssumption DEF TypeInv, TypeOK, Dispatcher
  <2>2. /\ hand' = [topic |-> mc_latest[i].topic, key |-> mc_latest[i].key,
                    data |-> mc_latest[i].data]
        /\ mc_latest' = [mc_latest EXCEPT ![i] = [mc_latest[i] EXCEPT !.pending = FALSE]]
        /\ hand = NoEvent
    BY <1>1 DEF TakeLatest
  <2>3. /\ DOMAIN mc_latest' = DOMAIN mc_latest
        /\ \A j \in DOMAIN mc_latest :
             /\ mc_latest'[j].topic = mc_latest[j].topic
             /\ mc_latest'[j].key = mc_latest[j].key
             /\ mc_latest'[j].phase = mc_latest[j].phase
             /\ mc_latest'[j].data = mc_latest[j].data
             /\ j # i => mc_latest'[j] = mc_latest[j]
        /\ ~mc_latest'[i].pending
    BY <2>1, <2>2 DEF Slot
  <2>4. ChannelOf(hand') = ChanOf(i) /\ hand'.data = mc_latest[i].data
    BY <2>2 DEF ChannelOf, ChanOf
  <2> HIDE DEF i
  <2>5. TookSlot(i)
    BY <1>1, <2>1, <2>2, <2>3, <2>4 DEF TookSlot
  <2>6. QED BY <1>1, <2>5 DEF i
<1>2. CASE ~(i <= Len(mc_latest) /\ mc_latest[i].phase = phase /\ mc_latest[i].pending)
  BY <1>2, SlotTypes DEF TakeLatest
<1>3. QED BY <1>1, <1>2

LEMMA TakeLatestSlots ==
    ASSUME SlotInv, NEW phase \in Phase, TakeLatest(phase)
    PROVE  SlotsKept /\ SlotsFine'
<1>1. /\ hand = NoEvent /\ UNCHANGED received
      /\ dispatcher'.step = SlotStep(phase) /\ dispatcher.step = SlotStep(phase)
      /\ mc_latest_topic' = mc_latest_topic
  BY DEF TakeLatest, SlotInv, TypeInv, TypeOK, Dispatcher
<1>2. SlotStep(phase) \notin {"idle", "hooks"}
      /\ (SlotStep(phase) = "control" => phase = "CONTROL")
  BY DEF SlotStep, Phase
<1>3. ASSUME NEW i, TookSlot(i), mc_latest[i].phase = phase
      PROVE  SlotsKept /\ SlotsFine'
  <2>1. /\ i \in DOMAIN mc_latest /\ DOMAIN mc_latest' = DOMAIN mc_latest
        /\ ChannelOf(hand') = ChanOf(i) /\ hand'.data = mc_latest[i].data
    BY <1>3 DEF TookSlot
  <2>2. \A j \in DOMAIN mc_latest :
             /\ mc_latest'[j].topic = mc_latest[j].topic
             /\ mc_latest'[j].key = mc_latest[j].key
             /\ mc_latest'[j].phase = mc_latest[j].phase
             /\ mc_latest'[j].data = mc_latest[j].data
             /\ j # i => mc_latest'[j] = mc_latest[j]
    BY <1>3 DEF TookSlot
  <2>5. \A j \in DOMAIN mc_latest : ChannelOf(mc_latest'[j]) = ChanOf(j)
    BY <2>1, <2>2 DEF ChanOf, ChannelOf
  <2>6. SlotsKept
    BY <2>1, <2>2, <2>5 DEF SlotsKept
  <2>7. OneSlotEach'
    BY <2>1, <2>2, <2>5 DEF SlotInv, SlotsFine, OneSlotEach, ChanOf
  <2>8. SwitchedSlots'
    <3>1. \A v \in Topics : mc_latest_topic[v] # 0 => mc_latest_topic[v] \in DOMAIN mc_latest
      BY DEF SlotInv, TypeInv, TypeOK
    <3>2. QED BY <1>1, <2>1, <2>2, <2>5, <3>1 DEF SlotInv, SlotsFine, SwitchedSlots, ChanOf
  <2>9. HandSound'
    BY <1>1, <1>2, <1>3, <2>1, <2>2, <2>5 DEF HandSound, ChanOf
  <2>10. ASSUME NEW j \in DOMAIN mc_latest
         PROVE  \/ mc_latest'[j].data = 0 \/ mc_latest'[j].pending
                \/ Rcv(ChanOf(j))' = mc_latest'[j].data
    <3>1. ChanOf(j) \in Channels
      BY SlotTypes DEF SlotInv
    <3>2. ASSUME NEW c \in Channels, c = ChanOf(j)
          PROVE  \/ mc_latest'[j].data = 0 \/ mc_latest'[j].pending
                 \/ Rcv(c)' = mc_latest'[j].data
      <4>1. CASE j = i
        BY <2>1, <2>2, <3>2, <4>1 DEF Rcv
      <4>2. CASE j # i
        <5>1. ChanOf(i) # ChanOf(j)
          BY <2>1, <4>2 DEF SlotInv, SlotsFine, OneSlotEach
        <5>2. Rcv(c)' = Rcv(c)
          BY <1>1, <2>1, <3>2, <5>1, TakenRcv
        <5>3. QED BY <2>1, <2>2, <3>2, <4>2, <5>2 DEF SlotInv, SlotsFine, NewestHeld
      <4>3. QED BY <4>1, <4>2
    <3>3. \E c \in Channels : c = ChanOf(j)
      BY <3>1
    <3>4. ChanOf(j)' = ChanOf(j)
      BY <2>5 DEF ChanOf
    <3>5. QED BY <3>2, <3>3, <3>4
  <2>11. NewestHeld'
    BY <2>1, <2>2, <2>10 DEF NewestHeld
  <2>12. QED BY <2>6, <2>7, <2>8, <2>9, <2>11 DEF SlotsFine
<1>4. CASE UNCHANGED <<hand, mc_latest>>
  <2>1. UNCHANGED <<hand, received>> /\ UNCHANGED latestVars
    BY <1>1, <1>4 DEF latestVars
  <2>2. HandSound'
    BY <1>1, <1>2, <2>1 DEF HandSound
  <2>3. QED BY <2>1, <2>2, SameSlots DEF Rcv, ChanOf, latestVars
<1>5. QED BY <1>3, <1>4, TakeLatestTakes DEF SlotInv

(* A ring event that is delivered is of a topic without a slot. *)
LEMMA TakeQueuedSlots ==
    ASSUME SlotInv, TakeQueued
    PROVE  SlotsKept /\ SlotsFine'
<1> DEFINE ev == mc_queue[mc_tail]
<1>1. /\ hand = NoEvent /\ UNCHANGED received /\ UNCHANGED latestVars
      /\ dispatcher'.step = "queue"
  BY DEF TakeQueued, CountProcessed, SlotInv, TypeInv, TypeOK, Dispatcher
<1>2. ev \in Event /\ ev.topic \in PlainTopics /\ ev.key = Key0 /\ ev.topic \in Topics
  <2>1. mc_tail \in Queued
    BY WindowAdvance DEF SlotInv, TypeInv, TypeOK, TakeQueued, IsEmpty, Queued
  <2>2. QED BY <2>1, PlainAreTopics DEF SlotInv, TypeInv, QueueSound
<1>3. HandSound'
  BY <1>1 DEF HandSound
<1>4. ASSUME NEW i \in DOMAIN mc_latest, NEW c \in Channels, c = ChanOf(i)
      PROVE  Rcv(c)' = Rcv(c)
  <2>1. CASE Obsolete(ev)
    BY <1>1, <2>1 DEF TakeQueued, Rcv
  <2>2. CASE ~Obsolete(ev)
    <3>1. hand' = ev
      BY <2>2 DEF TakeQueued
    <3>2. ChannelOf(ev) # c
      <4>1. SUFFICES ASSUME ChannelOf(ev) = c PROVE FALSE
        OBVIOUS
      <4>2. mc_latest[i].topic = ev.topic
        BY <1>4, <4>1 DEF ChannelOf, ChanOf
      <4>3. mc_latest_topic[ev.topic] = i
        BY <1>2, <4>2 DEF SlotInv, SlotsFine, SwitchedSlots
      <4>4. i # 0
        BY SlotTypes DEF SlotInv
      <4>5. QED BY <2>2, <4>3, <4>4 DEF Obsolete
    <3>3. QED BY <1>1, <3>1, <3>2, TakenRcv
  <2>3. QED BY <2>1, <2>2
<1>5. \A i \in DOMAIN mc_latest : ChanOf(i) \in Channels /\ ChanOf(i)' = ChanOf(i)
  BY <1>1, SlotTypes DEF SlotInv, latestVars, ChanOf
<1>6. ASSUME NEW i \in DOMAIN mc_latest
      PROVE  Rcv(ChanOf(i))' = Rcv(ChanOf(i))
  <2>1. PICK c \in Channels : c = ChanOf(i)
    BY <1>5
  <2>2. QED BY <1>4, <1>5, <2>1
<1>7. QED BY <1>1, <1>3, <1>6, SameSlots

LEMMA DeliverSlots ==
    ASSUME SlotInv, Deliver
    PROVE  SlotsKept /\ SlotsFine'
<1>1. UNCHANGED latestVars /\ hand' = NoEvent
  BY DEF Deliver
<1>2. \A i \in DOMAIN mc_latest : ChanOf(i) \in Channels /\ ChanOf(i)' = ChanOf(i)
  BY <1>1, SlotTypes DEF SlotInv, latestVars, ChanOf
<1>3. ASSUME NEW i \in DOMAIN mc_latest
      PROVE  Rcv(ChanOf(i))' = Rcv(ChanOf(i))
  <2>1. PICK c \in Channels : c = ChanOf(i)
    BY <1>2
  <2>2. Rcv(c)' = Rcv(c)
    BY DeliverRcv DEF SlotInv
  <2>3. QED BY <1>2, <2>1, <2>2
<1>4. QED BY <1>1, <1>3, SameSlots DEF HandSound

(* Steps that neither store nor take nor deliver. *)
LEMMA QuietSlots ==
    ASSUME SlotInv, UNCHANGED <<latestVars, hand, received>>,
           \/ dispatcher' = dispatcher
           \/ dispatcher'.step # "control" /\ hand = NoEvent
           \/ hand = NoEvent
    PROVE  SlotsKept /\ SlotsFine'
<1>1. HandSound'
  BY DEF SlotInv, SlotsFine, HandSound, ChanOf, latestVars
<1>2. \A i \in DOMAIN mc_latest : Rcv(ChanOf(i))' = Rcv(ChanOf(i))
  BY DEF Rcv, ChanOf, latestVars
<1>3. QED BY <1>1, <1>2, SameSlots

LEMMA SlotsStep ==
    ASSUME SlotInv, [Next]_vars
    PROVE  SlotInv' /\ SlotsKept
<1>1. TypeInv'
  BY TypeStep DEF SlotInv
<1> SUFFICES SlotsKept /\ SlotsFine'
  BY <1>1 DEF SlotInv
<1>2. CASE UNCHANGED vars
  BY <1>2, QuietSlots DEF vars, latestVars
<1>3. ASSUME NEW t \in PlainTopics, PublishToSlot(t)
      PROVE  SlotsKept /\ SlotsFine'
  BY <1>3, ToSlotStores, StoredKeeps DEF SlotInv, SlotsFine
<1>4. ASSUME NEW t \in PlainTopics, PublishToQueue(t)
      PROVE  SlotsKept /\ SlotsFine'
  BY <1>4, QuietSlots DEF PublishToQueue, dispatchVars
<1>5. ASSUME NEW u \in KeyedUse, PublishLatest(u.topic, u.key, u.phase)
      PROVE  SlotsKept /\ SlotsFine'
  <2>1. CASE SlotRefused(u.topic, u.key, u.phase)
    BY <1>5, <2>1, QuietSlots DEF PublishLatest, dispatchVars, latestVars
  <2>2. CASE ~SlotRefused(u.topic, u.key, u.phase)
    BY <1>5, <2>2, PublishLatestStores, StoredKeeps DEF SlotInv
  <2>3. QED BY <2>1, <2>2
<1>6. ASSUME NEW u \in TopicUse, UseLatest(u.topic, u.phase)
      PROVE  SlotsKept /\ SlotsFine'
  BY <1>6, UseLatestSlots
<1>7. CASE Dispatch
  <2>1. CASE BeginDispatch
    BY <2>1, QuietSlots DEF BeginDispatch, SlotInv, SlotsFine, HandSound
  <2>2. ASSUME NEW phase \in Phase, TakeLatest(phase)
        PROVE  SlotsKept /\ SlotsFine'
    BY <2>2, TakeLatestSlots
  <2>3. ASSUME NEW phase \in Phase, EndLatest(phase)
        PROVE  SlotsKept /\ SlotsFine'
    BY <2>3, QuietSlots DEF EndLatest
  <2>4. CASE TakeQueued
    BY <2>4, TakeQueuedSlots
  <2>5. CASE EndQueue
    BY <2>5, QuietSlots DEF EndQueue
  <2>6. CASE Deliver
    BY <2>6, DeliverSlots
  <2>7. CASE RunHooks
    BY <2>7, QuietSlots DEF RunHooks, SlotInv, SlotsFine, HandSound
  <2>8. QED BY <1>7, <2>1, <2>2, <2>3, <2>4, <2>5, <2>6, <2>7 DEF Dispatch
<1>8. QED BY <1>2, <1>3, <1>4, <1>5, <1>6, <1>7 DEF Next, Publish

LEMMA SlotsInit ==
    ASSUME Init
    PROVE  SlotInv
BY InitType DEF Init, SlotInv, SlotsFine, OneSlotEach, SwitchedSlots, HandSound, NewestHeld

LEMMA NewestOfSlot ==
    ASSUME SlotInv
    PROVE  NewestKept
<1> SUFFICES ASSUME NEW i \in DOMAIN mc_latest, mc_latest[i].data # 0,
                    ~mc_latest[i].pending,
                    received[ChannelOf(mc_latest[i])] # mc_latest[i].data
             PROVE  hand = [topic |-> mc_latest[i].topic, key |-> mc_latest[i].key,
                            data |-> mc_latest[i].data]
  BY DEF NewestKept
<1>1. Rcv(ChanOf(i)) = mc_latest[i].data
  BY DEF SlotInv, SlotsFine, NewestHeld
<1>2. ChannelOf(hand) = ChanOf(i) /\ hand.data = mc_latest[i].data
  BY <1>1 DEF Rcv, ChanOf
<1>3. ChanOf(i) \in Channels
  BY SlotTypes DEF SlotInv
<1>4. hand \in Event
  BY <1>2, <1>3, NoneIsNoChannel DEF SlotInv, TypeInv, TypeOK
<1>5. QED BY <1>2, <1>4 DEF Event, ChannelOf, ChanOf

(* The newest value of a slot is never lost by store_latest, dispatch_latest *)
(* or an overflow of the ring: it is pending, in the hand of the dispatcher  *)
(* or what the subscribers saw last, even when a counter has wrapped.        *)
THEOREM NewestKeptHolds == Spec => []NewestKept
<1>1. Init => SlotInv
  BY SlotsInit
<1>2. SlotInv /\ [Next]_vars => SlotInv'
  BY SlotsStep
<1>3. SlotInv => NewestKept
  BY NewestOfSlot
<1>4. QED BY <1>1, <1>2, <1>3, PTL DEF Spec

(* latest_slot never hands the slot of a topic and key to another one, nor  *)
(* to another phase, and never makes a second slot for them.                *)
THEOREM OwnersHold == Spec => SlotsKeepTheirOwner
<1> DEFINE Keeps ==
      \A i \in DOMAIN mc_latest :
         /\ i \in DOMAIN mc_latest'
         /\ ChannelOf(mc_latest'[i]) = ChannelOf(mc_latest[i])
         /\ mc_latest'[i].phase = mc_latest[i].phase
         /\ \A j \in DOMAIN mc_latest' :
              ChannelOf(mc_latest'[j]) = ChannelOf(mc_latest'[i]) => j = i
<1>1. Init => SlotInv
  BY SlotsInit
<1>2. SlotInv /\ [Next]_vars => SlotInv'
  BY SlotsStep
<1>3. SlotInv /\ [Next]_vars => [Keeps]_vars
  <2> SUFFICES ASSUME SlotInv, [Next]_vars PROVE Keeps
    OBVIOUS
  <2>1. SlotsKept /\ OneSlotEach'
    BY SlotsStep DEF SlotInv, SlotsFine
  <2>2. QED BY <2>1 DEF SlotsKept, OneSlotEach, ChanOf
<1> HIDE DEF Keeps
<1>4. Spec => [][Keeps]_vars
  BY <1>1, <1>2, <1>3, PTL DEF Spec
<1>5. QED BY <1>4 DEF SlotsKeepTheirOwner, Keeps

----------------------------------------------------------------------------
(* The work of a dispatch.  Whatever is published meanwhile, a dispatch    *)
(* looks at each slot twice, takes no more than its budget from the ring   *)
(* and delivers at most one event for each of these.                       *)

LooksLeft == 2 * (LatestCapacity + 1 - dispatcher.slot)

InDelivery == IF hand = NoEvent THEN 0 ELSE 1

(* Steps to the end of the dispatch, at most. *)
StepsLeft ==
    InDelivery +
    (IF dispatcher.step = "state" THEN 2 * LatestCapacity + 2 * DispatchBudget + 4 + LooksLeft
     ELSE IF dispatcher.step = "queue"
          THEN 2 * LatestCapacity + 3 + 2 * (DispatchBudget - dispatcher.processed)
     ELSE IF dispatcher.step = "control" THEN 2 + LooksLeft
     ELSE IF dispatcher.step = "hooks" THEN 1
     ELSE 0)

WorkIsLimited ==
    /\ StepsLeft \in 0 .. 4 * LatestCapacity + 2 * DispatchBudget + 5
    /\ StepsLeft = 0 <=> dispatcher.step = "idle"

(* Only the dispatcher changes what is left to do, and always to less. *)
CountsDown ==
    dispatcher.step # "idle" =>
        IF Dispatch THEN StepsLeft' < StepsLeft ELSE StepsLeft' = StepsLeft

LEMMA DispatcherNumbers ==
    ASSUME TypeInv
    PROVE  /\ dispatcher.step \in {"idle", "state", "queue", "control", "hooks"}
           /\ dispatcher.slot \in Nat \ {0} /\ dispatcher.slot <= LatestCapacity + 1
           /\ dispatcher.processed \in Nat /\ dispatcher.processed <= DispatchBudget
           /\ LatestCapacity \in Nat /\ DispatchBudget \in Nat \ {0}
           /\ dispatcher = [step |-> dispatcher.step, slot |-> dispatcher.slot,
                            processed |-> dispatcher.processed]
BY SizeAssumption DEF TypeInv, TypeOK, Dispatcher, Steps

LEMMA WorkLimit ==
    ASSUME SlotInv
    PROVE  WorkIsLimited
<1>1. dispatcher.step \in {"idle", "hooks"} => hand = NoEvent
  BY DEF SlotInv, SlotsFine, HandSound
<1>2. LooksLeft \in Nat /\ LooksLeft <= 2 * LatestCapacity
  BY DispatcherNumbers DEF SlotInv, LooksLeft
<1>3. QED
  BY <1>1, <1>2, DispatcherNumbers DEF SlotInv, WorkIsLimited, StepsLeft, InDelivery

LEMMA WorkStep ==
    ASSUME SlotInv, [Next]_vars
    PROVE  [CountsDown]_vars
<1> SUFFICES ASSUME Next, dispatcher.step # "idle"
             PROVE  IF Dispatch THEN StepsLeft' < StepsLeft ELSE StepsLeft' = StepsLeft
  BY DEF CountsDown
<1>1. TypeInv /\ TypeInv'
  BY TypeStep DEF SlotInv
<1>2. CASE ~Dispatch
  <2>1. UNCHANGED <<dispatcher, hand>>
    BY <1>2 DEF Next, Publish, PublishToSlot, PublishToQueue, PublishLatest, UseLatest,
                Reject, dispatchVars
  <2>2. QED BY <1>2, <2>1 DEF StepsLeft, InDelivery, LooksLeft
<1>3. CASE Dispatch
  <2>1. ASSUME NEW phase \in Phase, TakeLatest(phase)
        PROVE  StepsLeft' < StepsLeft
    <3>1. /\ dispatcher.step = SlotStep(phase) /\ hand = NoEvent
          /\ dispatcher' = [dispatcher EXCEPT !.slot = @ + 1]
      BY <2>1 DEF TakeLatest
    <3>2. dispatcher'.step = dispatcher.step /\ dispatcher'.slot = dispatcher.slot + 1
      BY <3>1, <1>1, DispatcherNumbers
    <3>3. LooksLeft' = LooksLeft - 2 /\ LooksLeft \in Int
      BY <3>2, <1>1, DispatcherNumbers DEF LooksLeft
    <3>4. dispatcher.step \in {"state", "control"}
      BY <3>1 DEF SlotStep, Phase
    <3>5. InDelivery = 0 /\ InDelivery' \in {0, 1}
      BY <3>1 DEF InDelivery
    <3>6. QED BY <3>2, <3>3, <3>4, <3>5, <1>1, DispatcherNumbers DEF StepsLeft
  <2>2. ASSUME NEW phase \in Phase, EndLatest(phase)
        PROVE  StepsLeft' < StepsLeft
    <3>1. /\ dispatcher.step = SlotStep(phase) /\ hand = NoEvent /\ hand' = hand
          /\ dispatcher.slot > LatestCapacity
          /\ dispatcher' = [dispatcher EXCEPT !.step = StepAfter(phase), !.slot = 1]
      BY <2>2 DEF EndLatest
    <3>2. /\ dispatcher'.step = StepAfter(phase)
          /\ dispatcher'.processed = dispatcher.processed
      BY <3>1, <1>1, DispatcherNumbers
    <3>3. LooksLeft = 0
      BY <3>1, <1>1, DispatcherNumbers DEF LooksLeft
    <3>4. InDelivery = 0 /\ InDelivery' = 0
      BY <3>1 DEF InDelivery
    <3>5. \/ dispatcher.step = "state" /\ dispatcher'.step = "queue"
          \/ dispatcher.step = "control" /\ dispatcher'.step = "hooks"
      BY <3>1, <3>2 DEF SlotStep, StepAfter, Phase
    <3>6. QED BY <3>2, <3>3, <3>4, <3>5, <1>1, DispatcherNumbers DEF StepsLeft
  <2>3. ASSUME TakeQueued
        PROVE  StepsLeft' < StepsLeft
    <3>1. /\ dispatcher.step = "queue" /\ hand = NoEvent
          /\ dispatcher' = [dispatcher EXCEPT !.processed = @ + 1]
      BY <2>3 DEF TakeQueued, CountProcessed
    <3>2. dispatcher'.step = "queue" /\ dispatcher'.processed = dispatcher.processed + 1
      BY <3>1, <1>1, DispatcherNumbers
    <3>3. InDelivery = 0 /\ InDelivery' \in {0, 1}
      BY <3>1 DEF InDelivery
    <3>4. QED BY <3>1, <3>2, <3>3, <1>1, DispatcherNumbers DEF StepsLeft
  <2>4. ASSUME EndQueue
        PROVE  StepsLeft' < StepsLeft
    <3>1. /\ dispatcher.step = "queue" /\ hand = NoEvent /\ hand' = hand
          /\ dispatcher'.step = "control" /\ dispatcher'.slot = 1
      BY <2>4 DEF EndQueue, StepAfterQueue
    <3>2. InDelivery = 0 /\ InDelivery' = 0
      BY <3>1 DEF InDelivery
    <3>3. LooksLeft' = 2 * LatestCapacity
      BY <3>1, <1>1, DispatcherNumbers DEF LooksLeft
    <3>4. QED BY <3>1, <3>2, <3>3, <1>1, DispatcherNumbers DEF StepsLeft
  <2>5. ASSUME Deliver
        PROVE  StepsLeft' < StepsLeft
    <3>1. InDelivery = 1 /\ InDelivery' = 0 /\ UNCHANGED dispatcher
      BY <2>5 DEF Deliver, InDelivery, dispatchVars
    <3>2. LooksLeft' = LooksLeft /\ LooksLeft \in Int
      BY <3>1, <1>1, DispatcherNumbers DEF LooksLeft
    <3>3. QED BY <3>1, <3>2, <1>1, DispatcherNumbers DEF StepsLeft
  <2>6. ASSUME RunHooks
        PROVE  StepsLeft' < StepsLeft
    <3>1. /\ dispatcher.step = "hooks" /\ dispatcher'.step = "idle" /\ hand' = hand
      BY <2>6 DEF RunHooks, Idle
    <3>2. hand = NoEvent
      BY <3>1 DEF SlotInv, SlotsFine, HandSound
    <3>3. QED BY <3>1, <3>2 DEF StepsLeft, InDelivery
  <2>7. ~BeginDispatch
    BY DEF BeginDispatch
  <2>8. QED BY <1>3, <2>1, <2>2, <2>3, <2>4, <2>5, <2>6, <2>7 DEF Dispatch
<1>4. QED BY <1>2, <1>3

(* MsgCenter_Dispatch does no more than a fixed amount of work, each of its *)
(* steps does some of it, and no publication adds to it: a flood from the   *)
(* interrupts or from its own subscribers cannot keep it from returning.    *)
THEOREM DispatchIsFinite == Spec => []WorkIsLimited /\ [][CountsDown]_vars
<1>1. Init => SlotInv
  BY SlotsInit
<1>2. SlotInv /\ [Next]_vars => SlotInv'
  BY SlotsStep
<1>3. SlotInv => WorkIsLimited
  BY WorkLimit
<1>4. SlotInv /\ [Next]_vars => [CountsDown]_vars
  BY WorkStep
<1>5. QED BY <1>1, <1>2, <1>3, <1>4, PTL DEF Spec

----------------------------------------------------------------------------
(* The order of the events, while no counter of publications wraps.        *)

Pub == [t \in Topics |-> mc_diagnostics[t].published]

(* Nothing is newer than the last publication of its topic. *)
Bounded ==
    /\ \A c \in Channels : Seen[c] <= Pub[c[1]]
    /\ \A i \in DOMAIN mc_latest : mc_latest[i].data <= Pub[mc_latest[i].topic]
    /\ \A i \in Queued : mc_queue[i].data <= Pub[mc_queue[i].topic]

SlotsAhead ==
    \A i \in DOMAIN mc_latest :
        mc_latest[i].pending => Seen[ChanOf(i)] < mc_latest[i].data

(* How many entries of the ring are older than the entry i. *)
Place(tail, i) == IF i >= tail THEN i - tail ELSE i - tail + QueueLen

RingSorted ==
    \A i \in Queued, j \in Queued :
        mc_queue[i].topic = mc_queue[j].topic
          /\ Place(mc_tail, i) < Place(mc_tail, j)
        => mc_queue[i].data < mc_queue[j].data

RingUnseen ==
    \A i \in Queued : ~Obsolete(mc_queue[i]) =>
        Seen[ChannelOf(mc_queue[i])] < mc_queue[i].data

RingFine == RingSorted /\ RingUnseen /\ RingHoldsNewest

OrderInv == SlotInv /\ CountInv /\ Bounded /\ SlotsAhead /\ RingFine

LEMMA PlaceAdvance ==
    ASSUME NEW tail \in Index, NEW i \in Index \ {tail}, NEW j \in Index \ {tail}
    PROVE  Place(After(tail), i) < Place(After(tail), j)
             <=> Place(tail, i) < Place(tail, j)
BY SizeAssumption DEF Place, After

LEMMA PlaceOldest ==
    ASSUME NEW tail \in Index, NEW i \in Index \ {tail}
    PROVE  Place(tail, tail) < Place(tail, i)
BY SizeAssumption DEF Place

LEMMA PlaceNewest ==
    ASSUME NEW tail \in Index, NEW head \in Index, NEW i \in Window(tail, head)
    PROVE  Place(tail, i) < Place(tail, head)
BY SizeAssumption DEF Place, Window

LEMMA PlaceTotal ==
    ASSUME NEW tail \in Index, NEW i \in Index, NEW j \in Index, i # j
    PROVE  /\ Place(tail, i) < Place(tail, j) \/ Place(tail, j) < Place(tail, i)
           /\ ~(Place(tail, i) < Place(tail, j) /\ Place(tail, j) < Place(tail, i))
BY SizeAssumption DEF Place

(* The arithmetic types of what the invariant compares. *)
LEMMA PubType ==
    ASSUME TypeInv
    PROVE  Pub \in [Topics -> Nat]
BY SizeAssumption DEF TypeInv, TypeOK, Diagnostics, Pub

LEMMA SeenType ==
    ASSUME TypeInv
    PROVE  Seen \in [Channels -> Nat] /\ \A c \in Channels : c[1] \in Topics
<1>1. ASSUME NEW c \in Channels
      PROVE  Seen[c] \in Nat
  <2>1. CASE ChannelOf(hand) = c
    <3>1. hand \in Event
      BY <2>1, NoneIsNoChannel DEF TypeInv, TypeOK
    <3>2. QED BY <2>1, <3>1, SizeAssumption DEF Seen, Event
  <2>2. CASE ChannelOf(hand) # c
    BY <2>2, SizeAssumption DEF Seen, TypeInv, TypeOK
  <2>3. QED BY <2>1, <2>2
<1>2. QED BY <1>1 DEF Seen, Channels

LEMMA SeenTypeNext == (TypeInv => Seen \in [Channels -> Nat])'
<1>1. TypeInv => Seen \in [Channels -> Nat]
  BY SeenType
<1>2. QED BY <1>1, PTL

LEMMA SlotType ==
    ASSUME TypeInv, NEW i \in DOMAIN mc_latest
    PROVE  /\ mc_latest[i].data \in Nat /\ mc_latest[i].topic \in Topics
           /\ ChanOf(i) \in Channels /\ ChanOf(i)[1] = mc_latest[i].topic
           /\ mc_latest[i].pending \in BOOLEAN
<1>1. mc_latest[i] \in Slot /\ ChanOf(i) \in Channels
  BY SlotTypes
<1>2. QED BY <1>1, SizeAssumption DEF Slot, ChanOf, ChannelOf

LEMMA RingType ==
    ASSUME TypeInv, NEW i \in Queued
    PROVE  /\ mc_queue[i].data \in Nat /\ mc_queue[i].topic \in PlainTopics
           /\ mc_queue[i].topic \in Topics /\ mc_queue[i] \in Event
           /\ ChannelOf(mc_queue[i]) = <<mc_queue[i].topic, Key0>>
           /\ ChannelOf(mc_queue[i]) \in Channels
           /\ i \in Index
<1>1. mc_queue[i] \in Event /\ mc_queue[i].topic \in PlainTopics /\ mc_queue[i].key = Key0
  BY DEF TypeInv, QueueSound
<1>2. i \in Index
  BY WindowInIndex DEF TypeInv, TypeOK, Queued
<1>3. QED BY <1>1, <1>2, ChannelType, PlainAreTopics, SizeAssumption DEF Event, ChannelOf

LEMMA PlainChannels ==
    ASSUME NEW t \in PlainTopics
    PROVE  <<t, Key0>> \in Channels /\ t \in Topics
BY PlainAreTopics, KeysNat DEF Channels

(* A publication is newer than every earlier one of its topic. *)
LEMMA StampNext ==
    ASSUME MaxPublish < CounterModulus, CountInv, NEW t \in Topics, CanPublish(t)
    PROVE  Stamp(t) = Pub[t] + 1 /\ Pub[t] \in Nat /\ Stamp(t) \in Nat
<1>1. mc_diagnostics[t].published \in Nat /\ mc_diagnostics[t].rejected \in Nat
  BY SizeAssumption DEF CountInv, TypeInv, TypeOK, Diagnostics
<1>2. mc_diagnostics[t].published < MaxPublish
  BY <1>1, SizeAssumption DEF CanPublish
<1>3. QED BY <1>1, <1>2, SuccExact DEF Stamp, Pub

(* The ring is as it was, and so is what its topics have published and     *)
(* delivered, but for topics that use a slot.                              *)
LEMMA StillRing ==
    ASSUME OrderInv, UNCHANGED queueVars,
           \A t \in PlainTopics : mc_latest_topic'[t] = 0 =>
              /\ mc_latest_topic[t] = 0 /\ Pub'[t] = Pub[t]
              /\ Seen'[<<t, Key0>>] = Seen[<<t, Key0>>]
    PROVE  RingFine'
<1>1. Queued' = Queued /\ mc_queue' = mc_queue /\ mc_tail' = mc_tail
  BY DEF queueVars, Queued
<1>2. RingSorted'
  BY <1>1 DEF OrderInv, RingFine, RingSorted
<1>3. RingUnseen'
  <2> SUFFICES ASSUME NEW i \in Queued, ~Obsolete(mc_queue[i])'
               PROVE  (Seen[ChannelOf(mc_queue[i])] < mc_queue[i].data)'
    BY <1>1 DEF RingUnseen
  <2>1. /\ mc_queue[i].topic \in PlainTopics
        /\ ChannelOf(mc_queue[i]) = <<mc_queue[i].topic, Key0>>
    BY RingType DEF OrderInv, SlotInv
  <2>2. mc_latest_topic'[mc_queue[i].topic] = 0
    BY <1>1 DEF Obsolete
  <2>3. ~Obsolete(mc_queue[i])
    BY <2>1, <2>2 DEF Obsolete
  <2>4. \A t \in PlainTopics : t = mc_queue[i].topic =>
           Seen'[<<t, Key0>>] = Seen[<<t, Key0>>]
    BY <2>2
  <2>5. ChannelOf(mc_queue[i])' = ChannelOf(mc_queue[i])
    BY <1>1 DEF ChannelOf
  <2>6. PICK t \in PlainTopics : t = mc_queue[i].topic
    BY <2>1
  <2>7. Seen'[<<t, Key0>>] = Seen[<<t, Key0>>]
    BY <2>4, <2>6
  <2>8. Seen[<<t, Key0>>] < mc_queue[i].data
    BY <2>1, <2>3, <2>6 DEF OrderInv, RingFine, RingUnseen
  <2>9. ChannelOf(mc_queue[i])' = <<t, Key0>>
    BY <2>1, <2>5, <2>6
  <2>10. (Seen[<<t, Key0>>] < mc_queue[i].data)'
    BY <1>1, <2>7, <2>8
  <2>11. QED BY <2>9, <2>10
<1>4. RingHoldsNewest'
  <2> SUFFICES ASSUME NEW t \in PlainTopics, mc_latest_topic'[t] = 0
               PROVE  ({mc_queue[i].data : i \in QueuedOf(t)} =
                        (Pub[t] - Cardinality(QueuedOf(t)) + 1) .. Pub[t])'
    BY PlainAreTopics DEF RingHoldsNewest, Pub
  <2>1. QueuedOf(t)' = QueuedOf(t)
    BY <1>1 DEF QueuedOf
  <2>2. mc_latest_topic[t] = 0 /\ Pub'[t] = Pub[t]
    OBVIOUS
  <2>3. {mc_queue[i].data : i \in QueuedOf(t)} =
          (Pub[t] - Cardinality(QueuedOf(t)) + 1) .. Pub[t]
    BY <2>2, PlainAreTopics DEF OrderInv, RingFine, RingHoldsNewest, Pub
  <2>4. QED BY <1>1, <2>1, <2>2, <2>3
<1>5. QED BY <1>2, <1>3, <1>4 DEF RingFine

----------------------------------------------------------------------------
(* Every step keeps the order. *)

LEMMA StoredOrder ==
    ASSUME MaxPublish < CounterModulus, OrderInv, NEW i, NEW t, NEW k, StoredAt(i, t, k)
    PROVE  /\ Bounded' /\ SlotsAhead' /\ RingFine'
           /\ \A c \in Channels : Seen'[c] = Seen[c]
           /\ \A j \in DOMAIN mc_latest : mc_latest[j].data <= mc_latest'[j].data
<1>1. /\ t \in Topics /\ Stamp(t) = Pub[t] + 1 /\ Pub[t] \in Nat
      /\ Pub'[t] = Pub[t] + 1 /\ \A u \in Topics : u # t => Pub'[u] = Pub[u]
  BY StampNext DEF StoredAt, OrderInv, Pub
<1>2. \A u \in Topics : Pub[u] \in Nat /\ Pub'[u] \in Nat /\ Pub[u] <= Pub'[u]
  BY <1>1, PubType DEF OrderInv, SlotInv
<1>3. \A c \in Channels : Seen'[c] = Seen[c] /\ Seen[c] \in Nat /\ c[1] \in Topics
  BY SeenType DEF StoredAt, dispatchVars, OrderInv, SlotInv, Seen
<1>4. UNCHANGED queueVars /\ mc_latest_topic' = mc_latest_topic
  BY DEF StoredAt
<1>5. \A c \in Channels : Seen'[c] <= Pub'[c[1]]
  <2>1. ASSUME NEW c \in Channels, NEW u \in Topics, u = c[1]
        PROVE  Seen'[c] <= Pub'[u]
    BY <1>2, <1>3, <2>1 DEF OrderInv, Bounded
  <2>2. QED BY <1>3, <2>1
<1>6. ASSUME NEW j \in DOMAIN mc_latest'
      PROVE  \/ j = i
             \/ j # i /\ j \in DOMAIN mc_latest /\ mc_latest'[j] = mc_latest[j]
  BY <1>6 DEF StoredAt
<1>7. mc_latest'[i].topic = t /\ mc_latest'[i].data = Pub[t] + 1
      /\ ChannelOf(mc_latest'[i]) = <<t, k>> /\ <<t, k>> \in Channels
  BY <1>1 DEF StoredAt, ChannelOf, Channels
<1>8. ASSUME NEW j \in DOMAIN mc_latest
      PROVE  /\ mc_latest[j].data \in Nat /\ mc_latest[j].topic \in Topics
             /\ mc_latest[j].data <= Pub[mc_latest[j].topic]
             /\ mc_latest[j].pending => Seen[ChanOf(j)] < mc_latest[j].data
             /\ ChanOf(j) \in Channels
  BY SlotType DEF OrderInv, SlotInv, Bounded, SlotsAhead
<1>9. \A j \in DOMAIN mc_latest' : mc_latest'[j].data <= Pub'[mc_latest'[j].topic]
  <2> SUFFICES ASSUME NEW j \in DOMAIN mc_latest'
               PROVE  mc_latest'[j].data <= Pub'[mc_latest'[j].topic]
    OBVIOUS
  <2>1. CASE j = i
    BY <1>1, <1>7, <2>1
  <2>2. CASE j # i
    <3>1. j \in DOMAIN mc_latest /\ mc_latest'[j] = mc_latest[j]
      BY <1>6, <2>2
    <3>2. PICK u \in Topics : u = mc_latest[j].topic
      BY <1>8, <3>1
    <3>3. mc_latest[j].data <= Pub'[u]
      BY <1>2, <1>8, <3>1, <3>2
    <3>4. QED BY <3>1, <3>2, <3>3
  <2>3. QED BY <2>1, <2>2
<1>10. ASSUME NEW j \in DOMAIN mc_latest', mc_latest'[j].pending
       PROVE  Seen'[ChannelOf(mc_latest'[j])] < mc_latest'[j].data
  <2>1. CASE j = i
    <3>1. Seen'[<<t, k>>] <= Pub[t]
      BY <1>3, <1>7 DEF OrderInv, Bounded
    <3>2. Seen'[<<t, k>>] < mc_latest'[i].data
      BY <1>1, <1>3, <1>7, <3>1
    <3>3. QED BY <1>7, <2>1, <3>2 DEF ChanOf
  <2>2. CASE j # i
    <3>1. j \in DOMAIN mc_latest /\ mc_latest'[j] = mc_latest[j]
      BY <1>6, <2>2
    <3>2. PICK c \in Channels : c = ChanOf(j)
      BY <1>8, <3>1
    <3>3. Seen'[c] < mc_latest[j].data
      BY <1>3, <1>8, <1>10, <3>1, <3>2
    <3>4. ChannelOf(mc_latest'[j]) = c
      BY <3>1, <3>2 DEF ChanOf
    <3>5. QED BY <3>1, <3>3, <3>4
  <2>3. QED BY <2>1, <2>2
<1>11. \A j \in Queued' : mc_queue'[j].data <= Pub'[mc_queue'[j].topic]
  <2> SUFFICES ASSUME NEW j \in Queued
               PROVE  mc_queue[j].data <= Pub'[mc_queue[j].topic]
    BY <1>4 DEF queueVars, Queued, Pub
  <2>1. mc_queue[j].data \in Nat /\ mc_queue[j].topic \in Topics
        /\ mc_queue[j].data <= Pub[mc_queue[j].topic]
    BY RingType DEF OrderInv, SlotInv, Bounded
  <2>2. PICK u \in Topics : u = mc_queue[j].topic
    BY <2>1
  <2>3. mc_queue[j].data <= Pub'[u]
    BY <1>2, <2>1, <2>2
  <2>5. QED BY <2>2, <2>3
<1>12. RingFine'
  <2>1. ASSUME NEW u \in PlainTopics, mc_latest_topic'[u] = 0
        PROVE  mc_latest_topic[u] = 0 /\ Pub'[u] = Pub[u]
               /\ Seen'[<<u, Key0>>] = Seen[<<u, Key0>>]
    <3>1. u # t
      BY <1>4, <2>1 DEF StoredAt
    <3>2. QED BY <1>1, <1>3, <1>4, <2>1, <3>1, PlainChannels
  <2>2. QED BY <1>4, <2>1, StillRing
<1>13. \A j \in DOMAIN mc_latest : mc_latest[j].data <= mc_latest'[j].data
  <2> SUFFICES ASSUME NEW j \in DOMAIN mc_latest
               PROVE  mc_latest[j].data <= mc_latest'[j].data
    OBVIOUS
  <2>1. CASE j = i
    <3>1. mc_latest[j].topic = t
      BY <2>1 DEF StoredAt, ChanOf, ChannelOf
    <3>2. QED BY <1>1, <1>7, <1>8, <2>1, <3>1
  <2>2. CASE j # i
    BY <1>8, <2>2 DEF StoredAt
  <2>3. QED BY <2>1, <2>2
<1>14. Bounded'
  BY <1>5, <1>9, <1>11 DEF Bounded
<1>15. SlotsAhead'
  BY <1>10 DEF SlotsAhead, ChanOf
<1>16. QED BY <1>3, <1>12, <1>13, <1>14, <1>15

(* Steps that store nothing, take nothing and publish nothing. *)
LEMMA QuietOrder ==
    ASSUME OrderInv, UNCHANGED <<queueVars, latestVars>>, Pub' = Pub, Seen' = Seen
    PROVE  Bounded' /\ SlotsAhead' /\ RingFine'
<1>1. mc_latest' = mc_latest /\ mc_latest_topic' = mc_latest_topic
      /\ mc_queue' = mc_queue /\ Queued' = Queued /\ UNCHANGED queueVars
  BY DEF latestVars, queueVars, Queued
<1>2. Bounded'
  BY <1>1 DEF OrderInv, Bounded
<1>3. SlotsAhead'
  BY <1>1 DEF OrderInv, SlotsAhead, ChanOf
<1>4. RingFine'
  BY <1>1, StillRing
<1>5. QED BY <1>2, <1>3, <1>4

LEMMA SamePub ==
    ASSUME UNCHANGED mc_diagnostics
    PROVE  Pub' = Pub
BY DEF Pub

LEMMA SameSeen ==
    ASSUME UNCHANGED <<hand, received>>
    PROVE  Seen' = Seen
BY DEF Seen

LEMMA TakenSeen ==
    ASSUME hand = NoEvent, UNCHANGED received, NEW c \in Channels
    PROVE  Seen'[c] = IF ChannelOf(hand') = c THEN hand'.data ELSE Seen[c]
<1>1. Seen[c] = received[c]
  BY NoneIsNoChannel DEF Seen
<1>2. QED BY <1>1 DEF Seen, ChannelOf

LEMMA DeliverSeen ==
    ASSUME TypeInv, Deliver
    PROVE  Seen' = Seen
<1>1. ASSUME NEW c \in Channels
      PROVE  Rcv(c)' = Rcv(c)
  BY <1>1, DeliverRcv
<1>2. ASSUME NEW c \in Channels
      PROVE  Seen'[c] = Seen[c]
  BY <1>1 DEF Seen, Rcv
<1>3. QED BY <1>2 DEF Seen

(* A topic that uses the ring has no slot. *)
LEMMA NoSlotOf ==
    ASSUME SlotInv, NEW t \in PlainTopics, mc_latest_topic[t] = 0,
           NEW i \in DOMAIN mc_latest
    PROVE  ChanOf(i) # <<t, Key0>> /\ mc_latest[i].topic # t
<1>1. mc_latest[i].topic # t
  BY SlotTypes DEF SlotInv, SlotsFine, SwitchedSlots
<1>2. QED BY <1>1 DEF ChanOf, ChannelOf

LEMMA TookOrder ==
    ASSUME OrderInv, NEW i, TookSlot(i), Pub' = Pub,
           UNCHANGED <<queueVars, mc_latest_topic, received>>
    PROVE  /\ Bounded' /\ SlotsAhead' /\ RingFine'
           /\ \A c \in Channels : Seen[c] <= Seen'[c]
           /\ Seen'[ChanOf(i)] = mc_latest[i].data
<1>1. /\ i \in DOMAIN mc_latest /\ DOMAIN mc_latest' = DOMAIN mc_latest
      /\ mc_latest[i].data \in Nat /\ ChanOf(i) \in Channels
      /\ ChanOf(i)[1] = mc_latest[i].topic /\ mc_latest[i].topic \in Topics
  BY SlotType DEF TookSlot, OrderInv, SlotInv
<1>2. \A c \in Channels : Seen'[c] = IF c = ChanOf(i) THEN mc_latest[i].data ELSE Seen[c]
  BY TakenSeen DEF TookSlot
<1>3. Seen[ChanOf(i)] < mc_latest[i].data
  BY <1>1 DEF OrderInv, SlotsAhead, TookSlot
<1>4. Seen \in [Channels -> Nat] /\ \A c \in Channels : c[1] \in Topics
  BY SeenType DEF OrderInv, SlotInv
<1>5. \A c \in Channels : Seen[c] <= Seen'[c]
  BY <1>1, <1>2, <1>3, <1>4
<1>6. /\ \A j \in DOMAIN mc_latest :
            /\ mc_latest'[j].data = mc_latest[j].data
            /\ mc_latest'[j].topic = mc_latest[j].topic
            /\ ChannelOf(mc_latest'[j]) = ChanOf(j)
            /\ mc_latest'[j].pending => mc_latest[j].pending /\ j # i
  BY DEF TookSlot, ChannelOf, ChanOf
<1>7. Queued' = Queued /\ mc_queue' = mc_queue
  BY DEF queueVars, Queued
<1>8. Bounded'
  <2>1. \A c \in Channels : Seen'[c] <= Pub[c[1]]
    BY <1>1, <1>2 DEF OrderInv, Bounded
  <2>2. QED BY <1>1, <1>6, <1>7, <2>1 DEF OrderInv, Bounded
<1>9. SlotsAhead'
  <2> SUFFICES ASSUME NEW j \in DOMAIN mc_latest, mc_latest'[j].pending
               PROVE  Seen'[ChannelOf(mc_latest'[j])] < mc_latest'[j].data
    BY <1>1 DEF SlotsAhead, ChanOf
  <2>1. ChanOf(j) # ChanOf(i) /\ ChanOf(j) \in Channels
    BY <1>1, <1>6, SlotType DEF OrderInv, SlotInv, SlotsFine, OneSlotEach
  <2>2. Seen'[ChanOf(j)] = Seen[ChanOf(j)]
    BY <1>2, <2>1
  <2>3. QED BY <1>6, <2>2 DEF OrderInv, SlotsAhead
<1>10. RingFine'
  <2>1. ASSUME NEW t \in PlainTopics, mc_latest_topic'[t] = 0
        PROVE  mc_latest_topic[t] = 0 /\ Pub'[t] = Pub[t]
               /\ Seen'[<<t, Key0>>] = Seen[<<t, Key0>>]
    BY <1>1, <1>2, <2>1, NoSlotOf, PlainChannels DEF OrderInv
  <2>2. QED BY <2>1, StillRing
<1>11. QED BY <1>1, <1>2, <1>5, <1>8, <1>9, <1>10

LEMMA UseLatestOrder ==
    ASSUME OrderInv, NEW u \in TopicUse, UseLatest(u.topic, u.phase)
    PROVE  /\ Bounded' /\ SlotsAhead' /\ RingFine' /\ Seen' = Seen
           /\ \A j \in DOMAIN mc_latest : mc_latest'[j].data = mc_latest[j].data
<1> DEFINE t == u.topic
<1>1. /\ t \in Topics /\ t \in PlainTopics /\ u.phase \in Phase /\ Key0 \in Keys
      /\ UNCHANGED <<queueVars, hand, received>>
  BY UseAssumption, PlainAreTopics, KeysNat DEF UseLatest, dispatchVars
<1>2. Seen' = Seen
  BY <1>1, SameSeen
<1>3. CASE SlotRefused(t, Key0, u.phase)
  <2>1. UNCHANGED latestVars /\ Reject(t)
    BY <1>3 DEF UseLatest
  <2>2. Pub' = Pub
    BY <2>1 DEF Reject, Pub, OrderInv, SlotInv, TypeInv, TypeOK, Diagnostics
  <2>3. QED BY <1>1, <1>2, <2>1, <2>2, QuietOrder DEF latestVars
<1>4. CASE ~SlotRefused(t, Key0, u.phase)
  <2>1. mc_latest \in Seq(Slot) /\ mc_latest_topic \in [Topics -> Nat]
    BY DEF OrderInv, SlotInv, TypeInv, TypeOK
  <2>2. PICK slots \in Seq(Slot) : \E i \in DOMAIN slots :
           /\ slots = LatestSlots(t, Key0, u.phase) /\ i = LatestSlot(t, Key0)
           /\ Looked(slots, i, t, Key0, u.phase)
    BY <1>1, <1>4, <2>1, LookupSlots
  <2>3. PICK i \in DOMAIN slots :
           /\ slots = LatestSlots(t, Key0, u.phase) /\ i = LatestSlot(t, Key0)
           /\ Looked(slots, i, t, Key0, u.phase)
    BY <2>2
  <2>4. mc_latest' = slots /\ mc_latest_topic' = [mc_latest_topic EXCEPT ![t] = i]
        /\ UNCHANGED mc_diagnostics
    BY <1>4, <2>3 DEF UseLatest
  <2>5. i # 0
    BY <2>2
  <2>6. ASSUME NEW j \in DOMAIN slots
        PROVE  \/ j \in DOMAIN mc_latest /\ slots[j] = mc_latest[j]
               \/ slots[j].data = 0 /\ ~slots[j].pending /\ slots[j].topic = t
    BY <2>3 DEF Looked
  <2>7. \A j \in DOMAIN mc_latest : slots[j] = mc_latest[j]
    BY <2>3 DEF Looked
  <2>8. Pub' = Pub /\ Pub \in [Topics -> Nat]
    BY <2>4, SamePub, PubType DEF OrderInv, SlotInv
  <2>9. Queued' = Queued /\ mc_queue' = mc_queue
    BY <1>1 DEF queueVars, Queued
  <2>10. \A j \in DOMAIN slots : slots[j].data <= Pub[slots[j].topic]
    <3> SUFFICES ASSUME NEW j \in DOMAIN slots
                 PROVE  slots[j].data <= Pub[slots[j].topic]
      OBVIOUS
    <3>1. CASE j \in DOMAIN mc_latest /\ slots[j] = mc_latest[j]
      BY <3>1 DEF OrderInv, Bounded
    <3>2. CASE slots[j].data = 0 /\ slots[j].topic = t
      BY <1>1, <2>8, <3>2
    <3>3. QED BY <2>6, <3>1, <3>2
  <2>11. Bounded'
    BY <1>2, <2>4, <2>8, <2>9, <2>10 DEF OrderInv, Bounded
  <2>12. SlotsAhead'
    BY <1>2, <2>4, <2>6 DEF OrderInv, SlotsAhead, ChanOf
  <2>13. RingFine'
    <3>1. \A v \in PlainTopics : mc_latest_topic'[v] = 0 => mc_latest_topic[v] = 0
      BY <1>1, <2>1, <2>4, <2>5, PlainAreTopics
    <3>2. QED BY <1>1, <1>2, <2>8, <3>1, StillRing
  <2>14. QED BY <1>2, <2>4, <2>7, <2>11, <2>12, <2>13
<1>5. QED BY <1>3, <1>4

(* What a topic keeps in the ring once its oldest entry has left. *)
LEMMA OldestGone ==
    ASSUME OrderInv, NEW t \in PlainTopics, mc_latest_topic[t] = 0,
           mc_tail \in QueuedOf(t), NEW rest, rest = QueuedOf(t) \ {mc_tail}
    PROVE  /\ IsFiniteSet(rest) /\ Cardinality(rest) \in Nat
           /\ {mc_queue[i].data : i \in rest} = (Pub[t] - Cardinality(rest) + 1) .. Pub[t]
           /\ \A i \in rest : mc_queue[mc_tail].data < mc_queue[i].data
<1>1. /\ t \in Topics /\ Pub[t] \in Nat /\ Pub[t] = mc_diagnostics[t].published
      /\ IsFiniteSet(QueuedOf(t)) /\ Cardinality(QueuedOf(t)) \in Nat
  BY PubType, PlainAreTopics, HeldFinite DEF OrderInv, SlotInv, TypeInv, Pub
<1>2. /\ IsFiniteSet(rest) /\ Cardinality(rest) = Cardinality(QueuedOf(t)) - 1
      /\ Cardinality(rest) \in Nat
  BY <1>1, FS_RemoveElement, FS_CardinalityType
<1>3. ASSUME NEW i \in rest
      PROVE  mc_queue[mc_tail].data < mc_queue[i].data
  <2>1. i \in Queued /\ mc_tail \in Queued /\ i \in Index \ {mc_tail}
        /\ mc_queue[i].topic = mc_queue[mc_tail].topic /\ mc_tail \in Index
    BY RingType DEF QueuedOf, OrderInv, SlotInv
  <2>2. Place(mc_tail, mc_tail) < Place(mc_tail, i)
    BY <2>1, PlaceOldest
  <2>3. QED BY <2>1, <2>2 DEF OrderInv, RingFine, RingSorted
<1> DEFINE n == Pub[t]
           first == Pub[t] - Cardinality(QueuedOf(t)) + 1
           low == mc_queue[mc_tail].data
           all == {mc_queue[i].data : i \in QueuedOf(t)}
           left == {mc_queue[i].data : i \in rest}
<1>4. all = first .. n
  BY <1>1 DEF OrderInv, RingFine, RingHoldsNewest
<1>5. low \in all /\ left = all \ {low} /\ \A x \in left : low < x
  <2>1. \A i \in QueuedOf(t) : mc_queue[i].data \in Nat
    BY RingType DEF QueuedOf, OrderInv, SlotInv
  <2>2. \A i \in rest : mc_queue[i].data # low
    BY <1>3, <2>1
  <2>3. left = all \ {low}
    BY <2>2
  <2>4. QED BY <1>3, <2>3
<1>6. first \in Int /\ n \in Int
  BY <1>1
<1> HIDE DEF n, first, low, all, left
<1>7. left = (first + 1) .. n
  <2>1. low = first
    <3>1. low \in first .. n /\ first \in first .. n
      BY <1>4, <1>5, <1>6
    <3>2. low # first => first \in left
      BY <1>4, <1>5, <3>1
    <3>3. QED BY <1>5, <1>6, <3>1, <3>2
  <2>2. QED BY <1>4, <1>5, <1>6, <2>1
<1>8. first + 1 = Pub[t] - Cardinality(rest) + 1
  BY <1>1, <1>2 DEF first
<1>9. QED BY <1>2, <1>3, <1>7, <1>8 DEF n, left

(* The ring after TakeQueued, and what the subscribers will have seen. *)
LEMMA TakeRing ==
    ASSUME OrderInv, TakeQueued
    PROVE  /\ mc_tail \in Queued /\ Queued' = Queued \ {mc_tail}
           /\ mc_queue' = mc_queue /\ mc_tail' = After(mc_tail)
           /\ UNCHANGED latestVars /\ Pub' = Pub
           /\ \A c \in Channels :
                Seen'[c] = IF ~Obsolete(mc_queue[mc_tail])
                              /\ c = ChannelOf(mc_queue[mc_tail])
                           THEN mc_queue[mc_tail].data ELSE Seen[c]
<1>1. mc_tail \in Queued /\ Queued' = Queued \ {mc_tail}
  BY WindowAdvance
     DEF OrderInv, SlotInv, TypeInv, TypeOK, TakeQueued, IsEmpty, Queued
<1>2. /\ mc_queue' = mc_queue /\ mc_tail' = After(mc_tail) /\ UNCHANGED latestVars
      /\ hand = NoEvent /\ UNCHANGED received
  BY DEF TakeQueued
<1>3. Pub' = Pub
  <2>1. mc_diagnostics \in [Topics -> Diagnostics]
    BY DEF OrderInv, SlotInv, TypeInv, TypeOK
  <2>2. \/ mc_diagnostics' = mc_diagnostics
        \/ mc_diagnostics' = [mc_diagnostics EXCEPT ![mc_queue[mc_tail].topic] =
              [mc_diagnostics[mc_queue[mc_tail].topic] EXCEPT
                 !.coalesced = Succ(mc_diagnostics[mc_queue[mc_tail].topic].coalesced)]]
    BY DEF TakeQueued
  <2>3. QED BY <2>1, <2>2 DEF Pub, Diagnostics
<1>4. CASE Obsolete(mc_queue[mc_tail])
  <2>1. Seen' = Seen
    BY <1>2, <1>4, SameSeen DEF TakeQueued
  <2>2. QED BY <1>1, <1>2, <1>3, <1>4, <2>1
<1>5. CASE ~Obsolete(mc_queue[mc_tail])
  <2>1. hand' = mc_queue[mc_tail]
    BY <1>5 DEF TakeQueued
  <2>2. QED BY <1>1, <1>2, <1>3, <1>5, <2>1, TakenSeen
<1>6. QED BY <1>4, <1>5

LEMMA TakeQueuedOrder ==
    ASSUME OrderInv, TakeQueued
    PROVE  /\ Bounded' /\ SlotsAhead' /\ RingFine'
           /\ \A c \in Channels : Seen[c] <= Seen'[c]
<1> DEFINE ev == mc_queue[mc_tail]
<1>1. /\ mc_tail \in Queued /\ Queued' = Queued \ {mc_tail}
      /\ mc_queue' = mc_queue /\ mc_tail' = After(mc_tail)
      /\ mc_latest' = mc_latest /\ mc_latest_topic' = mc_latest_topic /\ Pub' = Pub
  BY TakeRing DEF latestVars
<1>2. \A c \in Channels :
         Seen'[c] = IF ~Obsolete(ev) /\ c = ChannelOf(ev) THEN ev.data ELSE Seen[c]
  BY TakeRing
<1>3. /\ ev.data \in Nat /\ ev.topic \in PlainTopics /\ ev.topic \in Topics
      /\ ChannelOf(ev) = <<ev.topic, Key0>> /\ ChannelOf(ev) \in Channels
      /\ mc_tail \in Index /\ ev.data <= Pub[ev.topic]
      /\ ~Obsolete(ev) => mc_latest_topic[ev.topic] = 0 /\ Seen[ChannelOf(ev)] < ev.data
  BY <1>1, RingType
     DEF OrderInv, SlotInv, Bounded, RingFine, RingUnseen, Obsolete
<1> HIDE DEF ev
<1>4. Seen \in [Channels -> Nat]
  BY SeenType DEF OrderInv, SlotInv
<1>5. \A c \in Channels : Seen[c] <= Seen'[c]
  BY <1>2, <1>3, <1>4
<1>6. Bounded'
  <2>1. \A c \in Channels : Seen'[c] <= Pub[c[1]]
    BY <1>2, <1>3 DEF OrderInv, Bounded
  <2>2. QED BY <1>1, <2>1 DEF OrderInv, Bounded
<1>7. SlotsAhead'
  <2> SUFFICES ASSUME NEW j \in DOMAIN mc_latest, mc_latest[j].pending
               PROVE  Seen'[ChanOf(j)] < mc_latest[j].data
    BY <1>1 DEF SlotsAhead, ChanOf
  <2>1. ChanOf(j) \in Channels
    BY SlotType DEF OrderInv, SlotInv
  <2>2. ~Obsolete(ev) => ChanOf(j) # ChannelOf(ev)
    BY <1>3, NoSlotOf DEF OrderInv
  <2>3. Seen'[ChanOf(j)] = Seen[ChanOf(j)]
    BY <1>2, <2>1, <2>2
  <2>4. QED BY <2>3 DEF OrderInv, SlotsAhead
<1>8. RingSorted'
  <2> SUFFICES ASSUME NEW i \in Queued \ {mc_tail}, NEW j \in Queued \ {mc_tail},
                      mc_queue[i].topic = mc_queue[j].topic,
                      Place(After(mc_tail), i) < Place(After(mc_tail), j)
               PROVE  mc_queue[i].data < mc_queue[j].data
    BY <1>1 DEF RingSorted
  <2>1. i \in Index \ {mc_tail} /\ j \in Index \ {mc_tail}
    BY RingType DEF OrderInv, SlotInv
  <2>2. Place(mc_tail, i) < Place(mc_tail, j)
    BY <1>3, <2>1, PlaceAdvance
  <2>3. QED BY <2>2 DEF OrderInv, RingFine, RingSorted
<1>9. RingUnseen'
  <2> SUFFICES ASSUME NEW i \in Queued \ {mc_tail}, ~Obsolete(mc_queue[i])
               PROVE  Seen'[ChannelOf(mc_queue[i])] < mc_queue[i].data
    BY <1>1 DEF RingUnseen, Obsolete
  <2>1. /\ ChannelOf(mc_queue[i]) \in Channels
        /\ ChannelOf(mc_queue[i]) = <<mc_queue[i].topic, Key0>>
        /\ mc_queue[i].topic \in PlainTopics /\ i \in Index \ {mc_tail}
    BY RingType DEF OrderInv, SlotInv
  <2>2. CASE mc_queue[i].topic = ev.topic
    <3>1. Place(mc_tail, mc_tail) < Place(mc_tail, i)
      BY <1>3, <2>1, PlaceOldest
    <3>2. ev.data < mc_queue[i].data
      BY <1>1, <2>2, <3>1 DEF OrderInv, RingFine, RingSorted, ev
    <3>3. ~Obsolete(ev)
      BY <2>2 DEF Obsolete
    <3>4. Seen'[ChannelOf(mc_queue[i])] = ev.data
      BY <1>2, <1>3, <2>1, <2>2, <3>3
    <3>5. QED BY <3>2, <3>4
  <2>3. CASE mc_queue[i].topic # ev.topic
    <3>1. Seen'[ChannelOf(mc_queue[i])] = Seen[ChannelOf(mc_queue[i])]
      BY <1>2, <1>3, <2>1, <2>3
    <3>2. QED BY <3>1 DEF OrderInv, RingFine, RingUnseen
  <2>4. QED BY <2>2, <2>3
<1>10. RingHoldsNewest'
  <2> SUFFICES ASSUME NEW t \in PlainTopics, mc_latest_topic[t] = 0
               PROVE  {mc_queue[i].data : i \in QueuedOf(t)'} =
                        (Pub[t] - Cardinality(QueuedOf(t)') + 1) .. Pub[t]
    <3>1. \A t \in PlainTopics : mc_diagnostics'[t].published = Pub[t]
      BY <1>1, PlainAreTopics DEF Pub
    <3>2. QED BY <1>1, <3>1 DEF RingHoldsNewest
  <2>1. QueuedOf(t)' = QueuedOf(t) \ {mc_tail}
    BY <1>1 DEF QueuedOf
  <2>2. CASE mc_tail \in QueuedOf(t)
    BY <2>1, <2>2, OldestGone
  <2>3. CASE mc_tail \notin QueuedOf(t)
    <3>1. QueuedOf(t)' = QueuedOf(t)
      BY <2>1, <2>3
    <3>2. QED BY <3>1, PlainAreTopics DEF OrderInv, RingFine, RingHoldsNewest, Pub
  <2>4. QED BY <2>2, <2>3
<1>11. QED BY <1>5, <1>6, <1>7, <1>8, <1>9, <1>10 DEF RingFine

(* The ring after PublishToQueue: what stays of it, and the new entry. *)
Kept == IF IsFull THEN Queued \ {mc_tail} ELSE Queued

LEMMA PublishRing ==
    ASSUME MaxPublish < CounterModulus, OrderInv,
           NEW t \in PlainTopics, PublishToQueue(t)
    PROVE  /\ Queued' = Kept \cup {mc_head} /\ mc_head \notin Queued
           /\ Kept \subseteq Queued /\ Kept = Window(mc_tail', mc_head)
           /\ mc_head \in Index /\ mc_tail' \in Index
           /\ mc_tail' = IF IsFull THEN After(mc_tail) ELSE mc_tail
           /\ mc_tail \in Index /\ (IsFull => mc_tail \in Queued /\ mc_tail # mc_head)
           /\ \A i \in Queued : mc_queue'[i] = mc_queue[i]
           /\ mc_queue'[mc_head] = [topic |-> t, key |-> Key0, data |-> Pub[t] + 1]
           /\ Pub'[t] = Pub[t] + 1 /\ Pub[t] \in Nat
           /\ \A u \in Topics : u # t => Pub'[u] = Pub[u]
           /\ UNCHANGED latestVars /\ Seen' = Seen /\ mc_latest_topic[t] = 0
<1>1. /\ mc_tail \in Index /\ mc_head \in Index
      /\ mc_queue \in [Index -> Event \cup {NoEvent}]
      /\ mc_diagnostics \in [Topics -> Diagnostics]
  BY DEF OrderInv, SlotInv, TypeInv, TypeOK
<1>2. mc_head \notin Queued /\ Queued \subseteq Index
  BY <1>1, WindowAppend, WindowOverwrite, WindowInIndex DEF Queued
<1>3. t \in Topics /\ CanPublish(t)
  BY PlainAreTopics DEF PublishToQueue
<1>4. Stamp(t) = Pub[t] + 1 /\ Pub[t] \in Nat
  BY <1>3, StampNext DEF OrderInv
<1>5. /\ \A i \in Queued : mc_queue'[i] = mc_queue[i]
      /\ mc_queue'[mc_head] = [topic |-> t, key |-> Key0, data |-> Pub[t] + 1]
  BY <1>1, <1>2, <1>4 DEF PublishToQueue
<1>6. UNCHANGED latestVars /\ Seen' = Seen /\ mc_latest_topic[t] = 0
  BY SameSeen DEF PublishToQueue, dispatchVars
<1>7. /\ Queued' = Kept \cup {mc_head} /\ Kept \subseteq Queued
      /\ Kept = Window(mc_tail', mc_head) /\ mc_tail' \in Index
      /\ mc_tail' = IF IsFull THEN After(mc_tail) ELSE mc_tail
      /\ (IsFull => mc_tail \in Queued /\ mc_tail # mc_head)
  <2>1. CASE IsFull
    <3>1. mc_tail' = After(mc_tail) /\ mc_head' = After(mc_head) /\ After(mc_head) = mc_tail
      BY <2>1 DEF PublishToQueue, IsFull
    <3>2. mc_tail # mc_head
      BY <1>1, <3>1, SizeAssumption DEF After
    <3>3. /\ Window(After(mc_tail), After(mc_head)) = (Queued \ {mc_tail}) \cup {mc_head}
          /\ mc_tail \in Queued
      BY <1>1, <3>1, WindowOverwrite DEF Queued
    <3>4. Window(After(mc_tail), mc_head) = Queued \ {mc_tail}
      BY <1>1, <3>2, WindowAdvance DEF Queued
    <3>5. Queued' = Window(After(mc_tail), After(mc_head))
      BY <3>1 DEF Queued
    <3>6. QED BY <1>1, <2>1, <3>1, <3>2, <3>3, <3>4, <3>5, AfterInIndex DEF Kept
  <2>2. CASE ~IsFull
    <3>1. mc_tail' = mc_tail /\ mc_head' = After(mc_head) /\ After(mc_head) # mc_tail
      BY <2>2 DEF PublishToQueue, IsFull
    <3>2. Window(mc_tail, After(mc_head)) = Queued \cup {mc_head}
      BY <1>1, <3>1, WindowAppend DEF Queued
    <3>3. Queued' = Window(mc_tail, After(mc_head))
      BY <3>1 DEF Queued
    <3>4. QED BY <1>1, <2>2, <3>1, <3>2, <3>3 DEF Kept, Queued
  <2>3. QED BY <2>1, <2>2
<1>8. /\ Pub'[t] = Pub[t] + 1
      /\ \A u \in Topics : u # t => Pub'[u] = Pub[u]
  <2> DEFINE counted == [mc_diagnostics EXCEPT ![t] =
                [mc_diagnostics[t] EXCEPT !.published = Stamp(t)]]
             victim == mc_queue[mc_tail].topic
  <2>1. counted \in [Topics -> Diagnostics]
    BY <1>1, <1>3, SuccType DEF Diagnostics, Stamp
  <2>2. counted[t].published = Stamp(t)
        /\ \A u \in Topics : u # t => counted[u].published = mc_diagnostics[u].published
    BY <1>1, <1>3 DEF Diagnostics
  <2>3. counted = [mc_diagnostics EXCEPT ![t].published = Succ(@)]
    BY <1>1, <1>3 DEF Stamp
  <2> HIDE DEF counted
  <2>4. \/ mc_diagnostics' = counted
        \/ mc_diagnostics' = [counted EXCEPT ![victim] =
               [counted[victim] EXCEPT !.overwritten = Succ(counted[victim].overwritten)]]
    BY <2>3 DEF PublishToQueue
  <2> HIDE DEF victim
  <2>5. \A u \in Topics : mc_diagnostics'[u].published = counted[u].published
    BY <2>1, <2>4 DEF Diagnostics
  <2>6. QED BY <1>3, <1>4, <2>2, <2>5 DEF Pub
<1>9. QED BY <1>1, <1>2, <1>4, <1>5, <1>6, <1>7, <1>8

LEMMA PublishToQueueOrder ==
    ASSUME MaxPublish < CounterModulus, OrderInv,
           NEW t \in PlainTopics, PublishToQueue(t)
    PROVE  Bounded' /\ SlotsAhead' /\ RingFine' /\ Seen' = Seen
<1>1. /\ Queued' = Kept \cup {mc_head} /\ mc_head \notin Queued
      /\ Kept \subseteq Queued /\ Kept = Window(mc_tail', mc_head)
      /\ mc_head \in Index /\ mc_tail' \in Index
  BY PublishRing
<1>2. /\ \A i \in Kept : mc_queue'[i] = mc_queue[i] /\ i # mc_head
      /\ mc_queue'[mc_head].topic = t /\ mc_queue'[mc_head].data = Pub[t] + 1
      /\ ChannelOf(mc_queue'[mc_head]) = <<t, Key0>>
  <2>1. \A i \in Kept : mc_queue'[i] = mc_queue[i] /\ i # mc_head
    BY <1>1, PublishRing
  <2>2. mc_queue'[mc_head] = [topic |-> t, key |-> Key0, data |-> Pub[t] + 1]
    BY PublishRing
  <2>3. QED BY <2>1, <2>2 DEF ChannelOf
<1>3. /\ t \in Topics /\ Pub'[t] = Pub[t] + 1
      /\ \A u \in Topics : Pub[u] \in Nat /\ Pub'[u] \in Nat /\ Pub[u] <= Pub'[u]
      /\ \A u \in Topics : u # t => Pub'[u] = Pub[u]
  <2>1. Pub \in [Topics -> Nat] /\ t \in Topics
    BY PubType, PlainAreTopics DEF OrderInv, SlotInv
  <2>2. Pub'[t] = Pub[t] + 1 /\ \A u \in Topics : u # t => Pub'[u] = Pub[u]
    BY PublishRing
  <2>3. QED BY <2>1, <2>2
<1>4. mc_latest' = mc_latest /\ mc_latest_topic' = mc_latest_topic /\ Seen' = Seen
      /\ mc_latest_topic[t] = 0
  BY PublishRing DEF latestVars
<1>5. ASSUME NEW i \in Kept
      PROVE  /\ i \in Index /\ i \in Queued /\ mc_queue[i].data \in Nat
             /\ mc_queue[i].topic \in Topics /\ mc_queue[i].topic \in PlainTopics
             /\ mc_queue[i].data <= Pub[mc_queue[i].topic]
             /\ ~(i = mc_tail /\ IsFull)
  BY <1>1, RingType DEF OrderInv, SlotInv, Bounded, Kept
<1>6. Bounded'
  <2>1. ASSUME NEW u \in Topics, NEW x \in Nat, x <= Pub[u]
        PROVE  x <= Pub'[u]
    BY <1>3, <2>1
  <2>2. \A c \in Channels : Seen'[c] <= Pub'[c[1]]
    BY <1>4, <2>1, SeenType DEF OrderInv, SlotInv, Bounded
  <2>3. \A i \in DOMAIN mc_latest : mc_latest[i].data <= Pub'[mc_latest[i].topic]
    BY <2>1, SlotType DEF OrderInv, SlotInv, Bounded
  <2>4. \A i \in Kept : mc_queue[i].data <= Pub'[mc_queue[i].topic]
    BY <1>5, <2>1
  <2>5. mc_queue'[mc_head].data <= Pub'[mc_queue'[mc_head].topic]
    BY <1>2, <1>3
  <2>6. \A i \in Queued' : mc_queue'[i].data <= Pub'[mc_queue'[i].topic]
    BY <1>1, <1>2, <2>4, <2>5
  <2>7. QED BY <1>4, <2>2, <2>3, <2>6 DEF Bounded
<1>7. SlotsAhead'
  BY <1>4 DEF OrderInv, SlotsAhead, ChanOf
<1>8. RingSorted'
  <2> SUFFICES ASSUME NEW i \in Kept \cup {mc_head}, NEW j \in Kept \cup {mc_head},
                      mc_queue'[i].topic = mc_queue'[j].topic,
                      Place(mc_tail', i) < Place(mc_tail', j)
               PROVE  mc_queue'[i].data < mc_queue'[j].data
    BY <1>1 DEF RingSorted
  <2>1. CASE i \in Kept /\ j \in Kept
    <3>1. Place(mc_tail, i) < Place(mc_tail, j)
      <4>1. CASE IsFull
        <5>1. i \in Index \ {mc_tail} /\ j \in Index \ {mc_tail} /\ mc_tail \in Index
              /\ mc_tail' = After(mc_tail)
          BY <1>5, <2>1, <4>1, PublishRing
        <5>2. QED BY <5>1, PlaceAdvance
      <4>2. CASE ~IsFull
        BY <4>2, PublishRing
      <4>3. QED BY <4>1, <4>2
    <3>2. mc_queue'[i] = mc_queue[i] /\ mc_queue'[j] = mc_queue[j]
          /\ i \in Queued /\ j \in Queued
      BY <1>2, <1>5, <2>1
    <3>3. QED BY <3>1, <3>2 DEF OrderInv, RingFine, RingSorted
  <2>2. CASE i \in Kept /\ j = mc_head
    <3>1. mc_queue'[i] = mc_queue[i] /\ mc_queue[i].topic = t
      BY <1>2, <2>2
    <3>2. mc_queue[i].data \in Nat /\ mc_queue[i].data <= Pub[t] /\ Pub[t] \in Nat
      BY <1>3, <1>5, <2>2, <3>1
    <3>3. QED BY <1>2, <2>2, <3>1, <3>2
  <2>3. CASE i = mc_head /\ j \in Kept
    <3>1. Place(mc_tail', j) < Place(mc_tail', i)
      BY <1>1, <2>3, PlaceNewest
    <3>2. i \in Index /\ j \in Index /\ i # j
      BY <1>1, <1>2, <1>5, <2>3
    <3>3. QED BY <1>1, <3>1, <3>2, PlaceTotal
  <2>4. CASE i = mc_head /\ j = mc_head
    <3>1. Place(mc_tail', mc_head) \in Int
      BY <1>1, SizeAssumption DEF Place
    <3>2. QED BY <2>4, <3>1
  <2>5. QED BY <2>1, <2>2, <2>3, <2>4
<1>9. RingUnseen'
  <2> SUFFICES ASSUME NEW i \in Kept \cup {mc_head}, mc_latest_topic[mc_queue'[i].topic] = 0
               PROVE  Seen[ChannelOf(mc_queue'[i])] < mc_queue'[i].data
    BY <1>1, <1>4 DEF RingUnseen, Obsolete
  <2>1. CASE i \in Kept
    BY <1>2, <1>5, <2>1 DEF OrderInv, RingFine, RingUnseen, Obsolete
  <2>2. CASE i = mc_head
    <3>1. <<t, Key0>> \in Channels /\ Seen[<<t, Key0>>] \in Nat
      BY PlainChannels, SeenType DEF OrderInv, SlotInv
    <3>2. Seen[<<t, Key0>>] <= Pub[t]
      BY <3>1 DEF OrderInv, Bounded
    <3>3. QED BY <1>2, <1>3, <2>2, <3>1, <3>2
  <2>3. QED BY <2>1, <2>2
<1>10. RingHoldsNewest'
  <2> SUFFICES ASSUME NEW u \in PlainTopics, mc_latest_topic[u] = 0
               PROVE  {mc_queue'[i].data : i \in QueuedOf(u)'} =
                        (Pub'[u] - Cardinality(QueuedOf(u)') + 1) .. Pub'[u]
    <3>1. \A v \in PlainTopics : mc_diagnostics'[v].published = Pub'[v]
      BY PlainAreTopics DEF Pub
    <3>2. QED BY <1>4, <3>1 DEF RingHoldsNewest
  <2> DEFINE rest == {i \in Kept : mc_queue[i].topic = u}
  <2>1. /\ IsFiniteSet(rest) /\ Cardinality(rest) \in Nat
        /\ {mc_queue[i].data : i \in rest} = (Pub[u] - Cardinality(rest) + 1) .. Pub[u]
    <3>1. CASE IsFull /\ mc_tail \in QueuedOf(u)
      <4>1. rest = QueuedOf(u) \ {mc_tail}
        BY <3>1 DEF QueuedOf, Kept
      <4>2. QED BY <3>1, <4>1, OldestGone
    <3>2. CASE ~(IsFull /\ mc_tail \in QueuedOf(u))
      <4>1. rest = QueuedOf(u)
        BY <3>2 DEF QueuedOf, Kept
      <4>2. IsFiniteSet(QueuedOf(u)) /\ Cardinality(QueuedOf(u)) \in Nat
        BY HeldFinite DEF OrderInv, SlotInv, TypeInv
      <4>3. {mc_queue[i].data : i \in QueuedOf(u)} =
              (Pub[u] - Cardinality(QueuedOf(u)) + 1) .. Pub[u]
        BY PlainAreTopics DEF OrderInv, RingFine, RingHoldsNewest, Pub
      <4>4. QED BY <4>1, <4>2, <4>3
    <3>3. QED BY <3>1, <3>2
  <2>2. QueuedOf(u)' = {i \in Kept \cup {mc_head} : mc_queue'[i].topic = u}
    BY <1>1 DEF QueuedOf
  <2>3. {mc_queue'[i].data : i \in rest} = {mc_queue[i].data : i \in rest}
    BY <1>2
  <2>4. mc_head \notin rest
    BY <1>2
  <2>5. CASE u # t
    <3>1. QueuedOf(u)' = rest
      BY <1>2, <2>2, <2>5
    <3>2. Pub'[u] = Pub[u]
      BY <1>3, <2>5, PlainAreTopics
    <3> HIDE DEF rest
    <3>3. QED BY <2>1, <2>3, <3>1, <3>2
  <2>6. CASE u = t
    <3>1. QueuedOf(u)' = rest \cup {mc_head}
      BY <1>2, <2>2, <2>6
    <3> HIDE DEF rest
    <3>2. Cardinality(rest \cup {mc_head}) = Cardinality(rest) + 1
      BY <2>1, <2>4, FS_AddElement
    <3>3. {mc_queue'[i].data : i \in rest \cup {mc_head}} =
            {mc_queue[i].data : i \in rest} \cup {Pub[t] + 1}
      BY <1>2, <2>3
    <3> DEFINE n == Pub[t]
               k == Cardinality(rest)
               old == {mc_queue[i].data : i \in rest}
    <3>4. n \in Nat /\ k \in Nat /\ old = (n - k + 1) .. n
      BY <1>3, <2>1, <2>6
    <3> HIDE DEF n, k, old
    <3>5. old \cup {n + 1} = ((n + 1) - (k + 1) + 1) .. (n + 1)
      BY <3>4
    <3>6. QED BY <1>3, <2>6, <3>1, <3>2, <3>3, <3>5 DEF n, k, old
  <2>7. QED BY <2>5, <2>6
<1>11. QED BY <1>4, <1>6, <1>7, <1>8, <1>9, <1>10 DEF RingFine

(* Nothing that was delivered or stored is ever replaced by something older. *)
Onward ==
    /\ \A c \in Channels : Seen[c] <= Seen'[c]
    /\ \A i \in DOMAIN mc_latest : mc_latest[i].data <= mc_latest'[i].data

LEMMA OnwardStill ==
    ASSUME TypeInv, Seen' = Seen, mc_latest' = mc_latest
    PROVE  Onward
<1>1. Seen \in [Channels -> Nat] /\ \A i \in DOMAIN mc_latest : mc_latest[i].data \in Nat
  BY SeenType, SlotType
<1>2. QED BY <1>1 DEF Onward

LEMMA StillOrder ==
    ASSUME OrderInv, UNCHANGED <<queueVars, latestVars>>, Pub' = Pub, Seen' = Seen
    PROVE  Bounded' /\ SlotsAhead' /\ RingFine' /\ Onward
BY QuietOrder, OnwardStill DEF latestVars, OrderInv, SlotInv

LEMMA StoredOnward ==
    ASSUME MaxPublish < CounterModulus, OrderInv, NEW i, NEW t, NEW k, StoredAt(i, t, k)
    PROVE  Bounded' /\ SlotsAhead' /\ RingFine' /\ Onward
<1>1. \A c \in Channels : Seen[c] <= Seen'[c]
  <2>1. \A c \in Channels : Seen'[c] = Seen[c] /\ Seen[c] \in Nat
    BY StoredOrder, SeenType DEF OrderInv, SlotInv
  <2>2. QED BY <2>1
<1>2. QED BY <1>1, StoredOrder DEF Onward

LEMMA PublishOrder ==
    ASSUME MaxPublish < CounterModulus, OrderInv,
           \/ \E t \in PlainTopics : Publish(t)
           \/ \E u \in KeyedUse : PublishLatest(u.topic, u.key, u.phase)
           \/ \E u \in TopicUse : UseLatest(u.topic, u.phase)
    PROVE  Bounded' /\ SlotsAhead' /\ RingFine' /\ Onward
<1>1. ASSUME NEW t \in PlainTopics, PublishToSlot(t)
      PROVE  Bounded' /\ SlotsAhead' /\ RingFine' /\ Onward
  BY <1>1, ToSlotStores, StoredOnward DEF OrderInv, SlotInv, SlotsFine
<1>2. ASSUME NEW t \in PlainTopics, PublishToQueue(t)
      PROVE  Bounded' /\ SlotsAhead' /\ RingFine' /\ Onward
  <2>1. mc_latest' = mc_latest
    BY <1>2 DEF PublishToQueue, latestVars
  <2>2. QED BY <1>2, <2>1, PublishToQueueOrder, OnwardStill DEF OrderInv, SlotInv
<1>3. ASSUME NEW u \in KeyedUse, PublishLatest(u.topic, u.key, u.phase)
      PROVE  Bounded' /\ SlotsAhead' /\ RingFine' /\ Onward
  <2>1. CASE SlotRefused(u.topic, u.key, u.phase)
    <3>1. UNCHANGED <<queueVars, latestVars, hand, received>> /\ Reject(u.topic)
      BY <1>3, <2>1 DEF PublishLatest, dispatchVars, latestVars
    <3>2. Pub' = Pub
      BY <3>1 DEF Reject, Pub, OrderInv, SlotInv, TypeInv, TypeOK, Diagnostics
    <3>3. QED BY <3>1, <3>2, SameSeen, StillOrder
  <2>2. CASE ~SlotRefused(u.topic, u.key, u.phase)
    BY <1>3, <2>2, PublishLatestStores, StoredOnward DEF OrderInv, SlotInv
  <2>3. QED BY <2>1, <2>2
<1>4. ASSUME NEW u \in TopicUse, UseLatest(u.topic, u.phase)
      PROVE  Bounded' /\ SlotsAhead' /\ RingFine' /\ Onward
  <2>1. \A c \in Channels : Seen[c] \in Nat
    BY SeenType DEF OrderInv, SlotInv
  <2>2. \A j \in DOMAIN mc_latest : mc_latest[j].data \in Nat
    BY SlotType DEF OrderInv, SlotInv
  <2>3. /\ Bounded' /\ SlotsAhead' /\ RingFine' /\ Seen' = Seen
        /\ \A j \in DOMAIN mc_latest : mc_latest'[j].data = mc_latest[j].data
    BY <1>4, UseLatestOrder
  <2>4. QED BY <2>1, <2>2, <2>3 DEF Onward
<1>5. QED BY <1>1, <1>2, <1>3, <1>4 DEF Publish

LEMMA DispatchOrder ==
    ASSUME OrderInv, Dispatch
    PROVE  Bounded' /\ SlotsAhead' /\ RingFine' /\ Onward
<1>1. CASE BeginDispatch
  BY <1>1, SamePub, SameSeen, StillOrder DEF BeginDispatch
<1>2. ASSUME NEW phase \in Phase, TakeLatest(phase)
      PROVE  Bounded' /\ SlotsAhead' /\ RingFine' /\ Onward
  <2>1. /\ Pub' = Pub
        /\ UNCHANGED <<queueVars, mc_latest_topic, received>>
    BY <1>2, SamePub DEF TakeLatest
  <2>2. ASSUME NEW i, TookSlot(i)
        PROVE  Bounded' /\ SlotsAhead' /\ RingFine' /\ Onward
    <3>1. \A j \in DOMAIN mc_latest : mc_latest[j].data <= mc_latest'[j].data
      BY <2>2, SlotType DEF TookSlot, OrderInv, SlotInv
    <3>2. QED BY <2>1, <2>2, <3>1, TookOrder DEF Onward
  <2>3. CASE UNCHANGED <<hand, mc_latest>>
    BY <2>1, <2>3, SameSeen, StillOrder DEF latestVars
  <2>4. QED BY <1>2, <2>2, <2>3, TakeLatestTakes DEF OrderInv, SlotInv
<1>3. ASSUME NEW phase \in Phase, EndLatest(phase)
      PROVE  Bounded' /\ SlotsAhead' /\ RingFine' /\ Onward
  BY <1>3, SamePub, SameSeen, StillOrder DEF EndLatest
<1>4. CASE TakeQueued
  <2>1. \A j \in DOMAIN mc_latest : mc_latest[j].data <= mc_latest'[j].data
    BY <1>4, SlotType DEF TakeQueued, latestVars, OrderInv, SlotInv
  <2>2. QED BY <1>4, <2>1, TakeQueuedOrder DEF Onward
<1>5. CASE EndQueue
  BY <1>5, SamePub, SameSeen, StillOrder DEF EndQueue
<1>6. CASE Deliver
  <2>1. Pub' = Pub
    <3>1. hand \in Event /\ mc_diagnostics \in [Topics -> Diagnostics]
      BY <1>6, HandType DEF Deliver, OrderInv, SlotInv, TypeInv, TypeOK
    <3>2. mc_diagnostics' = [mc_diagnostics EXCEPT ![hand.topic] =
            [mc_diagnostics[hand.topic] EXCEPT
               !.delivered = Succ(mc_diagnostics[hand.topic].delivered)]]
      BY <1>6 DEF Deliver
    <3>3. QED BY <3>1, <3>2 DEF Pub, Diagnostics
  <2>2. QED BY <1>6, <2>1, DeliverSeen, StillOrder DEF Deliver, OrderInv, SlotInv
<1>7. CASE RunHooks
  BY <1>7, SamePub, SameSeen, StillOrder DEF RunHooks
<1>8. QED BY <1>1, <1>2, <1>3, <1>4, <1>5, <1>6, <1>7 DEF Dispatch

LEMMA OrderStep ==
    ASSUME MaxPublish < CounterModulus, OrderInv, [Next]_vars
    PROVE  OrderInv' /\ Onward
<1>1. SlotInv' /\ CountInv'
  BY SlotsStep, CountStep DEF OrderInv
<1>2. CASE UNCHANGED vars
  <2>1. UNCHANGED <<queueVars, latestVars, mc_diagnostics, hand, received>>
    BY <1>2 DEF vars, queueVars, latestVars
  <2>2. QED BY <1>1, <2>1, SamePub, SameSeen, StillOrder DEF OrderInv
<1>3. CASE Next
  BY <1>1, <1>3, PublishOrder, DispatchOrder DEF Next, OrderInv
<1>4. QED BY <1>2, <1>3

LEMMA OrderInit ==
    ASSUME Init
    PROVE  OrderInv
<1>1. SlotInv /\ CountInv
  BY SlotsInit, CountInit
<1>2. Queued = {} /\ DOMAIN mc_latest = {} /\ hand = NoEvent
  BY DEF Init, Queued, Window
<1>3. \A c \in Channels : Seen[c] = 0 /\ Pub[c[1]] = 0
  BY <1>2, NoneIsNoChannel DEF Init, Seen, Pub, Nothing, Channels
<1>4. Bounded /\ SlotsAhead /\ RingSorted /\ RingUnseen
  BY <1>2, <1>3 DEF Bounded, SlotsAhead, RingSorted, RingUnseen
<1>5. RingHoldsNewest
  <2> SUFFICES ASSUME NEW t \in PlainTopics
               PROVE  {mc_queue[i].data : i \in QueuedOf(t)} =
                        (0 - Cardinality(QueuedOf(t)) + 1) .. 0
    BY PlainAreTopics DEF RingHoldsNewest, Init
  <2>1. QueuedOf(t) = {}
    BY <1>2 DEF QueuedOf
  <2>2. Cardinality(QueuedOf(t)) = 0
    BY <2>1, FS_EmptySet
  <2>3. QED BY <2>1, <2>2
<1>6. QED BY <1>1, <1>4, <1>5 DEF OrderInv, RingFine

(* A ring topic loses its oldest events and never a newer one, for every    *)
(* length of the ring and every mix of topics that overflows it: what waits *)
(* of a topic of MsgCenter_Publish are its last publications, without gap.  *)
THEOREM RingNewestHolds ==
    ASSUME MaxPublish < CounterModulus
    PROVE  Spec => []RingHoldsNewest
<1>1. Init => OrderInv
  BY OrderInit
<1>2. OrderInv /\ [Next]_vars => OrderInv'
  BY OrderStep
<1>3. OrderInv => RingHoldsNewest
  BY DEF OrderInv, RingFine
<1>4. QED BY <1>1, <1>2, <1>3, PTL DEF Spec

----------------------------------------------------------------------------
(* What waited in the slots when the dispatch began has been served up to  *)
(* the slot that dispatch_latest has reached.                              *)

Unserved ==
    [phase \in Phase |-> {i \in DOMAIN mc_latest :
        mc_latest[i].phase = phase /\ ~(atStart[ChanOf(i)] <= Seen[ChanOf(i)])}]

(* What waited at the start is still in its slot, or something newer is. *)
StartHeld ==
    \A c \in Channels : atStart[c] # 0 =>
        \E i \in DOMAIN mc_latest : ChanOf(i) = c /\ atStart[c] <= mc_latest[i].data

Served ==
    /\ StartHeld
    /\ dispatcher.step = "idle" => dispatcher.slot = 1
    /\ dispatcher.step = "state" => \A i \in Unserved["STATE"] : dispatcher.slot <= i
    /\ dispatcher.step \in {"queue", "control", "hooks"} => Unserved["STATE"] = {}
    /\ dispatcher.step = "control" => \A i \in Unserved["CONTROL"] : dispatcher.slot <= i
    /\ dispatcher.step = "hooks" => Unserved["CONTROL"] = {}

ServedInv == OrderInv /\ Served

LEMMA StartType ==
    ASSUME TypeInv, NEW c \in Channels
    PROVE  atStart[c] \in Nat
BY SizeAssumption DEF TypeInv, TypeOK

(* During a dispatch slots only become more served. *)
LEMMA ServedKept ==
    ASSUME OrderInv, StartHeld, OrderInv', SlotsKept, Onward, atStart' = atStart
    PROVE  /\ StartHeld'
           /\ \A phase \in Phase : Unserved'[phase] \subseteq Unserved[phase]
<1>1. /\ TypeInv /\ TypeInv' /\ OneSlotEach'
      /\ Seen \in [Channels -> Nat] /\ Seen' \in [Channels -> Nat]
      /\ \A c \in Channels : Seen[c] <= Seen'[c] /\ atStart[c] \in Nat
  <2>1. TypeInv /\ TypeInv' /\ OneSlotEach'
    BY DEF OrderInv, SlotInv, SlotsFine
  <2>2. QED BY <2>1, SeenType, SeenTypeNext, StartType DEF Onward
<1>2. ASSUME NEW i \in DOMAIN mc_latest
      PROVE  /\ i \in DOMAIN mc_latest' /\ ChannelOf(mc_latest'[i]) = ChanOf(i)
             /\ mc_latest'[i].phase = mc_latest[i].phase
             /\ mc_latest[i].data <= mc_latest'[i].data
             /\ mc_latest[i].data \in Nat /\ ChanOf(i) \in Channels
  BY <1>1, SlotType DEF SlotsKept, Onward
<1>3. \A i \in DOMAIN mc_latest' : mc_latest'[i].data \in Nat
         /\ ChannelOf(mc_latest'[i]) \in Channels
  <2> SUFFICES ASSUME NEW i \in DOMAIN mc_latest'
               PROVE  mc_latest'[i].data \in Nat /\ ChannelOf(mc_latest'[i]) \in Channels
    OBVIOUS
  <2>1. mc_latest' \in Seq(Slot)
    BY <1>1 DEF TypeInv, TypeOK
  <2>2. mc_latest'[i] \in Slot
    BY <2>1
  <2>3. QED BY <2>2, SizeAssumption DEF Slot, ChannelOf, Channels
<1>4. StartHeld'
  <2> SUFFICES ASSUME NEW c \in Channels, atStart[c] # 0
               PROVE  \E i \in DOMAIN mc_latest' :
                         ChannelOf(mc_latest'[i]) = c /\ atStart[c] <= mc_latest'[i].data
    BY DEF StartHeld, ChanOf
  <2>1. PICK i \in DOMAIN mc_latest : ChanOf(i) = c /\ atStart[c] <= mc_latest[i].data
    BY DEF StartHeld
  <2>2. atStart[c] <= mc_latest'[i].data
    BY <1>1, <1>2, <1>3, <2>1
  <2>3. QED BY <1>2, <2>1, <2>2
<1>5. ASSUME NEW phase \in Phase, NEW i \in DOMAIN mc_latest', mc_latest'[i].phase = phase,
             NEW c \in Channels, c = ChannelOf(mc_latest'[i]), ~(atStart[c] <= Seen'[c])
      PROVE  i \in Unserved[phase]
  <2>1. CASE i \in DOMAIN mc_latest
    <3>1. c = ChanOf(i) /\ mc_latest[i].phase = phase
      BY <1>2, <1>5, <2>1
    <3>2. ~(atStart[c] <= Seen[c])
      BY <1>1, <1>5
    <3>3. QED BY <2>1, <3>1, <3>2 DEF Unserved
  <2>2. CASE i \notin DOMAIN mc_latest
    <3>1. atStart[c] # 0
      BY <1>1, <1>5
    <3>2. PICK j \in DOMAIN mc_latest : ChanOf(j) = c
      BY <3>1 DEF StartHeld
    <3>3. j \in DOMAIN mc_latest' /\ ChannelOf(mc_latest'[j]) = ChannelOf(mc_latest'[i])
      BY <1>2, <1>5, <3>2
    <3>4. i = j
      BY <1>1, <1>5, <3>3 DEF OneSlotEach, ChanOf
    <3>5. QED BY <2>2, <3>4
  <2>3. QED BY <2>1, <2>2
<1>6. \A phase \in Phase : Unserved'[phase] \subseteq Unserved[phase]
  BY <1>3, <1>5 DEF Unserved, ChanOf
<1>7. QED BY <1>4, <1>6

(* The slot that dispatch_latest has just visited is served. *)
LEMMA VisitedServed ==
    ASSUME ServedInv, OrderInv', Onward, NEW phase \in Phase, TakeLatest(phase),
           dispatcher.slot \in DOMAIN mc_latest, mc_latest[dispatcher.slot].phase = phase
    PROVE  atStart[ChanOf(dispatcher.slot)] <= Seen'[ChanOf(dispatcher.slot)]
<1>1. PICK i \in DOMAIN mc_latest : i = dispatcher.slot
  OBVIOUS
<1>2. /\ ChanOf(i) \in Channels /\ mc_latest[i].data \in Nat
      /\ atStart[ChanOf(i)] \in Nat /\ Seen \in [Channels -> Nat]
      /\ Seen[ChanOf(i)] <= Seen'[ChanOf(i)]
  BY SlotType, StartType, SeenType DEF ServedInv, OrderInv, SlotInv, Onward
<1>3. atStart[ChanOf(i)] # 0 => atStart[ChanOf(i)] <= mc_latest[i].data
  BY <1>2 DEF ServedInv, Served, StartHeld, OrderInv, SlotInv, SlotsFine, OneSlotEach
<1>4. CASE TookSlot(i)
  <2>1. Pub' = Pub /\ UNCHANGED <<queueVars, mc_latest_topic, received>>
    BY SamePub DEF TakeLatest
  <2>2. Seen'[ChanOf(i)] = mc_latest[i].data
    BY <1>4, <2>1, TookOrder DEF ServedInv
  <2>3. QED BY <1>1, <1>2, <1>3, <2>2
<1>5. CASE ~mc_latest[i].pending
  <2>1. mc_latest[i].data = 0 \/ Rcv(ChanOf(i)) = mc_latest[i].data
    BY <1>5 DEF ServedInv, OrderInv, SlotInv, SlotsFine, NewestHeld
  <2>2. Rcv(ChanOf(i)) = Seen[ChanOf(i)]
    BY <1>2 DEF Rcv, Seen
  <2>3. Seen'[ChanOf(i)] \in Int
    <3>1. TypeInv'
      BY DEF OrderInv, SlotInv
    <3>2. QED BY <1>2, <3>1, SeenTypeNext
  <2>4. QED BY <1>1, <1>2, <1>3, <2>1, <2>2, <2>3
<1>6. QED BY <1>1, <1>4, <1>5, TakeLatestTakes DEF ServedInv, OrderInv, SlotInv

LEMMA UnservedType ==
    ASSUME TypeInv, NEW phase \in Phase, NEW i \in Unserved[phase]
    PROVE  i \in Nat \ {0} /\ i <= LatestCapacity /\ i \in DOMAIN mc_latest
BY SlotTypes DEF Unserved

LEMMA BeginServed ==
    ASSUME ServedInv, BeginDispatch
    PROVE  Served'
<1>1. /\ dispatcher.step = "idle" /\ dispatcher.slot = 1 /\ mc_latest' = mc_latest
      /\ dispatcher' = [dispatcher EXCEPT !.step = "state"]
      /\ atStart' = WaitingInSlots /\ dispatcher \in Dispatcher
  BY DEF BeginDispatch, ServedInv, Served, latestVars, OrderInv, SlotInv, TypeInv, TypeOK
<1>2. dispatcher'.step = "state" /\ dispatcher'.slot = 1
  BY <1>1 DEF Dispatcher
<1>3. \A i \in Unserved'["STATE"] : 1 <= i
  <2>1. \A i \in DOMAIN mc_latest' : 1 <= i
    BY <1>1, SlotTypes DEF ServedInv, OrderInv, SlotInv
  <2>2. QED BY <2>1 DEF Unserved, Phase
<1>4. StartHeld'
  <2> SUFFICES ASSUME NEW c \in Channels, WaitingInSlots[c] # 0
               PROVE  \E i \in DOMAIN mc_latest :
                         ChanOf(i) = c /\ WaitingInSlots[c] <= mc_latest[i].data
    BY <1>1 DEF StartHeld, ChanOf
  <2>1. \E i \in DOMAIN mc_latest : ChannelOf(mc_latest[i]) = c
    BY DEF WaitingInSlots
  <2> DEFINE i == CHOOSE i \in DOMAIN mc_latest : ChannelOf(mc_latest[i]) = c
  <2>2. i \in DOMAIN mc_latest /\ ChannelOf(mc_latest[i]) = c
    BY <2>1
  <2>3. WaitingInSlots[c] = mc_latest[i].data
    BY DEF WaitingInSlots
  <2> HIDE DEF i
  <2>4. mc_latest[i].data \in Nat
    BY <2>2, SlotType DEF ServedInv, OrderInv, SlotInv
  <2>5. QED BY <2>2, <2>3, <2>4 DEF ChanOf
<1>5. QED BY <1>2, <1>3, <1>4 DEF Served

LEMMA TakeLatestServed ==
    ASSUME ServedInv, OrderInv', SlotsKept, Onward, NEW phase \in Phase, TakeLatest(phase)
    PROVE  Served'
<1> DEFINE i == dispatcher.slot
<1>1. /\ dispatcher'.step = dispatcher.step /\ dispatcher.step = SlotStep(phase)
      /\ dispatcher'.slot = i + 1 /\ i \in Nat /\ atStart' = atStart
  BY SizeAssumption
     DEF TakeLatest, Dispatcher, ServedInv, OrderInv, SlotInv, TypeInv, TypeOK
<1>2. StartHeld' /\ \A p \in Phase : Unserved'[p] \subseteq Unserved[p]
  BY <1>1, ServedKept DEF ServedInv, Served
<1>3. i \notin Unserved'[phase]
  <2> SUFFICES ASSUME i \in Unserved'[phase] PROVE FALSE
    OBVIOUS
  <2>1. i \in Unserved[phase] /\ i \in DOMAIN mc_latest /\ mc_latest[i].phase = phase
    BY <1>2 DEF Unserved
  <2>2. ChannelOf(mc_latest'[i]) = ChanOf(i)
    BY <2>1 DEF SlotsKept
  <2>3. atStart[ChanOf(i)] <= Seen'[ChanOf(i)]
    BY <2>1, VisitedServed
  <2> HIDE DEF i
  <2>4. ~(atStart[ChannelOf(mc_latest'[i])] <= Seen'[ChannelOf(mc_latest'[i])])
    BY <1>1 DEF Unserved, ChanOf
  <2>5. QED BY <2>2, <2>3, <2>4
<1>4. \A j \in Unserved'[phase] : i + 1 <= j
  <2> SUFFICES ASSUME NEW j \in Unserved'[phase] PROVE i + 1 <= j
    OBVIOUS
  <2>1. j \in Unserved[phase] /\ j \in Nat
    BY <1>2, UnservedType DEF ServedInv, OrderInv, SlotInv
  <2>2. i <= j
    BY <1>1, <2>1 DEF ServedInv, Served, SlotStep, Phase
  <2>3. QED BY <1>1, <1>3, <2>1, <2>2
<1> HIDE DEF i
<1>5. CASE phase = "STATE"
  BY <1>1, <1>2, <1>4, <1>5 DEF Served, SlotStep
<1>6. CASE phase = "CONTROL"
  <2>1. dispatcher'.step = "control" /\ dispatcher.step = "control"
    BY <1>1, <1>6 DEF SlotStep
  <2>2. Unserved'["STATE"] = {}
    BY <1>2, <2>1 DEF ServedInv, Served, Phase
  <2>3. QED BY <1>1, <1>2, <1>4, <1>6, <2>1, <2>2 DEF Served
<1>7. QED BY <1>5, <1>6 DEF Phase

LEMMA EndLatestServed ==
    ASSUME ServedInv, OrderInv', SlotsKept, Onward, NEW phase \in Phase, EndLatest(phase)
    PROVE  Served'
<1>1. /\ dispatcher.step = SlotStep(phase) /\ dispatcher'.step = StepAfter(phase)
      /\ dispatcher.slot > LatestCapacity /\ dispatcher.slot \in Nat
      /\ atStart' = atStart
  BY SizeAssumption
     DEF EndLatest, Dispatcher, ServedInv, OrderInv, SlotInv, TypeInv, TypeOK
<1>2. StartHeld' /\ \A p \in Phase : Unserved'[p] \subseteq Unserved[p]
  BY <1>1, ServedKept DEF ServedInv, Served
<1>3. Unserved[phase] = {}
  <2> SUFFICES ASSUME NEW j \in Unserved[phase] PROVE FALSE
    OBVIOUS
  <2>1. j \in Nat /\ j <= LatestCapacity
    BY UnservedType DEF ServedInv, OrderInv, SlotInv
  <2>2. dispatcher.slot <= j
    BY <1>1 DEF ServedInv, Served, SlotStep, Phase
  <2>3. QED BY <1>1, <2>1, <2>2, SizeAssumption
<1>4. phase = "CONTROL" => Unserved["STATE"] = {}
  BY <1>1 DEF ServedInv, Served, SlotStep, Phase
<1>5. dispatcher'.step = IF phase = "STATE" THEN "queue" ELSE "hooks"
  BY <1>1 DEF StepAfter
<1>6. Unserved'[phase] = {} /\ (phase = "CONTROL" => Unserved'["STATE"] = {})
  BY <1>2, <1>3, <1>4 DEF Phase
<1>7. QED BY <1>2, <1>5, <1>6 DEF Served, Phase

(* Steps that leave the dispatcher where it is. *)
LEMMA StandingServed ==
    ASSUME ServedInv, OrderInv', SlotsKept, Onward, atStart' = atStart,
           dispatcher'.step = dispatcher.step, dispatcher'.slot = dispatcher.slot
    PROVE  Served'
<1>1. StartHeld' /\ \A p \in Phase : Unserved'[p] \subseteq Unserved[p]
  BY ServedKept DEF ServedInv, Served
<1>2. "STATE" \in Phase /\ "CONTROL" \in Phase
  BY DEF Phase
<1>3. QED BY <1>1, <1>2 DEF ServedInv, Served

LEMMA ServedStep ==
    ASSUME MaxPublish < CounterModulus, ServedInv, [Next]_vars
    PROVE  ServedInv'
<1>1. OrderInv' /\ Onward /\ SlotsKept
  BY OrderStep, SlotsStep DEF ServedInv, OrderInv
<1> SUFFICES Served'
  BY <1>1 DEF ServedInv
<1>2. ASSUME UNCHANGED dispatchVars
      PROVE  Served'
  BY <1>1, <1>2, StandingServed DEF dispatchVars
<1>3. CASE UNCHANGED vars
  BY <1>2, <1>3 DEF vars, dispatchVars
<1>4. CASE \E t \in PlainTopics : Publish(t)
  BY <1>2, <1>4 DEF Publish, PublishToSlot, PublishToQueue
<1>5. CASE \E u \in KeyedUse : PublishLatest(u.topic, u.key, u.phase)
  BY <1>2, <1>5 DEF PublishLatest
<1>6. CASE \E u \in TopicUse : UseLatest(u.topic, u.phase)
  BY <1>2, <1>6 DEF UseLatest
<1>7. CASE BeginDispatch
  BY <1>7, BeginServed
<1>8. CASE \E phase \in Phase : TakeLatest(phase)
  BY <1>1, <1>8, TakeLatestServed
<1>9. CASE \E phase \in Phase : EndLatest(phase)
  BY <1>1, <1>9, EndLatestServed
<1>10. CASE TakeQueued
  <2>1. dispatcher'.step = dispatcher.step /\ dispatcher'.slot = dispatcher.slot
    BY <1>10 DEF TakeQueued, CountProcessed, Dispatcher, ServedInv, OrderInv, SlotInv,
                 TypeInv, TypeOK
  <2>2. QED BY <1>1, <1>10, <2>1, StandingServed DEF TakeQueued
<1>11. CASE EndQueue
  <2>1. dispatcher'.step = "control" /\ dispatcher'.slot = 1 /\ atStart' = atStart
        /\ dispatcher.step = "queue"
    BY <1>11 DEF EndQueue, StepAfterQueue
  <2>2. StartHeld' /\ \A p \in Phase : Unserved'[p] \subseteq Unserved[p]
    BY <1>1, <2>1, ServedKept DEF ServedInv, Served
  <2>3. Unserved'["STATE"] = {}
    BY <2>1, <2>2 DEF ServedInv, Served, Phase
  <2>4. \A i \in Unserved'["CONTROL"] : 1 <= i
    BY <2>2, UnservedType DEF ServedInv, OrderInv, SlotInv, Phase
  <2>5. QED BY <2>1, <2>2, <2>3, <2>4 DEF Served
<1>12. CASE Deliver
  BY <1>1, <1>12, StandingServed DEF Deliver
<1>13. CASE RunHooks
  BY <1>13 DEF RunHooks, Idle, Nothing, Served, StartHeld
<1>14. QED
  BY <1>3, <1>4, <1>5, <1>6, <1>7, <1>8, <1>9, <1>10, <1>11, <1>12, <1>13
     DEF Next, Dispatch

LEMMA ServedInit ==
    ASSUME Init
    PROVE  ServedInv
BY OrderInit DEF Init, ServedInv, Served, StartHeld, Nothing, Idle

(* No slot of a phase is behind: the subscribers have what waited, or will *)
(* have it when the value in hand is delivered.                            *)
LEMMA ServedReceived ==
    ASSUME ServedInv, NEW phase \in Phase, Unserved[phase] = {},
           hand = NoEvent \/ \E j \in DOMAIN mc_latest :
                mc_latest[j].phase # phase /\ ChanOf(j) = ChannelOf(hand)
    PROVE  ServedSinceStart(phase)
<1> SUFFICES ASSUME NEW i \in DOMAIN mc_latest, mc_latest[i].phase = phase
             PROVE  received[ChanOf(i)] >= atStart[ChanOf(i)]
  BY DEF ServedSinceStart, ChanOf
<1>1. /\ ChanOf(i) \in Channels /\ atStart[ChanOf(i)] \in Nat
      /\ Seen \in [Channels -> Nat]
  BY SlotType, StartType, SeenType DEF ServedInv, OrderInv, SlotInv
<1>2. atStart[ChanOf(i)] <= Seen[ChanOf(i)]
  BY DEF Unserved
<1>3. ChannelOf(hand) # ChanOf(i)
  BY <1>1, NoneIsNoChannel DEF ServedInv, OrderInv, SlotInv, SlotsFine, OneSlotEach
<1>4. Seen[ChanOf(i)] = received[ChanOf(i)]
  BY <1>1, <1>3 DEF Seen
<1>5. QED BY <1>1, <1>2, <1>4

(* Commands are acted on after the states that waited when the dispatch     *)
(* began, and the transmission hooks run after both, whatever publishes     *)
(* between two critical sections of MsgCenter_Dispatch.                     *)
THEOREM ControlAfterStateHolds ==
    ASSUME MaxPublish < CounterModulus
    PROVE  Spec => []ControlAfterState
<1>1. Init => ServedInv
  BY ServedInit
<1>2. ServedInv /\ [Next]_vars => ServedInv'
  BY ServedStep
<1>3. ServedInv => ControlAfterState
  <2> SUFFICES ASSUME ServedInv PROVE ControlAfterState
    OBVIOUS
  <2>1. HandSound
    BY DEF ServedInv, OrderInv, SlotInv, SlotsFine
  <2>2. dispatcher.step = "control" /\ hand # NoEvent => ServedSinceStart("STATE")
    BY <2>1, ServedReceived DEF ServedInv, Served, HandSound, Phase
  <2>3. dispatcher.step = "hooks" => ServedSinceStart("STATE")
                                     /\ ServedSinceStart("CONTROL")
    BY <2>1, ServedReceived DEF ServedInv, Served, HandSound, Phase
  <2>4. QED BY <2>2, <2>3 DEF ControlAfterState
<1>4. QED BY <1>1, <1>2, <1>3, PTL DEF Spec

----------------------------------------------------------------------------
(* The message center implements MessageBus, while no counter wraps.       *)

RingData == [t \in PlainTopics |-> {mc_queue[i].data : i \in QueuedOf(t)}]

(* What the users of the bus see of a channel with a slot, and of one      *)
(* without.                                                                *)
SlotView ==
    \A i \in DOMAIN mc_latest :
        /\ Waiting[ChanOf(i)] = IF mc_latest[i].pending THEN {mc_latest[i].data}
                                                        ELSE {}
        /\ LatestOnly[ChanOf(i)] = TRUE
        /\ Newest[ChanOf(i)] = IF mc_latest[i].topic \in PlainTopics
                               THEN Pub[mc_latest[i].topic] ELSE mc_latest[i].data

RingView ==
    \A c \in Channels : (\A i \in DOMAIN mc_latest : ChanOf(i) # c) =>
        /\ Waiting[c] = IF c[1] \in PlainTopics /\ c[2] = Key0
                        THEN RingData[c[1]] ELSE {}
        /\ LatestOnly[c] = ~(c[1] \in PlainTopics /\ c[2] = Key0)
        /\ Newest[c] = IF c[1] \in PlainTopics /\ c[2] = Key0 THEN Pub[c[1]] ELSE 0

BusTypes ==
    /\ Waiting = [c \in Channels |-> Waiting[c]]
    /\ Newest = [c \in Channels |-> Newest[c]]
    /\ LatestOnly = [c \in Channels |-> LatestOnly[c]]
    /\ Seen = [c \in Channels |-> Seen[c]]

LEMMA BusTypesHold == BusTypes
BY DEF BusTypes, Waiting, Newest, LatestOnly, Seen

LEMMA BusTypesNext == BusTypes'
BY BusTypesHold, PTL

LEMMA SameFunction ==
    ASSUME NEW S, NEW f, NEW g, f = [x \in S |-> f[x]], g = [x \in S |-> g[x]],
           \A x \in S : f[x] = g[x]
    PROVE  f = g
OBVIOUS

LEMMA SlotViewHolds ==
    ASSUME SlotInv
    PROVE  SlotView
<1> SUFFICES ASSUME NEW i \in DOMAIN mc_latest
             PROVE  /\ Waiting[ChanOf(i)] =
                         IF mc_latest[i].pending THEN {mc_latest[i].data} ELSE {}
                    /\ LatestOnly[ChanOf(i)] = TRUE
                    /\ Newest[ChanOf(i)] =
                         IF mc_latest[i].topic \in PlainTopics
                         THEN Pub[mc_latest[i].topic] ELSE mc_latest[i].data
  BY DEF SlotView
<1> DEFINE c == ChanOf(i)
<1>1. /\ c \in Channels /\ mc_latest[i] \in Slot /\ i # 0
      /\ mc_latest[i].topic \in Topics
      /\ c[1] = mc_latest[i].topic /\ c[2] = mc_latest[i].key
  BY SlotTypes DEF SlotInv, ChanOf, ChannelOf, Slot
<1>2. \A j \in DOMAIN mc_latest : ChannelOf(mc_latest[j]) = c <=> j = i
  BY DEF SlotInv, SlotsFine, OneSlotEach, ChanOf
<1>3. mc_latest[i].topic \in PlainTopics =>
         mc_latest[i].key = Key0 /\ mc_latest_topic[mc_latest[i].topic] = i
  BY DEF SlotInv, SlotsFine, SwitchedSlots
<1> HIDE DEF c
<1>4. SlotPending(c) = IF mc_latest[i].pending THEN {mc_latest[i].data} ELSE {}
  <2>1. {j \in DOMAIN mc_latest : mc_latest[j].pending /\ ChannelOf(mc_latest[j]) = c} =
          IF mc_latest[i].pending THEN {i} ELSE {}
    BY <1>2
  <2>2. QED BY <2>1 DEF SlotPending
<1>5. RingWaiting(c) = {}
  <2>1. ASSUME NEW j \in Queued, ChannelOf(mc_queue[j]) = c
        PROVE  Obsolete(mc_queue[j])
    <3>1. mc_queue[j].topic \in PlainTopics /\ mc_queue[j].topic = mc_latest[i].topic
      BY <1>1, <2>1, RingType DEF SlotInv, ChannelOf
    <3>2. QED BY <1>1, <1>3, <3>1 DEF Obsolete
  <2>2. QED BY <2>1 DEF RingWaiting
<1>6. Waiting[c] = IF mc_latest[i].pending THEN {mc_latest[i].data} ELSE {}
  BY <1>1, <1>4, <1>5 DEF Waiting
<1>7. LatestOnly[c] = TRUE
  BY <1>1, <1>3 DEF LatestOnly, PlainChannel
<1>8. SlotData(c) = mc_latest[i].data
  BY <1>2 DEF SlotData
<1>9. Newest[c] = IF mc_latest[i].topic \in PlainTopics
                  THEN Pub[mc_latest[i].topic] ELSE mc_latest[i].data
  BY <1>1, <1>3, <1>8 DEF Newest, PlainChannel, Pub
<1>10. QED BY <1>6, <1>7, <1>9 DEF c

LEMMA RingViewHolds ==
    ASSUME SlotInv
    PROVE  RingView
<1> SUFFICES ASSUME NEW c \in Channels, \A i \in DOMAIN mc_latest : ChanOf(i) # c
             PROVE  /\ Waiting[c] = IF c[1] \in PlainTopics /\ c[2] = Key0
                                    THEN RingData[c[1]] ELSE {}
                    /\ LatestOnly[c] = ~(c[1] \in PlainTopics /\ c[2] = Key0)
                    /\ Newest[c] = IF c[1] \in PlainTopics /\ c[2] = Key0
                                   THEN Pub[c[1]] ELSE 0
  BY DEF RingView
<1>1. c = <<c[1], c[2]>> /\ c[1] \in Topics
  BY DEF Channels
<1>2. SlotPending(c) = {} /\ SlotData(c) = 0
  BY DEF SlotPending, SlotData, ChanOf
<1>3. c[1] \in PlainTopics /\ c[2] = Key0 => mc_latest_topic[c[1]] = 0
  <2> SUFFICES ASSUME c[1] \in PlainTopics, c[2] = Key0, mc_latest_topic[c[1]] # 0
               PROVE  FALSE
    OBVIOUS
  <2>1. ChanOf(mc_latest_topic[c[1]]) = c
    BY <1>1 DEF SlotInv, SlotsFine, SwitchedSlots
  <2>2. mc_latest_topic[c[1]] \in DOMAIN mc_latest
    BY <1>1 DEF SlotInv, TypeInv, TypeOK
  <2>3. QED BY <2>1, <2>2
<1>4. ASSUME NEW j \in Queued
      PROVE  ChannelOf(mc_queue[j]) = c <=> c[1] = mc_queue[j].topic /\ c[2] = Key0
  BY <1>1, RingType DEF SlotInv
<1>5. c[1] \in PlainTopics /\ c[2] = Key0 => RingWaiting(c) = RingData[c[1]]
  <2> SUFFICES ASSUME c[1] \in PlainTopics, c[2] = Key0
               PROVE  RingWaiting(c) = RingData[c[1]]
    OBVIOUS
  <2>1. {j \in Queued : ChannelOf(mc_queue[j]) = c /\ ~Obsolete(mc_queue[j])} = QueuedOf(c[1])
    BY <1>3, <1>4 DEF QueuedOf, Obsolete
  <2>2. QED BY <2>1 DEF RingWaiting, RingData
<1>6. ~(c[1] \in PlainTopics /\ c[2] = Key0) => RingWaiting(c) = {}
  <2>1. \A j \in Queued : mc_queue[j].topic \in PlainTopics
    BY RingType DEF SlotInv
  <2>2. QED BY <1>4, <2>1 DEF RingWaiting
<1>7. Waiting[c] = IF c[1] \in PlainTopics /\ c[2] = Key0 THEN RingData[c[1]] ELSE {}
  BY <1>2, <1>5, <1>6 DEF Waiting
<1>8. LatestOnly[c] = ~(c[1] \in PlainTopics /\ c[2] = Key0)
  BY <1>3 DEF LatestOnly, PlainChannel
<1>9. Newest[c] = IF c[1] \in PlainTopics /\ c[2] = Key0 THEN Pub[c[1]] ELSE 0
  BY <1>1, <1>2 DEF Newest, PlainChannel, Pub
<1>10. QED BY <1>7, <1>8, <1>9

LEMMA ViewNext == (SlotInv => SlotView /\ RingView)'
<1>1. SlotInv => SlotView /\ RingView
  BY SlotViewHolds, RingViewHolds
<1>2. QED BY <1>1, PTL

(* Steps that the users of the bus do not see. *)
LEMMA StutterOnBus ==
    ASSUME UNCHANGED <<queueVars, latestVars>>, Pub' = Pub, Seen' = Seen
    PROVE  UNCHANGED <<Newest, Waiting, Seen, LatestOnly>>
<1>1. mc_latest' = mc_latest /\ mc_latest_topic' = mc_latest_topic
      /\ mc_queue' = mc_queue /\ Queued' = Queued
  BY DEF latestVars, queueVars, Queued
<1>2. \A t \in Topics : mc_diagnostics'[t].published = mc_diagnostics[t].published
  BY DEF Pub
<1>3. Newest' = Newest
  BY <1>1, <1>2, PlainAreTopics DEF Newest, PlainChannel, SlotData
<1>4. Waiting' = Waiting
  BY <1>1 DEF Waiting, SlotPending, RingWaiting, Obsolete
<1>5. LatestOnly' = LatestOnly
  BY <1>1 DEF LatestOnly
<1>6. QED BY <1>3, <1>4, <1>5

(* A step that publishes on the channel c, in terms of each channel. *)
PublishesOn(c) ==
    /\ c \in Channels /\ Newest'[c] > Newest[c]
    /\ \A d \in Channels : d # c => Newest'[d] = Newest[d]
    /\ Seen' = Seen /\ LatestOnly' = LatestOnly

LEMMA PublishLatestOnBus ==
    ASSUME NEW c, PublishesOn(c), LatestOnly[c], Waiting'[c] = {Newest'[c]},
           \A d \in Channels : d # c => Waiting'[d] = Waiting[d]
    PROVE  Bus!Publish(c)
<1>1. /\ Newest = [d \in Channels |-> Newest[d]] /\ Newest' = [d \in Channels |-> Newest'[d]]
      /\ Waiting = [d \in Channels |-> Waiting[d]] /\ Waiting' = [d \in Channels |-> Waiting'[d]]
  BY BusTypesHold, BusTypesNext DEF BusTypes
<1>2. Newest' = [Newest EXCEPT ![c] = Newest'[c]]
  BY <1>1 DEF PublishesOn
<1>3. Waiting' = [Waiting EXCEPT ![c] = {Newest'[c]}]
  BY <1>1 DEF PublishesOn
<1>4. QED BY <1>2, <1>3 DEF PublishesOn, Bus!Publish

LEMMA PublishEventOnBus ==
    ASSUME NEW c, PublishesOn(c), ~LatestOnly[c],
           \A d \in Channels :
              Waiting'[d] = IF d = c THEN Waiting[d] \cup {Newest'[d]} ELSE Waiting[d]
    PROVE  Bus!Publish(c)
<1>1. /\ Newest = [d \in Channels |-> Newest[d]] /\ Newest' = [d \in Channels |-> Newest'[d]]
      /\ Waiting = [d \in Channels |-> Waiting[d]] /\ Waiting' = [d \in Channels |-> Waiting'[d]]
  BY BusTypesHold, BusTypesNext DEF BusTypes
<1>2. Newest' = [Newest EXCEPT ![c] = Newest'[c]]
  BY <1>1 DEF PublishesOn
<1>3. Waiting' = [Waiting EXCEPT ![c] = Waiting[c] \cup {Newest'[c]}]
  BY <1>1 DEF PublishesOn
<1>4. QED BY <1>2, <1>3 DEF PublishesOn, Bus!Publish

LEMMA OverwriteOnBus ==
    ASSUME NEW c, PublishesOn(c), ~LatestOnly[c], NEW d \in Channels, ~LatestOnly[d],
           NEW n \in Waiting[d], \A m \in Waiting[d] : n <= m,
           \A e \in Channels :
              Waiting'[e] = (IF e = d THEN Waiting[e] \ {n} ELSE Waiting[e])
                              \cup (IF e = c THEN {Newest'[e]} ELSE {})
    PROVE  Bus!Publish(c)
<1>1. /\ Newest = [e \in Channels |-> Newest[e]] /\ Newest' = [e \in Channels |-> Newest'[e]]
      /\ Waiting = [e \in Channels |-> Waiting[e]] /\ Waiting' = [e \in Channels |-> Waiting'[e]]
  BY BusTypesHold, BusTypesNext DEF BusTypes
<1>2. Newest' = [Newest EXCEPT ![c] = Newest'[c]]
  BY <1>1 DEF PublishesOn
<1> DEFINE less == [Waiting EXCEPT ![d] = Waiting[d] \ {n}]
           more == [less EXCEPT ![c] = less[c] \cup {Newest'[c]}]
<1>3. /\ less = [e \in Channels |-> less[e]]
      /\ \A e \in Channels : less[e] = IF e = d THEN Waiting[e] \ {n} ELSE Waiting[e]
  BY <1>1
<1> HIDE DEF less
<1>4. /\ more = [e \in Channels |-> more[e]]
      /\ \A e \in Channels : more[e] = IF e = c THEN less[e] \cup {Newest'[e]} ELSE less[e]
  BY <1>3 DEF PublishesOn
<1> HIDE DEF more
<1>5. \A e \in Channels : Waiting'[e] = more[e]
  <2> SUFFICES ASSUME NEW e \in Channels PROVE Waiting'[e] = more[e]
    OBVIOUS
  <2>1. CASE e = c
    BY <1>3, <1>4, <2>1
  <2>2. CASE e # c
    <3>1. Waiting'[e] = less[e] \cup {}
      BY <1>3, <2>2
    <3>2. more[e] = less[e]
      BY <1>4, <2>2
    <3>3. QED BY <3>1, <3>2
  <2>3. QED BY <2>1, <2>2
<1>6. Waiting' = more
  BY <1>1, <1>4, <1>5, SameFunction
<1>7. Bus!IsOldest(n, Waiting[d])
  BY DEF Bus!IsOldest
<1>8. QED BY <1>2, <1>6, <1>7 DEF PublishesOn, Bus!Publish, more, less

LEMMA DeliverOnBus ==
    ASSUME NEW c \in Channels, Newest' = Newest, LatestOnly' = LatestOnly,
           NEW n \in Waiting[c], \A m \in Waiting[c] : n <= m, Seen[c] < n,
           \A d \in Channels : Seen'[d] = IF d = c THEN n ELSE Seen[d],
           \A d \in Channels :
              Waiting'[d] = IF d = c THEN Waiting[d] \ {n} ELSE Waiting[d],
           Seen[c] \in Nat, n \in Nat
    PROVE  Bus!Deliver(c)
<1>1. /\ Seen = [d \in Channels |-> Seen[d]] /\ Seen' = [d \in Channels |-> Seen'[d]]
      /\ Waiting = [d \in Channels |-> Waiting[d]] /\ Waiting' = [d \in Channels |-> Waiting'[d]]
  BY BusTypesHold, BusTypesNext DEF BusTypes
<1>2. Seen'[c] = n /\ Seen' = [Seen EXCEPT ![c] = Seen'[c]]
  BY <1>1
<1>3. Waiting' = [Waiting EXCEPT ![c] = Waiting[c] \ {Seen'[c]}]
  BY <1>1, <1>2
<1>4. Bus!IsOldest(Seen'[c], Waiting[c])
  BY <1>2 DEF Bus!IsOldest
<1>5. QED BY <1>2, <1>3, <1>4 DEF Bus!Deliver

LEMMA SwitchOnBus ==
    ASSUME NEW c \in Channels, Newest' = Newest, Seen' = Seen, ~LatestOnly[c],
           \A d \in Channels : LatestOnly'[d] = IF d = c THEN TRUE ELSE LatestOnly[d],
           \A d \in Channels : Waiting'[d] = IF d = c THEN {} ELSE Waiting[d]
    PROVE  Bus!BecomeLatest(c)
<1>1. /\ LatestOnly = [d \in Channels |-> LatestOnly[d]]
      /\ LatestOnly' = [d \in Channels |-> LatestOnly'[d]]
      /\ Waiting = [d \in Channels |-> Waiting[d]] /\ Waiting' = [d \in Channels |-> Waiting'[d]]
  BY BusTypesHold, BusTypesNext DEF BusTypes
<1>2. LatestOnly'[c] = TRUE /\ LatestOnly' = [LatestOnly EXCEPT ![c] = TRUE]
  BY <1>1
<1>3. Waiting' = [Waiting EXCEPT ![c] = {}]
  BY <1>1
<1>4. QED BY <1>2, <1>3 DEF Bus!BecomeLatest

LEMMA StoredOnBus ==
    ASSUME MaxPublish < CounterModulus, OrderInv, OrderInv',
           NEW i, NEW t, NEW k, StoredAt(i, t, k)
    PROVE  \E c \in Channels : Bus!Publish(c)
<1> DEFINE c == <<t, k>>
<1>1. /\ t \in Topics /\ Stamp(t) = Pub[t] + 1 /\ Pub[t] \in Nat
      /\ Pub'[t] = Pub[t] + 1 /\ \A u \in Topics : u # t => Pub'[u] = Pub[u]
  BY StampNext DEF StoredAt, OrderInv, Pub
<1>2. c \in Channels /\ ChannelOf(mc_latest'[i]) = c /\ mc_latest'[i].topic = t
      /\ mc_latest'[i].data = Pub[t] + 1 /\ mc_latest'[i].pending /\ i \in DOMAIN mc_latest'
  BY <1>1 DEF StoredAt, ChannelOf, Channels
<1>3. SlotView /\ RingView
  BY SlotViewHolds, RingViewHolds DEF OrderInv
<1>4. SlotInv'
  BY DEF OrderInv
<1>5. SlotView' /\ RingView'
  BY <1>4, ViewNext
<1>6. Seen' = Seen
  BY SameSeen DEF StoredAt, dispatchVars
<1>7. RingData' = RingData
  BY DEF RingData, QueuedOf, Queued, StoredAt, queueVars
<1>8. ASSUME t \in PlainTopics
      PROVE  i \in DOMAIN mc_latest /\ k = Key0
  BY <1>1, <1>8 DEF StoredAt, OrderInv, SlotInv, TypeInv, TypeOK
<1>9. Newest'[c] = Pub[t] + 1 /\ LatestOnly'[c] = TRUE /\ Waiting'[c] = {Pub[t] + 1}
  BY <1>1, <1>2, <1>5 DEF SlotView, ChanOf
<1>10. Newest[c] \in Nat /\ Newest[c] <= Pub[t] /\ LatestOnly[c] = TRUE
  <2>1. CASE i \in DOMAIN mc_latest
    <3>1. ChanOf(i) = c /\ mc_latest[i].topic = t /\ mc_latest[i].data \in Nat
          /\ mc_latest[i].data <= Pub[t]
      BY <2>1, SlotType DEF StoredAt, OrderInv, SlotInv, Bounded, ChanOf, ChannelOf
    <3>2. LatestOnly[c] = TRUE
      BY <1>3, <2>1, <3>1 DEF SlotView
    <3>3. Newest[c] = IF t \in PlainTopics THEN Pub[t] ELSE mc_latest[i].data
      BY <1>3, <2>1, <3>1 DEF SlotView
    <3>4. QED BY <1>1, <3>1, <3>2, <3>3
  <2>2. CASE i \notin DOMAIN mc_latest
    <3>1. \A j \in DOMAIN mc_latest : ChanOf(j) # c
      BY <2>2 DEF StoredAt
    <3>2. t \notin PlainTopics
      BY <1>8, <2>2
    <3>3. c[1] = t
      OBVIOUS
    <3>4. LatestOnly[c] = TRUE
      BY <1>2, <1>3, <3>1, <3>2, <3>3 DEF RingView
    <3>5. Newest[c] = 0
      BY <1>2, <1>3, <3>1, <3>2, <3>3 DEF RingView
    <3>6. QED BY <1>1, <3>4, <3>5
  <2>3. QED BY <2>1, <2>2
<1>11. ASSUME NEW d \in Channels, d # c
       PROVE  Newest'[d] = Newest[d] /\ LatestOnly'[d] = LatestOnly[d]
              /\ Waiting'[d] = Waiting[d]
  <2>1. CASE \E j \in DOMAIN mc_latest : ChanOf(j) = d
    <3>1. PICK j \in DOMAIN mc_latest : ChanOf(j) = d
      BY <2>1
    <3>2. j # i /\ mc_latest'[j] = mc_latest[j] /\ j \in DOMAIN mc_latest'
      BY <1>11, <3>1 DEF StoredAt
    <3>3. ChannelOf(mc_latest'[j]) = d
      BY <3>1, <3>2 DEF ChanOf
    <3>4. mc_latest[j].topic \in PlainTopics => mc_latest[j].topic # t
                                                /\ mc_latest[j].topic \in Topics
      <4> SUFFICES ASSUME mc_latest[j].topic \in PlainTopics, mc_latest[j].topic = t
                   PROVE  FALSE
        BY PlainAreTopics
      <4>1. mc_latest[j].key = Key0 /\ k = Key0
        BY <1>8 DEF OrderInv, SlotInv, SlotsFine, SwitchedSlots
      <4>2. QED BY <1>11, <3>1, <4>1 DEF ChanOf, ChannelOf
    <3>5. LatestOnly'[d] = LatestOnly[d]
      <4>1. LatestOnly[d] = TRUE
        BY <1>3, <3>1 DEF SlotView
      <4>2. LatestOnly'[d] = TRUE
        BY <1>5, <3>2, <3>3 DEF SlotView, ChanOf
      <4>3. QED BY <4>1, <4>2
    <3>6. Waiting'[d] = Waiting[d]
      <4>1. Waiting[d] = IF mc_latest[j].pending THEN {mc_latest[j].data} ELSE {}
        BY <1>3, <3>1 DEF SlotView
      <4>2. Waiting'[d] = IF mc_latest'[j].pending THEN {mc_latest'[j].data} ELSE {}
        BY <1>5, <3>2, <3>3 DEF SlotView, ChanOf
      <4>3. QED BY <3>2, <4>1, <4>2
    <3>7. Newest'[d] = Newest[d]
      <4>1. Newest[d] = IF mc_latest[j].topic \in PlainTopics
                        THEN Pub[mc_latest[j].topic] ELSE mc_latest[j].data
        BY <1>3, <3>1 DEF SlotView
      <4>2. Newest'[d] = IF mc_latest[j].topic \in PlainTopics
                         THEN Pub'[mc_latest[j].topic] ELSE mc_latest[j].data
        BY <1>5, <3>2, <3>3 DEF SlotView, ChanOf
      <4>3. QED BY <1>1, <3>4, <4>1, <4>2
    <3>8. QED BY <3>5, <3>6, <3>7
  <2>2. CASE ~\E j \in DOMAIN mc_latest : ChanOf(j) = d
    <3>1. \A j \in DOMAIN mc_latest : ChanOf(j) # d
      BY <2>2
    <3>2. \A j \in DOMAIN mc_latest' : ChannelOf(mc_latest'[j]) # d
      BY <1>2, <1>11, <3>1 DEF StoredAt, ChanOf
    <3>3. d[1] \in PlainTopics /\ d[2] = Key0 => d[1] # t /\ d[1] \in Topics
      BY <1>8, <1>11, PlainAreTopics DEF Channels
    <3>4. QED BY <1>1, <1>3, <1>5, <1>7, <3>1, <3>2, <3>3 DEF RingView, ChanOf
  <2>3. QED BY <2>1, <2>2
<1> HIDE DEF c
<1>12. LatestOnly' = LatestOnly
  <2>1. \A d \in Channels : LatestOnly'[d] = LatestOnly[d]
    BY <1>9, <1>10, <1>11
  <2>2. QED BY <2>1, BusTypesHold, BusTypesNext, SameFunction DEF BusTypes
<1>13. PublishesOn(c)
  BY <1>1, <1>2, <1>6, <1>9, <1>10, <1>11, <1>12 DEF PublishesOn
<1>14. Bus!Publish(c)
  BY <1>9, <1>10, <1>11, <1>13, PublishLatestOnBus
<1>15. QED BY <1>2, <1>14

LEMMA TookOnBus ==
    ASSUME OrderInv, OrderInv', NEW i, TookSlot(i), Pub' = Pub,
           UNCHANGED <<queueVars, mc_latest_topic, received>>
    PROVE  \E c \in Channels : Bus!Deliver(c)
<1> DEFINE c == ChanOf(i)
           n == mc_latest[i].data
<1>1. /\ i \in DOMAIN mc_latest /\ mc_latest[i].pending /\ n \in Nat /\ c \in Channels
      /\ DOMAIN mc_latest' = DOMAIN mc_latest /\ ~mc_latest'[i].pending
  BY SlotType DEF TookSlot, OrderInv, SlotInv
<1>2. SlotView /\ RingView /\ SlotView' /\ RingView'
  BY SlotViewHolds, RingViewHolds, ViewNext DEF OrderInv
<1>3. RingData' = RingData
  BY DEF RingData, QueuedOf, Queued, queueVars
<1>4. \A j \in DOMAIN mc_latest : /\ ChannelOf(mc_latest'[j]) = ChanOf(j)
                                  /\ mc_latest'[j].topic = mc_latest[j].topic
                                  /\ mc_latest'[j].data = mc_latest[j].data
                                  /\ j # i => mc_latest'[j] = mc_latest[j]
  BY DEF TookSlot, ChanOf, ChannelOf
<1>5. \A d \in Channels : Seen'[d] = IF d = c THEN n ELSE Seen[d]
  BY TakenSeen DEF TookSlot
<1>6. Seen[c] < n /\ Seen[c] \in Nat
  BY <1>1, SeenType DEF OrderInv, SlotInv, SlotsAhead
<1>7. Waiting[c] = {n} /\ Waiting'[c] = {}
  BY <1>1, <1>2, <1>4 DEF SlotView, ChanOf
<1>8. ASSUME NEW d \in Channels
      PROVE  /\ Newest'[d] = Newest[d] /\ LatestOnly'[d] = LatestOnly[d]
             /\ d # c => Waiting'[d] = Waiting[d]
  <2>1. CASE \E j \in DOMAIN mc_latest : ChanOf(j) = d
    <3>1. PICK j \in DOMAIN mc_latest : ChanOf(j) = d
      BY <2>1
    <3>2. ChannelOf(mc_latest'[j]) = d /\ j \in DOMAIN mc_latest'
          /\ mc_latest'[j].topic = mc_latest[j].topic
          /\ mc_latest'[j].data = mc_latest[j].data
      BY <1>1, <1>4, <3>1
    <3>3. LatestOnly'[d] = LatestOnly[d]
      <4>1. LatestOnly[d] = TRUE
        BY <1>2, <3>1 DEF SlotView
      <4>2. LatestOnly'[d] = TRUE
        BY <1>2, <3>2 DEF SlotView, ChanOf
      <4>3. QED BY <4>1, <4>2
    <3>4. Newest'[d] = Newest[d]
      <4>1. Newest[d] = IF mc_latest[j].topic \in PlainTopics
                        THEN Pub[mc_latest[j].topic] ELSE mc_latest[j].data
        BY <1>2, <3>1 DEF SlotView
      <4>2. Newest'[d] = IF mc_latest'[j].topic \in PlainTopics
                         THEN Pub'[mc_latest'[j].topic] ELSE mc_latest'[j].data
        BY <1>2, <3>2 DEF SlotView, ChanOf
      <4>3. QED BY <3>2, <4>1, <4>2
    <3>5. d # c => Waiting'[d] = Waiting[d]
      <4> SUFFICES ASSUME d # c PROVE Waiting'[d] = Waiting[d]
        OBVIOUS
      <4>1. mc_latest'[j] = mc_latest[j]
        BY <1>4, <3>1
      <4>2. Waiting[d] = IF mc_latest[j].pending THEN {mc_latest[j].data} ELSE {}
        BY <1>2, <3>1 DEF SlotView
      <4>3. Waiting'[d] = IF mc_latest'[j].pending THEN {mc_latest'[j].data} ELSE {}
        BY <1>2, <3>2 DEF SlotView, ChanOf
      <4>4. QED BY <4>1, <4>2, <4>3
    <3>6. QED BY <3>3, <3>4, <3>5
  <2>2. CASE ~\E j \in DOMAIN mc_latest : ChanOf(j) = d
    <3>1. \A j \in DOMAIN mc_latest : ChanOf(j) # d
      BY <2>2
    <3>2. \A j \in DOMAIN mc_latest' : ChannelOf(mc_latest'[j]) # d
      BY <1>1, <1>4, <3>1
    <3>3. QED BY <1>2, <1>3, <3>1, <3>2 DEF RingView, ChanOf
  <2>3. QED BY <2>1, <2>2
<1> HIDE DEF c, n
<1>9. Newest' = Newest /\ LatestOnly' = LatestOnly
  BY <1>8, BusTypesHold, BusTypesNext, SameFunction DEF BusTypes
<1>10. \A d \in Channels : Waiting'[d] = IF d = c THEN Waiting[d] \ {n} ELSE Waiting[d]
  BY <1>7, <1>8
<1>11. n \in Waiting[c] /\ \A m \in Waiting[c] : n <= m
  BY <1>1, <1>7
<1>12. Bus!Deliver(c)
  BY <1>1, <1>5, <1>6, <1>9, <1>10, <1>11, DeliverOnBus
<1>13. QED BY <1>1, <1>12

LEMMA SameNewest ==
    ASSUME UNCHANGED latestVars, Pub' = Pub
    PROVE  Newest' = Newest /\ LatestOnly' = LatestOnly
<1>1. mc_latest' = mc_latest /\ mc_latest_topic' = mc_latest_topic
  BY DEF latestVars
<1>2. \A t \in Topics : mc_diagnostics'[t].published = mc_diagnostics[t].published
  BY DEF Pub
<1>3. Newest' = Newest
  BY <1>1, <1>2, PlainAreTopics DEF Newest, PlainChannel, SlotData
<1>4. QED BY <1>1, <1>3 DEF LatestOnly

(* The ring topics without a slot are those that still use the ring. *)
LEMMA RingTopic ==
    ASSUME SlotInv, NEW d \in Channels, d[1] \in PlainTopics, d[2] = Key0,
           \A j \in DOMAIN mc_latest : ChanOf(j) # d
    PROVE  mc_latest_topic[d[1]] = 0 /\ d = <<d[1], Key0>>
<1>1. d = <<d[1], Key0>> /\ d[1] \in Topics
  BY DEF Channels
<1>2. SUFFICES ASSUME mc_latest_topic[d[1]] # 0 PROVE FALSE
  BY <1>1
<1>3. ChanOf(mc_latest_topic[d[1]]) = d
  BY <1>1, <1>2 DEF SlotInv, SlotsFine, SwitchedSlots
<1>4. mc_latest_topic[d[1]] \in DOMAIN mc_latest
  BY <1>1, <1>2 DEF SlotInv, TypeInv, TypeOK
<1>5. QED BY <1>3, <1>4

(* The oldest entry of the ring is the oldest of its topic. *)
LEMMA OldestData ==
    ASSUME OrderInv, NEW t \in PlainTopics, mc_latest_topic[t] = 0,
           mc_tail \in QueuedOf(t), NEW n, n = mc_queue[mc_tail].data
    PROVE  /\ {mc_queue[i].data : i \in QueuedOf(t) \ {mc_tail}} = RingData[t] \ {n}
           /\ n \in RingData[t] /\ n \in Nat /\ \A m \in RingData[t] : n <= m
<1>1. \A i \in QueuedOf(t) \ {mc_tail} : n < mc_queue[i].data
  BY OldestGone
<1>2. \A i \in QueuedOf(t) : mc_queue[i].data \in Nat
  BY RingType DEF QueuedOf, OrderInv, SlotInv
<1>3. n \in Nat /\ RingData[t] = {mc_queue[i].data : i \in QueuedOf(t)}
  BY <1>2 DEF RingData
<1>4. \A i \in QueuedOf(t) \ {mc_tail} : mc_queue[i].data # n
  BY <1>1, <1>2, <1>3
<1>5. {mc_queue[i].data : i \in QueuedOf(t) \ {mc_tail}} = RingData[t] \ {n}
  BY <1>3, <1>4
<1>6. \A m \in RingData[t] : n <= m
  <2>1. \A i \in QueuedOf(t) : n <= mc_queue[i].data
    BY <1>1, <1>2, <1>3
  <2>2. QED BY <1>3, <2>1
<1>7. QED BY <1>3, <1>5, <1>6

(* What waits in the slots, and in the ring, as long as the slots stay. *)
LEMMA WaitingBySlots ==
    ASSUME SlotInv, SlotInv', UNCHANGED latestVars
    PROVE  /\ \A j \in DOMAIN mc_latest : Waiting'[ChanOf(j)] = Waiting[ChanOf(j)]
           /\ \A d \in Channels : (\A j \in DOMAIN mc_latest : ChanOf(j) # d) =>
                /\ Waiting[d] = IF d[1] \in PlainTopics /\ d[2] = Key0
                                THEN RingData[d[1]] ELSE {}
                /\ Waiting'[d] = IF d[1] \in PlainTopics /\ d[2] = Key0
                                 THEN RingData'[d[1]] ELSE {}
<1>1. SlotView /\ RingView /\ SlotView' /\ RingView'
  BY SlotViewHolds, RingViewHolds, ViewNext
<1>2. mc_latest' = mc_latest
  BY DEF latestVars
<1>3. \A j \in DOMAIN mc_latest : Waiting'[ChanOf(j)] = Waiting[ChanOf(j)]
  <2> SUFFICES ASSUME NEW j \in DOMAIN mc_latest
               PROVE  Waiting'[ChanOf(j)] = Waiting[ChanOf(j)]
    OBVIOUS
  <2>1. Waiting[ChanOf(j)] = IF mc_latest[j].pending THEN {mc_latest[j].data} ELSE {}
    BY <1>1 DEF SlotView
  <2>2. Waiting'[ChanOf(j)] = IF mc_latest[j].pending THEN {mc_latest[j].data} ELSE {}
    BY <1>1, <1>2 DEF SlotView, ChanOf
  <2>3. QED BY <2>1, <2>2
<1>4. ASSUME NEW d \in Channels, \A j \in DOMAIN mc_latest : ChanOf(j) # d
      PROVE  /\ Waiting[d] = IF d[1] \in PlainTopics /\ d[2] = Key0
                             THEN RingData[d[1]] ELSE {}
             /\ Waiting'[d] = IF d[1] \in PlainTopics /\ d[2] = Key0
                              THEN RingData'[d[1]] ELSE {}
  BY <1>1, <1>2, <1>4 DEF RingView, ChanOf
<1>5. QED BY <1>3, <1>4

LEMMA TakeQueuedOnBus ==
    ASSUME OrderInv, OrderInv', TakeQueued
    PROVE  \/ \E c \in Channels : Bus!Deliver(c)
           \/ UNCHANGED <<Newest, Waiting, Seen, LatestOnly>>
<1> DEFINE ev == mc_queue[mc_tail]
           c == ChannelOf(ev)
           n == ev.data
<1>1. /\ mc_tail \in Queued /\ Queued' = Queued \ {mc_tail} /\ mc_queue' = mc_queue
      /\ UNCHANGED latestVars /\ Pub' = Pub
  BY TakeRing
<1>2. \A d \in Channels : Seen'[d] = IF ~Obsolete(ev) /\ d = c THEN n ELSE Seen[d]
  BY TakeRing
<1>3. Newest' = Newest /\ LatestOnly' = LatestOnly
  BY <1>1, SameNewest
<1>4. /\ ev.topic \in PlainTopics /\ c = <<ev.topic, Key0>> /\ c \in Channels
      /\ n \in Nat /\ mc_tail \in QueuedOf(ev.topic)
  BY <1>1, RingType DEF OrderInv, SlotInv, QueuedOf
<1>5. /\ \A j \in DOMAIN mc_latest : Waiting'[ChanOf(j)] = Waiting[ChanOf(j)]
      /\ \A d \in Channels : (\A j \in DOMAIN mc_latest : ChanOf(j) # d) =>
            /\ Waiting[d] = IF d[1] \in PlainTopics /\ d[2] = Key0
                            THEN RingData[d[1]] ELSE {}
            /\ Waiting'[d] = IF d[1] \in PlainTopics /\ d[2] = Key0
                             THEN RingData'[d[1]] ELSE {}
  BY <1>1, WaitingBySlots DEF OrderInv
<1>6. ASSUME NEW t \in PlainTopics
      PROVE  RingData'[t] = {mc_queue[i].data : i \in QueuedOf(t) \ {mc_tail}}
             /\ (t # ev.topic => RingData'[t] = RingData[t])
  BY <1>1 DEF RingData, QueuedOf
<1>7. ASSUME NEW d \in Channels, d # c \/ Obsolete(ev)
      PROVE  Waiting'[d] = Waiting[d]
  <2>1. CASE \E j \in DOMAIN mc_latest : ChanOf(j) = d
    BY <1>5, <2>1
  <2>2. CASE ~\E j \in DOMAIN mc_latest : ChanOf(j) = d
    <3>1. \A j \in DOMAIN mc_latest : ChanOf(j) # d
      BY <2>2
    <3>2. CASE d[1] \in PlainTopics /\ d[2] = Key0
      <4>1. mc_latest_topic[d[1]] = 0 /\ d = <<d[1], Key0>>
        BY <3>1, <3>2, RingTopic DEF OrderInv
      <4>2. d[1] # ev.topic
        BY <1>4, <1>7, <4>1 DEF Obsolete
      <4>3. QED BY <1>5, <1>6, <3>1, <3>2, <4>2
    <3>3. CASE ~(d[1] \in PlainTopics /\ d[2] = Key0)
      BY <1>5, <3>1, <3>3
    <3>4. QED BY <3>2, <3>3
  <2>3. QED BY <2>1, <2>2
<1>8. CASE Obsolete(ev)
  <2>1. Waiting' = Waiting
    <3>1. \A d \in Channels : Waiting'[d] = Waiting[d]
      BY <1>7, <1>8
    <3>2. QED BY <3>1, BusTypesHold, BusTypesNext, SameFunction DEF BusTypes
  <2>2. Seen' = Seen
    <3>1. \A d \in Channels : Seen'[d] = Seen[d]
      BY <1>2, <1>8
    <3>2. QED BY <3>1, BusTypesHold, BusTypesNext, SameFunction DEF BusTypes
  <2>3. QED BY <1>3, <2>1, <2>2
<1>9. CASE ~Obsolete(ev)
  <2>1. mc_latest_topic[ev.topic] = 0
    BY <1>9 DEF Obsolete
  <2>2. \A j \in DOMAIN mc_latest : ChanOf(j) # c
    BY <1>4, <2>1, NoSlotOf DEF OrderInv
  <2>3. Waiting[c] = RingData[ev.topic] /\ Waiting'[c] = RingData'[ev.topic]
    BY <1>4, <1>5, <2>2
  <2>4. /\ RingData'[ev.topic] = RingData[ev.topic] \ {n}
        /\ n \in RingData[ev.topic] /\ \A m \in RingData[ev.topic] : n <= m
    BY <1>4, <1>6, <2>1, OldestData
  <2>5. Seen[c] < n /\ Seen[c] \in Nat
    BY <1>1, <1>4, <1>9, SeenType DEF OrderInv, SlotInv, RingFine, RingUnseen
  <2> HIDE DEF c, n, ev
  <2>6. \A d \in Channels : Seen'[d] = IF d = c THEN n ELSE Seen[d]
    BY <1>2, <1>9
  <2>7. \A d \in Channels : Waiting'[d] = IF d = c THEN Waiting[d] \ {n} ELSE Waiting[d]
    BY <1>7, <2>3, <2>4
  <2>8. n \in Waiting[c] /\ \A m \in Waiting[c] : n <= m
    BY <2>3, <2>4
  <2>9. Bus!Deliver(c)
    BY <1>3, <1>4, <2>5, <2>6, <2>7, <2>8, DeliverOnBus
  <2>10. QED BY <1>4, <2>9
<1>10. QED BY <1>8, <1>9

(* What a full ring keeps of a topic, and what a publication leaves there. *)
Lost(u) == IF IsFull /\ mc_queue[mc_tail].topic = u THEN {mc_queue[mc_tail].data} ELSE {}

LEMMA PublishedRing ==
    ASSUME MaxPublish < CounterModulus, OrderInv,
           NEW t \in PlainTopics, PublishToQueue(t),
           NEW u \in PlainTopics, mc_latest_topic[u] = 0
    PROVE  /\ RingData'[u] = (RingData[u] \ Lost(u))
                               \cup (IF u = t THEN {Pub[t] + 1} ELSE {})
           /\ \A n \in Lost(u) : n \in RingData[u] /\ \A m \in RingData[u] : n <= m
<1> DEFINE rest == {i \in Kept : mc_queue[i].topic = u}
<1>1. /\ Queued' = Kept \cup {mc_head} /\ Kept \subseteq Queued /\ mc_head \notin Queued
      /\ \A i \in Queued : mc_queue'[i] = mc_queue[i]
      /\ mc_queue'[mc_head].topic = t /\ mc_queue'[mc_head].data = Pub[t] + 1
  <2>1. mc_queue'[mc_head] = [topic |-> t, key |-> Key0, data |-> Pub[t] + 1]
    BY PublishRing
  <2>2. QED BY <2>1, PublishRing
<1>2. /\ {mc_queue[i].data : i \in rest} = RingData[u] \ Lost(u)
      /\ \A n \in Lost(u) : n \in RingData[u] /\ \A m \in RingData[u] : n <= m
  <2>1. CASE IsFull /\ mc_queue[mc_tail].topic = u
    <3>1. mc_tail \in QueuedOf(u)
      BY <2>1, PublishRing DEF QueuedOf
    <3>2. rest = QueuedOf(u) \ {mc_tail}
      BY <2>1 DEF QueuedOf, Kept
    <3>3. Lost(u) = {mc_queue[mc_tail].data}
      BY <2>1 DEF Lost
    <3>4. QED BY <3>1, <3>2, <3>3, OldestData
  <2>2. CASE ~(IsFull /\ mc_queue[mc_tail].topic = u)
    <3>1. rest = QueuedOf(u) /\ Lost(u) = {}
      BY <2>2 DEF QueuedOf, Kept, Lost
    <3>2. QED BY <3>1 DEF RingData
  <2>3. QED BY <2>1, <2>2
<1>3. QueuedOf(u)' = {i \in Kept \cup {mc_head} : mc_queue'[i].topic = u}
  BY <1>1 DEF QueuedOf
<1>4. {mc_queue'[i].data : i \in rest} = {mc_queue[i].data : i \in rest}
  BY <1>1
<1>5. RingData'[u] = {mc_queue'[i].data : i \in QueuedOf(u)'}
  BY DEF RingData
<1>6. CASE u = t
  <2>1. QueuedOf(u)' = rest \cup {mc_head}
    BY <1>1, <1>3, <1>6
  <2> HIDE DEF rest
  <2>2. RingData'[u] = {mc_queue'[i].data : i \in rest} \cup {Pub[t] + 1}
    BY <1>1, <1>5, <2>1
  <2>3. QED BY <1>2, <1>4, <1>6, <2>2
<1>7. CASE u # t
  <2>1. QueuedOf(u)' = rest
    BY <1>1, <1>3, <1>7
  <2> HIDE DEF rest
  <2>2. QED BY <1>2, <1>4, <1>5, <1>7, <2>1
<1>8. QED BY <1>6, <1>7

LEMMA PublishToQueueOnBus ==
    ASSUME MaxPublish < CounterModulus, OrderInv, OrderInv',
           NEW t \in PlainTopics, PublishToQueue(t)
    PROVE  \E c \in Channels : Bus!Publish(c)
<1> DEFINE c == <<t, Key0>>
<1>1. /\ Pub'[t] = Pub[t] + 1 /\ Pub[t] \in Nat
      /\ \A u \in Topics : u # t => Pub'[u] = Pub[u]
      /\ UNCHANGED latestVars /\ mc_latest' = mc_latest /\ mc_latest_topic' = mc_latest_topic
      /\ Seen' = Seen /\ mc_latest_topic[t] = 0
  BY PublishRing DEF latestVars
<1>2. c \in Channels /\ c[1] = t /\ c[2] = Key0
  BY PlainChannels
<1>3. \A j \in DOMAIN mc_latest : ChanOf(j) # c /\ mc_latest[j].topic # t
  BY <1>1, NoSlotOf DEF OrderInv
<1>4. SlotView /\ RingView /\ SlotView' /\ RingView'
  BY SlotViewHolds, RingViewHolds, ViewNext DEF OrderInv
<1>5. LatestOnly' = LatestOnly
  BY <1>1 DEF LatestOnly
<1>6. LatestOnly[c] = FALSE /\ Newest[c] = Pub[t] /\ Newest'[c] = Pub[t] + 1
  <2>1. LatestOnly[c] = FALSE /\ Newest[c] = Pub[t]
    BY <1>2, <1>3, <1>4 DEF RingView
  <2>2. Newest'[c] = Pub'[t]
    BY <1>1, <1>2, <1>3, <1>4 DEF RingView, ChanOf
  <2>3. QED BY <1>1, <2>1, <2>2
<1>7. ASSUME NEW d \in Channels, d # c
      PROVE  Newest'[d] = Newest[d]
  <2>1. CASE \E j \in DOMAIN mc_latest : ChanOf(j) = d
    <3>1. PICK j \in DOMAIN mc_latest : ChanOf(j) = d
      BY <2>1
    <3>2. mc_latest[j].topic \in PlainTopics =>
             Pub'[mc_latest[j].topic] = Pub[mc_latest[j].topic]
      BY <1>1, <1>3, PlainAreTopics
    <3>3. Newest[d] = IF mc_latest[j].topic \in PlainTopics
                      THEN Pub[mc_latest[j].topic] ELSE mc_latest[j].data
      BY <1>4, <3>1 DEF SlotView
    <3>4. Newest'[d] = IF mc_latest[j].topic \in PlainTopics
                       THEN Pub'[mc_latest[j].topic] ELSE mc_latest[j].data
      BY <1>1, <1>4, <3>1 DEF SlotView, ChanOf
    <3>5. QED BY <3>2, <3>3, <3>4
  <2>2. CASE ~\E j \in DOMAIN mc_latest : ChanOf(j) = d
    <3>1. \A j \in DOMAIN mc_latest : ChanOf(j) # d
      BY <2>2
    <3>2. d[1] \in PlainTopics /\ d[2] = Key0 => Pub'[d[1]] = Pub[d[1]]
      BY <1>1, <1>7, PlainAreTopics DEF Channels
    <3>3. Newest[d] = IF d[1] \in PlainTopics /\ d[2] = Key0 THEN Pub[d[1]] ELSE 0
      BY <1>4, <3>1 DEF RingView
    <3>4. Newest'[d] = IF d[1] \in PlainTopics /\ d[2] = Key0 THEN Pub'[d[1]] ELSE 0
      BY <1>1, <1>4, <3>1 DEF RingView, ChanOf
    <3>5. QED BY <3>2, <3>3, <3>4
  <2>3. QED BY <2>1, <2>2
<1>8. PublishesOn(c)
  BY <1>1, <1>2, <1>5, <1>6, <1>7 DEF PublishesOn
<1>9. /\ \A j \in DOMAIN mc_latest : Waiting'[ChanOf(j)] = Waiting[ChanOf(j)]
      /\ \A d \in Channels : (\A j \in DOMAIN mc_latest : ChanOf(j) # d) =>
            /\ Waiting[d] = IF d[1] \in PlainTopics /\ d[2] = Key0
                            THEN RingData[d[1]] ELSE {}
            /\ Waiting'[d] = IF d[1] \in PlainTopics /\ d[2] = Key0
                             THEN RingData'[d[1]] ELSE {}
  BY <1>1, WaitingBySlots DEF OrderInv
<1> DEFINE ev == mc_queue[mc_tail]
           loses == IsFull /\ ~Obsolete(ev)
           v == <<ev.topic, Key0>>
<1>10. ASSUME NEW d \in Channels, \A j \in DOMAIN mc_latest : ChanOf(j) # d
       PROVE  Waiting'[d] = (IF loses /\ d = v THEN Waiting[d] \ {ev.data} ELSE Waiting[d])
                              \cup (IF d = c THEN {Pub[t] + 1} ELSE {})
  <2>1. CASE d[1] \in PlainTopics /\ d[2] = Key0
    <3>1. mc_latest_topic[d[1]] = 0 /\ d = <<d[1], Key0>>
      BY <1>10, <2>1, RingTopic DEF OrderInv
    <3>2. RingData'[d[1]] = (RingData[d[1]] \ Lost(d[1]))
                               \cup (IF d[1] = t THEN {Pub[t] + 1} ELSE {})
      BY <2>1, <3>1, PublishedRing
    <3>3. Lost(d[1]) = IF loses /\ d = v THEN {ev.data} ELSE {}
      BY <3>1 DEF Lost, Obsolete
    <3>4. d = c <=> d[1] = t
      BY <3>1
    <3>5. Waiting[d] = RingData[d[1]] /\ Waiting'[d] = RingData'[d[1]]
      BY <1>9, <1>10, <2>1
    <3> HIDE DEF loses, v, c, ev
    <3>6. QED BY <3>2, <3>3, <3>4, <3>5
  <2>2. CASE ~(d[1] \in PlainTopics /\ d[2] = Key0)
    <3>1. Waiting[d] = {} /\ Waiting'[d] = {} /\ d # c
      BY <1>2, <1>9, <1>10, <2>2
    <3>2. QED BY <3>1
  <2>3. QED BY <2>1, <2>2
<1>11. CASE loses
  <2>1. /\ ev.topic \in PlainTopics /\ mc_latest_topic[ev.topic] = 0
        /\ v \in Channels /\ v[1] = ev.topic /\ v[2] = Key0
    <3>1. mc_tail \in Queued
      BY <1>11, PublishRing
    <3>2. ev.topic \in PlainTopics
      BY <3>1, RingType DEF OrderInv, SlotInv
    <3>3. QED BY <1>11, <3>2, PlainChannels DEF Obsolete
  <2>2. \A j \in DOMAIN mc_latest : ChanOf(j) # v
    BY <2>1, NoSlotOf DEF OrderInv
  <2>3. Waiting[v] = RingData[ev.topic] /\ LatestOnly[v] = FALSE
    BY <1>4, <2>1, <2>2 DEF RingView
  <2>4. ev.data \in Lost(ev.topic)
    BY <1>11 DEF Lost
  <2>5. ev.data \in Waiting[v] /\ \A m \in Waiting[v] : ev.data <= m
    BY <2>1, <2>3, <2>4, PublishedRing
  <2>6. ASSUME NEW e \in Channels
        PROVE  Waiting'[e] = (IF e = v THEN Waiting[e] \ {ev.data} ELSE Waiting[e])
                               \cup (IF e = c THEN {Newest'[e]} ELSE {})
    <3>1. CASE \E j \in DOMAIN mc_latest : ChanOf(j) = e
      <4>1. e # v /\ e # c
        BY <1>3, <2>2, <3>1
      <4>2. QED BY <1>9, <3>1, <4>1
    <3>2. CASE ~\E j \in DOMAIN mc_latest : ChanOf(j) = e
      <4>1. Waiting'[e] = (IF e = v THEN Waiting[e] \ {ev.data} ELSE Waiting[e])
                            \cup (IF e = c THEN {Pub[t] + 1} ELSE {})
        BY <1>10, <1>11, <3>2
      <4> HIDE DEF c, v, ev
      <4>2. QED BY <1>6, <4>1
    <3>3. QED BY <3>1, <3>2
  <2> HIDE DEF c, v, ev
  <2>7. Bus!Publish(c)
    BY <1>6, <1>8, <2>1, <2>3, <2>5, <2>6, OverwriteOnBus
  <2>8. QED BY <1>2, <2>7
<1>12. CASE ~loses
  <2>1. ASSUME NEW e \in Channels
        PROVE  Waiting'[e] = IF e = c THEN Waiting[e] \cup {Newest'[e]} ELSE Waiting[e]
    <3>1. CASE \E j \in DOMAIN mc_latest : ChanOf(j) = e
      <4>1. e # c
        BY <1>3, <3>1
      <4>2. QED BY <1>9, <3>1, <4>1
    <3>2. CASE ~\E j \in DOMAIN mc_latest : ChanOf(j) = e
      <4>1. Waiting'[e] = Waiting[e] \cup (IF e = c THEN {Pub[t] + 1} ELSE {})
        BY <1>10, <1>12, <3>2
      <4> HIDE DEF c
      <4>2. QED BY <1>6, <4>1
    <3>3. QED BY <3>1, <3>2
  <2> HIDE DEF c
  <2>2. Bus!Publish(c)
    BY <1>6, <1>8, <2>1, PublishEventOnBus
  <2>3. QED BY <1>2, <2>2
<1>13. QED BY <1>11, <1>12

LEMMA UseLatestOnBus ==
    ASSUME OrderInv, OrderInv', NEW u \in TopicUse, UseLatest(u.topic, u.phase)
    PROVE  \/ \E c \in Channels : Bus!BecomeLatest(c)
           \/ UNCHANGED <<Newest, Waiting, Seen, LatestOnly>>
<1> DEFINE t == u.topic
           c == <<t, Key0>>
<1>1. /\ t \in Topics /\ t \in PlainTopics /\ u.phase \in Phase /\ Key0 \in Keys
      /\ UNCHANGED <<queueVars, hand, received>>
      /\ c \in Channels /\ c[1] = t /\ c[2] = Key0
  BY UseAssumption, PlainAreTopics, KeysNat, PlainChannels DEF UseLatest, dispatchVars
<1>2. Seen' = Seen
  BY <1>1, SameSeen
<1>3. CASE SlotRefused(t, Key0, u.phase)
  <2>1. UNCHANGED latestVars /\ Reject(t)
    BY <1>3 DEF UseLatest
  <2>2. Pub' = Pub
    BY <2>1 DEF Reject, Pub, OrderInv, SlotInv, TypeInv, TypeOK, Diagnostics
  <2>3. QED BY <1>1, <1>2, <2>1, <2>2, StutterOnBus
<1>4. CASE ~SlotRefused(t, Key0, u.phase)
  <2>1. mc_latest \in Seq(Slot) /\ mc_latest_topic \in [Topics -> 0 .. Len(mc_latest)]
    BY DEF OrderInv, SlotInv, TypeInv, TypeOK
  <2>2. PICK slots \in Seq(Slot) : \E i \in DOMAIN slots :
           /\ slots = LatestSlots(t, Key0, u.phase) /\ i = LatestSlot(t, Key0)
           /\ Looked(slots, i, t, Key0, u.phase)
    BY <1>1, <1>4, <2>1, LookupSlots
  <2>3. PICK i \in DOMAIN slots :
           /\ slots = LatestSlots(t, Key0, u.phase) /\ i = LatestSlot(t, Key0)
           /\ Looked(slots, i, t, Key0, u.phase)
    BY <2>2
  <2>4. /\ mc_latest' = slots /\ mc_latest_topic' = [mc_latest_topic EXCEPT ![t] = i]
        /\ Pub' = Pub /\ i # 0
    BY <1>4, <2>2, <2>3, SamePub DEF UseLatest
  <2>5. /\ \A j \in DOMAIN mc_latest : slots[j] = mc_latest[j]
        /\ DOMAIN slots = DOMAIN mc_latest \cup {i}
        /\ slots[i].topic = t /\ slots[i].key = Key0
        /\ i \notin DOMAIN mc_latest =>
              ~slots[i].pending /\ \A j \in DOMAIN mc_latest : ChanOf(j) # c
    BY <2>3 DEF Looked
  <2>6. ChannelOf(slots[i]) = c
    BY <2>5 DEF ChannelOf
  <2>7. SlotView /\ RingView /\ SlotView' /\ RingView'
    BY SlotViewHolds, RingViewHolds, ViewNext DEF OrderInv
  <2>8. RingData' = RingData
    BY <1>1 DEF RingData, QueuedOf, Queued, queueVars
  <2>9. ASSUME NEW d \in Channels, d # c \/ i \in DOMAIN mc_latest
        PROVE  /\ Newest'[d] = Newest[d] /\ LatestOnly'[d] = LatestOnly[d]
               /\ Waiting'[d] = Waiting[d]
    <3>1. CASE \E j \in DOMAIN mc_latest : ChanOf(j) = d
      <4>1. PICK j \in DOMAIN mc_latest : ChanOf(j) = d
        BY <3>1
      <4>2. j \in DOMAIN mc_latest' /\ mc_latest'[j] = mc_latest[j]
            /\ ChannelOf(mc_latest'[j]) = d
        BY <2>4, <2>5, <4>1 DEF ChanOf
      <4>3. LatestOnly[d] = TRUE /\ LatestOnly'[d] = TRUE
        BY <2>7, <4>1, <4>2 DEF SlotView, ChanOf
      <4>4. Waiting'[d] = Waiting[d]
        <5>1. Waiting[d] = IF mc_latest[j].pending THEN {mc_latest[j].data} ELSE {}
          BY <2>7, <4>1 DEF SlotView
        <5>2. Waiting'[d] = IF mc_latest'[j].pending THEN {mc_latest'[j].data} ELSE {}
          BY <2>7, <4>2 DEF SlotView, ChanOf
        <5>3. QED BY <4>2, <5>1, <5>2
      <4>5. Newest'[d] = Newest[d]
        <5>1. Newest[d] = IF mc_latest[j].topic \in PlainTopics
                          THEN Pub[mc_latest[j].topic] ELSE mc_latest[j].data
          BY <2>7, <4>1 DEF SlotView
        <5>2. Newest'[d] = IF mc_latest'[j].topic \in PlainTopics
                           THEN Pub'[mc_latest'[j].topic] ELSE mc_latest'[j].data
          BY <2>7, <4>2 DEF SlotView, ChanOf
        <5>3. QED BY <2>4, <4>2, <5>1, <5>2
      <4>6. QED BY <4>3, <4>4, <4>5
    <3>2. CASE ~\E j \in DOMAIN mc_latest : ChanOf(j) = d
      <4>1. \A j \in DOMAIN mc_latest : ChanOf(j) # d
        BY <3>2
      <4>2. \A j \in DOMAIN mc_latest' : ChannelOf(mc_latest'[j]) # d
        BY <2>4, <2>5, <2>6, <2>9, <4>1 DEF ChanOf
      <4>3. QED BY <2>4, <2>7, <2>8, <4>1, <4>2 DEF RingView, ChanOf
    <3>3. QED BY <3>1, <3>2
  <2>10. CASE i \in DOMAIN mc_latest
    <3>1. Newest' = Newest /\ LatestOnly' = LatestOnly /\ Waiting' = Waiting
      BY <2>9, <2>10, BusTypesHold, BusTypesNext, SameFunction DEF BusTypes
    <3>2. QED BY <1>2, <3>1
  <2>11. CASE i \notin DOMAIN mc_latest
    <3>1. LatestOnly[c] = FALSE /\ Newest[c] = Pub[t]
      BY <1>1, <2>5, <2>7, <2>11 DEF RingView
    <3>2. i \in DOMAIN mc_latest' /\ ChannelOf(mc_latest'[i]) = c
          /\ mc_latest'[i].topic = t /\ ~mc_latest'[i].pending
      BY <2>4, <2>5, <2>6, <2>11
    <3>3. LatestOnly'[c] = TRUE /\ Waiting'[c] = {}
      BY <2>7, <3>2 DEF SlotView, ChanOf
    <3>4. Newest'[c] = Pub'[t]
      BY <1>1, <2>7, <3>2 DEF SlotView, ChanOf
    <3> HIDE DEF c
    <3>5. \A d \in Channels : Newest'[d] = Newest[d]
      BY <2>4, <2>9, <3>1, <3>4
    <3>6. Newest' = Newest
      BY <3>5, BusTypesHold, BusTypesNext, SameFunction DEF BusTypes
    <3>7. Bus!BecomeLatest(c)
      BY <1>1, <1>2, <2>9, <3>1, <3>3, <3>6, SwitchOnBus
    <3>8. QED BY <1>1, <3>7
  <2>12. QED BY <2>10, <2>11
<1>5. QED BY <1>3, <1>4

(* A step of the message center is a step of the bus, or none. *)
LEMMA PublishOnBus ==
    ASSUME MaxPublish < CounterModulus, OrderInv, OrderInv',
           \/ \E t \in PlainTopics : Publish(t)
           \/ \E u \in KeyedUse : PublishLatest(u.topic, u.key, u.phase)
           \/ \E u \in TopicUse : UseLatest(u.topic, u.phase)
    PROVE  Bus!Next \/ UNCHANGED Bus!vars
<1>1. ASSUME NEW t \in PlainTopics, PublishToSlot(t)
      PROVE  Bus!Next
  BY <1>1, ToSlotStores, StoredOnBus DEF OrderInv, SlotInv, SlotsFine, Bus!Next
<1>2. ASSUME NEW t \in PlainTopics, PublishToQueue(t)
      PROVE  Bus!Next
  BY <1>2, PublishToQueueOnBus DEF Bus!Next
<1>3. ASSUME NEW u \in KeyedUse, PublishLatest(u.topic, u.key, u.phase)
      PROVE  Bus!Next \/ UNCHANGED Bus!vars
  <2>1. CASE SlotRefused(u.topic, u.key, u.phase)
    <3>1. UNCHANGED <<queueVars, latestVars, hand, received>> /\ Reject(u.topic)
      BY <1>3, <2>1 DEF PublishLatest, dispatchVars, latestVars
    <3>2. Pub' = Pub
      BY <3>1 DEF Reject, Pub, OrderInv, SlotInv, TypeInv, TypeOK, Diagnostics
    <3>3. QED BY <3>1, <3>2, SameSeen, StutterOnBus DEF Bus!vars
  <2>2. CASE ~SlotRefused(u.topic, u.key, u.phase)
    BY <1>3, <2>2, PublishLatestStores, StoredOnBus DEF OrderInv, SlotInv, Bus!Next
  <2>3. QED BY <2>1, <2>2
<1>4. ASSUME NEW u \in TopicUse, UseLatest(u.topic, u.phase)
      PROVE  Bus!Next \/ UNCHANGED Bus!vars
  BY <1>4, UseLatestOnBus DEF Bus!Next, Bus!vars
<1>5. QED BY <1>1, <1>2, <1>3, <1>4 DEF Publish

LEMMA DispatchOnBus ==
    ASSUME OrderInv, OrderInv', Dispatch
    PROVE  Bus!Next \/ UNCHANGED Bus!vars
<1>1. ASSUME UNCHANGED <<queueVars, latestVars>>, Pub' = Pub, Seen' = Seen
      PROVE  Bus!Next \/ UNCHANGED Bus!vars
  BY <1>1, StutterOnBus DEF Bus!vars
<1>2. CASE BeginDispatch
  BY <1>1, <1>2, SamePub, SameSeen DEF BeginDispatch
<1>3. ASSUME NEW phase \in Phase, TakeLatest(phase)
      PROVE  Bus!Next \/ UNCHANGED Bus!vars
  <2>1. /\ Pub' = Pub
        /\ UNCHANGED <<queueVars, mc_latest_topic, received>>
    BY <1>3, SamePub DEF TakeLatest
  <2>2. ASSUME NEW i, TookSlot(i)
        PROVE  Bus!Next
    BY <2>1, <2>2, TookOnBus DEF Bus!Next
  <2>3. CASE UNCHANGED <<hand, mc_latest>>
    BY <1>1, <2>1, <2>3, SameSeen DEF latestVars
  <2>4. QED BY <1>3, <2>2, <2>3, TakeLatestTakes DEF OrderInv, SlotInv
<1>4. ASSUME NEW phase \in Phase, EndLatest(phase)
      PROVE  Bus!Next \/ UNCHANGED Bus!vars
  BY <1>1, <1>4, SamePub, SameSeen DEF EndLatest
<1>5. CASE TakeQueued
  BY <1>5, TakeQueuedOnBus DEF Bus!Next, Bus!vars
<1>6. CASE EndQueue
  BY <1>1, <1>6, SamePub, SameSeen DEF EndQueue
<1>7. CASE Deliver
  <2>1. Pub' = Pub
    <3>1. hand \in Event /\ mc_diagnostics \in [Topics -> Diagnostics]
      BY <1>7, HandType DEF Deliver, OrderInv, SlotInv, TypeInv, TypeOK
    <3>2. mc_diagnostics' = [mc_diagnostics EXCEPT ![hand.topic] =
            [mc_diagnostics[hand.topic] EXCEPT
               !.delivered = Succ(mc_diagnostics[hand.topic].delivered)]]
      BY <1>7 DEF Deliver
    <3>3. QED BY <3>1, <3>2 DEF Pub, Diagnostics
  <2>2. QED BY <1>1, <1>7, <2>1, DeliverSeen DEF Deliver, OrderInv, SlotInv
<1>8. CASE RunHooks
  BY <1>1, <1>8, SamePub, SameSeen DEF RunHooks
<1>9. QED BY <1>2, <1>3, <1>4, <1>5, <1>6, <1>7, <1>8 DEF Dispatch

LEMMA BusInit ==
    ASSUME Init
    PROVE  Bus!Init
<1>1. mc_latest = <<>> /\ DOMAIN mc_latest = {} /\ Queued = {}
  BY DEF Init, Queued, Window
<1>2. ASSUME NEW c \in Channels
      PROVE  Newest[c] = 0 /\ Waiting[c] = {} /\ Seen[c] = 0
  <2>1. c[1] \in Topics /\ ChannelOf(NoEvent) # c
    BY NoneIsNoChannel DEF Channels
  <2>2. Newest[c] = 0
    BY <1>1, <2>1 DEF Newest, SlotData, Init
  <2>3. SlotPending(c) = {} /\ RingWaiting(c) = {}
    BY <1>1 DEF SlotPending, RingWaiting
  <2>4. Waiting[c] = {}
    BY <2>3 DEF Waiting
  <2>5. Seen[c] = 0
    BY <2>1 DEF Seen, Init, Nothing
  <2>6. QED BY <2>2, <2>4, <2>5
<1>3. /\ Newest = [c \in Channels |-> 0] /\ Waiting = [c \in Channels |-> {}]
      /\ Seen = [c \in Channels |-> 0]
  BY <1>2, BusTypesHold DEF BusTypes
<1>4. LatestOnly \in [Channels -> BOOLEAN]
  BY DEF LatestOnly, PlainChannel
<1>5. QED BY <1>3, <1>4 DEF Bus!Init

(* The message center implements MessageBus: publishing, interrupting a    *)
(* dispatch, switching a topic or losing events, a channel delivers in     *)
(* order, at most once, and gives up only what it may.                     *)
THEOREM ImplementsTheBus ==
    ASSUME MaxPublish < CounterModulus
    PROVE  Spec => ImplementsBus
<1>1. Init => Bus!Init
  BY BusInit
<1>2. OrderInv /\ OrderInv' /\ [Next]_vars => [Bus!Next]_(Bus!vars)
  <2> SUFFICES ASSUME OrderInv, OrderInv', [Next]_vars
               PROVE  Bus!Next \/ UNCHANGED Bus!vars
    OBVIOUS
  <2>1. CASE UNCHANGED vars
    <3>1. UNCHANGED <<queueVars, latestVars, hand, received, mc_diagnostics>>
      BY <2>1 DEF vars, queueVars, latestVars
    <3>2. QED BY <3>1, SamePub, SameSeen, StutterOnBus DEF Bus!vars
  <2>2. CASE Next
    BY <2>2, PublishOnBus, DispatchOnBus DEF Next
  <2>3. QED BY <2>1, <2>2
<1>3. Init => OrderInv
  BY OrderInit
<1>4. OrderInv /\ [Next]_vars => OrderInv'
  BY OrderStep
<1>5. QED BY <1>1, <1>2, <1>3, <1>4, PTL DEF Spec, ImplementsBus, Bus!Spec
============================================================================
