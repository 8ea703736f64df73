--------------------------- MODULE MessageCenter ---------------------------
(***************************************************************************)
(* The message center (modules/message_center/message_center.c): the only  *)
(* path from the interrupt handlers (CAN, receiver, USB) to the control    *)
(* task, and from one controller to another.                               *)
(*                                                                         *)
(* Two stores.  Topics that must not skip an event go through a ring of    *)
(* QueueLen entries, one kept empty, whose oldest entry is overwritten     *)
(* when it is full.  Topics of which only the newest value matters keep    *)
(* one slot per key; a second publication replaces an undelivered one.     *)
(* MsgCenter_Dispatch empties the STATE slots, at most DispatchBudget ring *)
(* entries, then the CONTROL slots, and calls the transmission hooks.      *)
(*                                                                         *)
(* Atomicity.  Every store access is inside a critical section with the    *)
(* interrupts off, and nothing else is.  One action below is one critical  *)
(* section or one delivery, so an interrupt, or a subscriber's callback,   *)
(* may publish between any two steps of a dispatch.                        *)
(*                                                                         *)
(* Abstraction.  A payload is the number of its publication on the topic:  *)
(* it tells which event it is and how old.  Sizes and NULL arguments, whose *)
(* checks return before any state changes, are not modelled.               *)
(***************************************************************************)
EXTENDS Integers, Sequences, FiniteSets

CONSTANTS
    PlainTopics,     \* topics published with MsgCenter_Publish
    KeyedUse,        \* [topic, key, phase] of the MsgCenter_PublishLatest calls
    TopicUse,        \* [topic, phase] of the MsgCenter_UseLatest calls
    QueueLen,        \* mc_len: entries of the ring, one of them kept empty
    LatestCapacity,  \* MC_LATEST_CAPACITY
    DispatchBudget,  \* MC_DISPATCH_BUDGET
    CounterModulus,  \* the diagnostics are uint32_t: 2^32
    MaxPublish       \* bound on the publication requests of a topic

Phase == {"STATE", "CONTROL"}
Topics == PlainTopics \cup {u.topic : u \in KeyedUse}
Key0 == 0
Keys == {Key0} \cup {u.key : u \in KeyedUse}

ASSUME UseAssumption ==
    /\ \A u \in KeyedUse : u.phase \in Phase /\ u.key \in Nat
                           /\ u.topic \notin PlainTopics
    /\ \A u \in TopicUse : u.topic \in PlainTopics /\ u.phase \in Phase
    /\ "none" \notin Topics

ASSUME SizeAssumption ==
    /\ QueueLen \in Nat \ {0, 1}   \* main.c passes 128
    /\ LatestCapacity \in Nat
    /\ DispatchBudget \in Nat \ {0}
    /\ CounterModulus \in Nat \ {0}
    /\ MaxPublish \in Nat

Index == 0 .. QueueLen - 1
Counter == 0 .. CounterModulus - 1

VARIABLES
    mc_queue,         \* the ring: [Index -> event]
    mc_head,          \* next free entry
    mc_tail,          \* oldest entry
    mc_latest,        \* the slots in use: mc_latest[1 .. mc_latest_count]
    mc_latest_topic,  \* slot that a whole topic was switched to, 0 if none
    mc_diagnostics,   \* the five counters of every topic
    dispatcher,       \* MsgCenter_Dispatch: step, slot, processed count
    hand,             \* ev of Dispatch: copied out, not delivered yet
    received,         \* newest value the subscribers of a channel have seen
    atStart           \* history: what waited in a slot when the dispatch began

vars == <<mc_queue, mc_head, mc_tail, mc_latest, mc_latest_topic,
          mc_diagnostics, dispatcher, hand, received, atStart>>

queueVars == <<mc_queue, mc_head, mc_tail>>
latestVars == <<mc_latest, mc_latest_topic>>
dispatchVars == <<dispatcher, hand, received, atStart>>

NoEvent == [topic |-> "none", key |-> Key0, data |-> 0]
Event == [topic : Topics, key : Keys, data : Counter]
Slot == [topic : Topics, key : Keys, phase : Phase, data : Counter,
         pending : BOOLEAN]
Diagnostics == [published : Counter, delivered : Counter,
                overwritten : Counter, coalesced : Counter,
                rejected : Counter]
Channels == Topics \X Keys
Steps == {"idle", "state", "queue", "control", "hooks"}
Dispatcher == [step : Steps, slot : 1 .. LatestCapacity + 1,
               processed : 0 .. DispatchBudget]

ChannelOf(ev) == <<ev.topic, ev.key>>

----------------------------------------------------------------------------
(* The ring *)

After(i) == IF i + 1 = QueueLen THEN 0 ELSE i + 1

IsFull == After(mc_head) = mc_tail
IsEmpty == mc_head = mc_tail

(* Entries from the oldest up to the next free one: the events that wait. *)
Window(tail, head) ==
    IF tail <= head THEN tail .. (head - 1)
    ELSE (tail .. (QueueLen - 1)) \cup (0 .. (head - 1))

Queued == Window(mc_tail, mc_head)

----------------------------------------------------------------------------
(* The diagnostics *)

Succ(n) == IF n + 1 = CounterModulus THEN 0 ELSE n + 1

Stamp(t) == Succ(mc_diagnostics[t].published)

----------------------------------------------------------------------------
(* The latest-value slots *)

(* Mutant: the lookup stops one slot early. *)
SlotsOf_MissLast(t, k) ==
    {i \in 1 .. Len(mc_latest) - 1 :
        mc_latest[i].topic = t /\ mc_latest[i].key = k}

SlotsOf(t, k) ==
    {i \in DOMAIN mc_latest : mc_latest[i].topic = t /\ mc_latest[i].key = k}

(* A lookup fails on another phase, or when every slot is taken. *)
SlotRefused(t, k, phase) ==
    \/ \E i \in SlotsOf(t, k) : mc_latest[i].phase # phase
    \/ SlotsOf(t, k) = {} /\ Len(mc_latest) = LatestCapacity

FreshSlot(t, k, phase) ==
    [topic |-> t, key |-> k, phase |-> phase, data |-> 0, pending |-> FALSE]

(* latest_slot: the slots after a lookup that may allocate one. *)
LatestSlots(t, k, phase) ==
    IF SlotsOf(t, k) = {}
    THEN Append(mc_latest, FreshSlot(t, k, phase))
    ELSE mc_latest

LatestSlot(t, k) ==
    IF SlotsOf(t, k) = {} THEN Len(mc_latest) + 1
    ELSE CHOOSE i \in SlotsOf(t, k) : TRUE

Reject(t) ==
    mc_diagnostics' = [mc_diagnostics EXCEPT ![t].rejected = Succ(@)]

(* Mutant: a replaced value is not counted. *)
StoreLatest_NotCounted(slots, i, t) ==
    /\ mc_latest' = [slots EXCEPT ![i].data = Stamp(t), ![i].pending = TRUE]
    /\ mc_diagnostics' = [mc_diagnostics EXCEPT ![t].published = Succ(@)]

(* store_latest, in the table `slots`: an undelivered value is replaced. *)
StoreLatest(slots, i, t) ==
    /\ mc_latest' = [slots EXCEPT ![i].data = Stamp(t), ![i].pending = TRUE]
    /\ mc_diagnostics' =
         [mc_diagnostics EXCEPT
            ![t].published = Succ(@),
            ![t].coalesced = IF slots[i].pending THEN Succ(@) ELSE @]

----------------------------------------------------------------------------
(* Operations of the publishers, from an interrupt or from a callback *)

CanPublish(t) ==
    mc_diagnostics[t].published + mc_diagnostics[t].rejected < MaxPublish

PublishLatest(t, k, phase) ==
    /\ CanPublish(t)
    /\ IF SlotRefused(t, k, phase)
       THEN Reject(t) /\ UNCHANGED mc_latest
       ELSE StoreLatest(LatestSlots(t, k, phase), LatestSlot(t, k), t)
    /\ UNCHANGED <<queueVars, mc_latest_topic, dispatchVars>>

PublishToSlot(t) ==
    /\ CanPublish(t)
    /\ mc_latest_topic[t] # 0
    /\ StoreLatest(mc_latest, mc_latest_topic[t], t)
    /\ UNCHANGED <<queueVars, mc_latest_topic, dispatchVars>>

(* Mutant: a full ring refuses the new event. *)
PublishToQueue_DropNewest(t) ==
    /\ CanPublish(t)
    /\ mc_latest_topic[t] = 0
    /\ IF IsFull
       THEN UNCHANGED queueVars
       ELSE /\ mc_queue' = [mc_queue EXCEPT ![mc_head] =
                              [topic |-> t, key |-> Key0, data |-> Stamp(t)]]
            /\ mc_head' = After(mc_head)
            /\ UNCHANGED mc_tail
    /\ mc_diagnostics' =
         [mc_diagnostics EXCEPT
            ![t].published = Succ(@),
            ![t].overwritten = IF IsFull THEN Succ(@) ELSE @]
    /\ UNCHANGED <<latestVars, dispatchVars>>

(* A full ring gives up its oldest entry, of whatever topic that is. *)
PublishToQueue(t) ==
    /\ CanPublish(t)
    /\ mc_latest_topic[t] = 0
    /\ mc_tail' = IF IsFull THEN After(mc_tail) ELSE mc_tail
    /\ mc_queue' = [mc_queue EXCEPT ![mc_head] =
                      [topic |-> t, key |-> Key0, data |-> Stamp(t)]]
    /\ mc_head' = After(mc_head)
    /\ LET counted == [mc_diagnostics EXCEPT ![t].published = Succ(@)]
           victim  == mc_queue[mc_tail].topic
       IN  mc_diagnostics' =
             IF IsFull THEN [counted EXCEPT ![victim].overwritten = Succ(@)]
                       ELSE counted
    /\ UNCHANGED <<latestVars, dispatchVars>>

Publish(t) == PublishToSlot(t) \/ PublishToQueue(t)

(* Called by the task that dispatches, while it initialises controllers. *)
UseLatest(t, phase) ==
    /\ dispatcher.step = "idle"
    /\ IF SlotRefused(t, Key0, phase)
       THEN CanPublish(t) /\ Reject(t) /\ UNCHANGED latestVars
       ELSE /\ mc_latest' = LatestSlots(t, Key0, phase)
            /\ mc_latest_topic' =
                 [mc_latest_topic EXCEPT ![t] = LatestSlot(t, Key0)]
            /\ UNCHANGED mc_diagnostics
    /\ UNCHANGED <<queueVars, dispatchVars>>

----------------------------------------------------------------------------
(* MsgCenter_Dispatch, run by the control task *)

Nothing == [c \in Channels |-> 0]

Idle == [step |-> "idle", slot |-> 1, processed |-> 0]

WaitingInSlots ==
    [c \in Channels |->
       IF \E i \in DOMAIN mc_latest :
             mc_latest[i].pending /\ ChannelOf(mc_latest[i]) = c
       THEN mc_latest[CHOOSE i \in DOMAIN mc_latest :
                        ChannelOf(mc_latest[i]) = c].data
       ELSE 0]

BeginDispatch ==
    /\ dispatcher.step = "idle"
    /\ dispatcher' = [dispatcher EXCEPT !.step = "state"]
    /\ atStart' = WaitingInSlots
    /\ UNCHANGED <<queueVars, latestVars, mc_diagnostics, hand, received>>

(* Mutant: commands are dispatched before states. *)
SlotStep_Swapped(phase) == IF phase = "STATE" THEN "control" ELSE "state"

SlotStep(phase) == IF phase = "STATE" THEN "state" ELSE "control"

(* One iteration of dispatch_latest up to the end of its critical section. *)
TakeLatest(phase) ==
    LET i == dispatcher.slot IN
    /\ dispatcher.step = SlotStep(phase)
    /\ hand = NoEvent
    /\ i <= LatestCapacity
    /\ dispatcher' = [dispatcher EXCEPT !.slot = i + 1]
    /\ IF i <= Len(mc_latest) /\ mc_latest[i].phase = phase
          /\ mc_latest[i].pending
       THEN /\ hand' = [topic |-> mc_latest[i].topic, key |-> mc_latest[i].key,
                        data |-> mc_latest[i].data]
            /\ mc_latest' = [mc_latest EXCEPT ![i].pending = FALSE]
       ELSE UNCHANGED <<hand, mc_latest>>
    /\ UNCHANGED <<queueVars, mc_latest_topic, mc_diagnostics, received,
                   atStart>>

StepAfter(phase) == IF phase = "STATE" THEN "queue" ELSE "hooks"

EndLatest(phase) ==
    /\ dispatcher.step = SlotStep(phase)
    /\ hand = NoEvent
    /\ dispatcher.slot > LatestCapacity
    /\ dispatcher' = [dispatcher EXCEPT !.step = StepAfter(phase), !.slot = 1]
    /\ UNCHANGED <<queueVars, latestVars, mc_diagnostics, hand, received,
                   atStart>>

(* Mutants: old ring events are delivered; the budget is never used up. *)
Obsolete_Never(ev) == FALSE
CountProcessed_Never == dispatcher

(* The topic was switched to a slot after the event entered the ring. *)
Obsolete(ev) == mc_latest_topic[ev.topic] # 0

CountProcessed == [dispatcher EXCEPT !.processed = @ + 1]

(* One iteration of the ring loop up to the end of its critical section. *)
TakeQueued ==
    LET ev == mc_queue[mc_tail] IN
    /\ dispatcher.step = "queue"
    /\ hand = NoEvent
    /\ dispatcher.processed < DispatchBudget
    /\ ~IsEmpty
    /\ mc_tail' = After(mc_tail)
    /\ dispatcher' = CountProcessed
    /\ IF Obsolete(ev)
       THEN /\ mc_diagnostics' =
                 [mc_diagnostics EXCEPT ![ev.topic].coalesced = Succ(@)]
            /\ UNCHANGED hand
       ELSE hand' = ev /\ UNCHANGED mc_diagnostics
    /\ UNCHANGED <<mc_queue, mc_head, latestVars, received, atStart>>

StepAfterQueue == "control"

EndQueue ==
    /\ dispatcher.step = "queue"
    /\ hand = NoEvent
    /\ IsEmpty \/ dispatcher.processed = DispatchBudget
    /\ dispatcher' = [step |-> StepAfterQueue, slot |-> 1, processed |-> 0]
    /\ UNCHANGED <<queueVars, latestVars, mc_diagnostics, hand, received,
                   atStart>>

(* Mutant: the slot is released only after its callbacks have run. *)
Deliver_ReleaseAfter ==
    /\ hand # NoEvent
    /\ mc_diagnostics' =
         [mc_diagnostics EXCEPT ![hand.topic].delivered = Succ(@)]
    /\ received' = [received EXCEPT ![ChannelOf(hand)] = hand.data]
    /\ hand' = NoEvent
    /\ mc_latest' = [i \in DOMAIN mc_latest |->
         [mc_latest[i] EXCEPT !.pending = @ /\ ChannelOf(mc_latest[i]) # ChannelOf(hand)]]
    /\ UNCHANGED <<queueVars, mc_latest_topic, dispatcher, atStart>>

(* deliver: the subscribers run; what they publish are steps of their own. *)
Deliver ==
    /\ hand # NoEvent
    /\ mc_diagnostics' =
         [mc_diagnostics EXCEPT ![hand.topic].delivered = Succ(@)]
    /\ received' = [received EXCEPT ![ChannelOf(hand)] = hand.data]
    /\ hand' = NoEvent
    /\ UNCHANGED <<queueVars, latestVars, dispatcher, atStart>>

RunHooks ==
    /\ dispatcher.step = "hooks"
    /\ dispatcher' = Idle
    /\ atStart' = Nothing
    /\ UNCHANGED <<queueVars, latestVars, mc_diagnostics, hand, received>>

----------------------------------------------------------------------------
Init ==
    /\ mc_queue = [i \in Index |-> NoEvent]
    /\ mc_head = 0
    /\ mc_tail = 0
    /\ mc_latest = <<>>
    /\ mc_latest_topic = [t \in Topics |-> 0]
    /\ mc_diagnostics = [t \in Topics |->
         [published |-> 0, delivered |-> 0, overwritten |-> 0,
          coalesced |-> 0, rejected |-> 0]]
    /\ dispatcher = Idle
    /\ hand = NoEvent
    /\ received = Nothing
    /\ atStart = Nothing

Dispatch ==
    \/ BeginDispatch
    \/ \E phase \in Phase : TakeLatest(phase) \/ EndLatest(phase)
    \/ TakeQueued
    \/ EndQueue
    \/ Deliver
    \/ RunHooks

Next ==
    \/ \E t \in PlainTopics : Publish(t)
    \/ \E u \in KeyedUse : PublishLatest(u.topic, u.key, u.phase)
    \/ \E u \in TopicUse : UseLatest(u.topic, u.phase)
    \/ Dispatch

Spec == Init /\ [][Next]_vars

(* The control task calls MsgCenter_Dispatch in every period. *)
FairSpec == Spec /\ WF_vars(Dispatch)

----------------------------------------------------------------------------
(* The message center as a MessageBus.  An event counts as received when   *)
(* the dispatcher copies it out: its delivery cannot be prevented.  Ring   *)
(* events of a switched topic count as discarded by the switch.            *)

SlotPending(c) ==
    {mc_latest[i].data : i \in {j \in DOMAIN mc_latest :
        mc_latest[j].pending /\ ChannelOf(mc_latest[j]) = c}}

RingWaiting(c) ==
    {mc_queue[i].data : i \in {j \in Queued :
        ChannelOf(mc_queue[j]) = c /\ ~Obsolete(mc_queue[j])}}

PlainChannel(c) == c[1] \in PlainTopics /\ c[2] = Key0

SlotData(c) ==
    IF \E i \in DOMAIN mc_latest : ChannelOf(mc_latest[i]) = c
    THEN mc_latest[CHOOSE i \in DOMAIN mc_latest :
                     ChannelOf(mc_latest[i]) = c].data
    ELSE 0

Newest == [c \in Channels |-> IF PlainChannel(c)
                               THEN mc_diagnostics[c[1]].published
                               ELSE SlotData(c)]
Waiting == [c \in Channels |-> SlotPending(c) \cup RingWaiting(c)]
Seen == [c \in Channels |-> IF ChannelOf(hand) = c THEN hand.data
                                                  ELSE received[c]]
LatestOnly == [c \in Channels |-> PlainChannel(c) => mc_latest_topic[c[1]] # 0]

Bus == INSTANCE MessageBus WITH
    newest <- Newest, waiting <- Waiting, received <- Seen, latest <- LatestOnly

(* The message center keeps the promises of MessageBus to its users: what  *)
(* the ring, the slots and the interrupted dispatch do to a channel is     *)
(* publishing, delivering in order, or losing what may be lost.            *)
ImplementsBus == Bus!Spec

----------------------------------------------------------------------------
(* Properties *)

TypeOK ==
    /\ mc_queue \in [Index -> Event \cup {NoEvent}]
    /\ mc_head \in Index
    /\ mc_tail \in Index
    /\ mc_latest \in Seq(Slot)
    /\ Len(mc_latest) <= LatestCapacity
    /\ mc_latest_topic \in [Topics -> 0 .. Len(mc_latest)]
    /\ mc_diagnostics \in [Topics -> Diagnostics]
    /\ dispatcher \in Dispatcher
    /\ hand \in Event \cup {NoEvent}
    /\ received \in [Channels -> Counter]
    /\ atStart \in [Channels -> Counter]

QueuedOf(t) == {i \in Queued : mc_queue[i].topic = t}
PendingIn(slots, t) ==
    {i \in DOMAIN slots : slots[i].topic = t /\ slots[i].pending}
PendingOf(t) == PendingIn(mc_latest, t)
InHand(t) == IF hand.topic = t THEN 1 ELSE 0

(* What became of the events of t: delivered, or reported as overwritten or *)
(* coalesced; and those that are still in the ring, in a slot or in hand.   *)
Settled(t) == mc_diagnostics[t].delivered + mc_diagnostics[t].overwritten
                + mc_diagnostics[t].coalesced
Held(t) == Cardinality(QueuedOf(t)) + Cardinality(PendingOf(t)) + InHand(t)

(* No event disappears silently and none is delivered twice: the counters   *)
(* that MsgCenter_GetDiagnostics reports, with what the ring, the slots and *)
(* a dispatch in progress still hold, add up to what was published, modulo  *)
(* the width of the counters.                                               *)
Conservation ==
    \A t \in Topics :
        (mc_diagnostics[t].published - Settled(t) - Held(t)) % CounterModulus = 0

(* The newest value of a slot is never lost, whatever overflows, replaces   *)
(* or interrupts: it is pending, or being delivered, or is what the         *)
(* subscribers saw last.                                                    *)
NewestKept ==
    \A i \in DOMAIN mc_latest :
        LET s == mc_latest[i] IN
        \/ s.data = 0
        \/ s.pending
        \/ hand = [topic |-> s.topic, key |-> s.key, data |-> s.data]
        \/ received[ChannelOf(s)] = s.data

(* A ring topic loses its oldest events and never a newer one: what the     *)
(* ring holds of it are its most recent publications, without a gap.        *)
RingHoldsNewest ==
    \A t \in PlainTopics :
        mc_latest_topic[t] = 0 =>
            LET n == mc_diagnostics[t].published IN
            {mc_queue[i].data : i \in QueuedOf(t)} =
                (n - Cardinality(QueuedOf(t)) + 1) .. n

ServedSinceStart(phase) ==
    \A i \in DOMAIN mc_latest :
        mc_latest[i].phase = phase =>
            received[ChannelOf(mc_latest[i])] >= atStart[ChannelOf(mc_latest[i])]

(* A command is acted on only after every state that waited when the        *)
(* dispatch began, or a newer one, has reached its subscribers, and the     *)
(* transmission hooks run only after every command that waited has too.     *)
ControlAfterState ==
    /\ dispatcher.step = "control" /\ hand # NoEvent => ServedSinceStart("STATE")
    /\ dispatcher.step = "hooks" => ServedSinceStart("STATE")
                                    /\ ServedSinceStart("CONTROL")

(* However fast interrupts and callbacks publish, a dispatch returns.       *)
DispatchReturns == []<>(dispatcher.step = "idle")

(* A slot belongs to its topic, key and phase for good and no other slot    *)
(* has its topic and key: a table that is full, or a request with another   *)
(* phase, fails instead of taking the slot of another motor or command.     *)
SlotsKeepTheirOwner ==
    [][\A i \in DOMAIN mc_latest :
         /\ i \in DOMAIN mc_latest'
         /\ ChannelOf(mc_latest'[i]) = ChannelOf(mc_latest[i])
         /\ mc_latest'[i].phase = mc_latest[i].phase
         /\ \A j \in DOMAIN mc_latest' :
              ChannelOf(mc_latest'[j]) = ChannelOf(mc_latest'[i]) => j = i]_vars

Pending(i) == i \in DOMAIN mc_latest /\ mc_latest[i].pending

(* However fast interrupts and callbacks publish, a pending slot is served: *)
(* a flood of ring events cannot starve a command.                          *)
PendingServed ==
    \A i \in 1 .. LatestCapacity : Pending(i) ~> ~Pending(i)

============================================================================
