---------------------------- MODULE MessageBus ----------------------------
(***************************************************************************)
(* What the message center promises its users, without ring, slots, phases *)
(* or critical sections: a set of undelivered events per channel.          *)
(*                                                                         *)
(*   - a channel delivers events in the order of their publication, each   *)
(*     at most once, and only events that were published;                  *)
(*   - an event channel gives up events only oldest first;                 *)
(*   - a latest-value channel may give up any event but the newest.        *)
(*                                                                         *)
(* Events of a channel are numbered; a number never comes twice.           *)
(***************************************************************************)
EXTENDS Naturals

CONSTANT Channels

VARIABLES
    newest,    \* [Channels -> Nat]: number of the newest publication
    waiting,   \* [Channels -> SUBSET Nat]: published and not delivered
    received,  \* [Channels -> Nat]: the last event delivered
    latest     \* [Channels -> BOOLEAN]: only the newest value matters

vars == <<newest, waiting, received, latest>>

IsOldest(n, S) == n \in S /\ \A m \in S : n <= m

Publish(c) ==
    /\ newest'[c] > newest[c]
    /\ newest' = [newest EXCEPT ![c] = newest'[c]]
    /\ IF latest[c]
       THEN waiting' = [waiting EXCEPT ![c] = {newest'[c]}]
       ELSE \/ waiting' = [waiting EXCEPT ![c] = @ \cup {newest'[c]}]
            \/ \E d \in Channels : \E n \in waiting[d] :
                 /\ ~latest[d]
                 /\ IsOldest(n, waiting[d])
                 /\ waiting' =
                      [[waiting EXCEPT ![d] = @ \ {n}]
                         EXCEPT ![c] = @ \cup {newest'[c]}]
    /\ UNCHANGED <<received, latest>>

Deliver(c) ==
    /\ received'[c] > received[c]
    /\ received' = [received EXCEPT ![c] = received'[c]]
    /\ IsOldest(received'[c], waiting[c])
    /\ waiting' = [waiting EXCEPT ![c] = @ \ {received'[c]}]
    /\ UNCHANGED <<newest, latest>>

(* Switching a channel to latest-value discards what still waited. *)
BecomeLatest(c) ==
    /\ ~latest[c]
    /\ latest'[c]
    /\ latest' = [latest EXCEPT ![c] = TRUE]
    /\ waiting' = [waiting EXCEPT ![c] = {}]
    /\ UNCHANGED <<newest, received>>

Init ==
    /\ newest = [c \in Channels |-> 0]
    /\ waiting = [c \in Channels |-> {}]
    /\ received = [c \in Channels |-> 0]
    /\ latest \in [Channels -> BOOLEAN]

Next == \E c \in Channels : Publish(c) \/ Deliver(c) \/ BecomeLatest(c)

Spec == Init /\ [][Next]_vars
============================================================================
