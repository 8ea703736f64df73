------------------------------- MODULE CanPort -------------------------------
(***************************************************************************)
(* What the CAN driver promises to those that send motor commands through  *)
(* it, without saying how: one frame of an identifier is in flight on a    *)
(* bus, a command is accepted only while the outputs are armed, a fault    *)
(* disarms them, and arming again waits until the frames of before the     *)
(* fault have gone.  BspCan implements it, CanManager is built on it.      *)
(***************************************************************************)
CONSTANTS Buses, Ids

VARIABLES
    armed,      \* BspCan_OutputsArmed()
    flight      \* the frames in the mailboxes; `old`: of before a fault

vars == <<armed, flight>>

Frame == [bus : Buses, id : Ids, nonzero : BOOLEAN, old : BOOLEAN]

Accept(b, id, nonzero) ==
    /\ nonzero => armed
    /\ \A f \in flight : <<f.bus, f.id>> # <<b, id>>
    /\ flight' = flight \cup
         {[bus |-> b, id |-> id, nonzero |-> nonzero, old |-> FALSE]}
    /\ armed' = armed

(* A frame was sent or given up. *)
Leave(f) ==
    /\ flight' = flight \ {f}
    /\ armed' = armed

Fault ==
    /\ armed' = FALSE
    /\ flight' = {[f EXCEPT !.old = TRUE] : f \in flight}

Arm ==
    /\ \A f \in flight : ~f.old
    /\ armed' = TRUE
    /\ flight' = flight

Init == armed = FALSE /\ flight = {}

Next ==
    \/ \E b \in Buses, id \in Ids, nonzero \in BOOLEAN : Accept(b, id, nonzero)
    \/ \E f \in flight : Leave(f)
    \/ Fault
    \/ Arm

Spec == Init /\ [][Next]_vars

TypeOK == armed \in BOOLEAN /\ flight \subseteq Frame
==============================================================================
