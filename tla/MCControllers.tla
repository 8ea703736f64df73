--------------------------- MODULE MCControllers ---------------------------
(* The controllers under the message center, one at a time: they share no   *)
(* state, so a behaviour in which one of them runs shows all there is to    *)
(* see.  `part` says which.  The shooter is ShooterFeed itself; the router  *)
(* and the gimbal run in several configurations over variables of theirs,   *)
(* which mean nothing (0) while another component runs.  Which ones is a    *)
(* constant, so that ControllersProofs speaks of all of them.               *)
EXTENDS ShooterFeed, TLC

CONSTANTS
    Parts,          \* the parts a run looks at
    RouterConf,     \* the configurations of CommandRouter, by part
    GimbalConf,     \* and of GimbalHold
    wheel1, wheel2

VARIABLES
    part,
    r_now, r_mode, r_routed, r_hold, r_brake, r_entry, r_downSeen, r_dial,
    r_memory, r_inbox, r_out, r_past,
    g_booting, g_age, g_inside, g_steady, g_captured, g_limitFault, g_ref,
    g_mode, g_stop, g_yaw, g_pitch, g_frame, g_taken, g_on, g_past

router == <<r_now, r_mode, r_routed, r_hold, r_brake, r_entry, r_downSeen,
            r_dial, r_memory, r_inbox, r_out, r_past>>
gimbal == <<g_booting, g_age, g_inside, g_steady, g_captured, g_limitFault,
            g_ref, g_mode, g_stop, g_yaw, g_pitch, g_frame, g_taken, g_on,
            g_past>>
allVars == <<part, vars, router, gimbal>>

WheelSymmetry == Permutations(Wheels)

----------------------------------------------------------------------------
(* The router: the yaw hold over the whole clock; the dial, where 2 keeps it *)
(* turning and does not start it; the vision messages.                      *)
Heading(recent, angle) == [valid |-> TRUE, recent |-> recent, angle |-> angle]
NoHeading == [valid |-> FALSE, recent |-> FALSE, angle |-> 0]

YawInputs ==
    [s0 : {"mid"}, s1 : {"down", "mid", "up"}, dial : {0}, yaw : 0..1,
     adjust : BOOLEAN, moved : {TRUE},
     heading : {NoHeading, Heading(FALSE, 0), Heading(TRUE, 1)}]
DialInputs ==
    [s0 : {"down", "mid"}, s1 : {"down", "mid", "up"}, dial : {-4, 2, 4},
     yaw : {0}, adjust : {FALSE}, moved : {TRUE},
     heading : {Heading(TRUE, 0)}]
VisionInputs ==
    [s0 : {"down"}, s1 : {"mid", "up"}, dial : {0}, yaw : {0},
     adjust : {FALSE}, moved : {FALSE}, heading : {NoHeading}]

Routers ==
    [yaw |->
       [W |-> 8, MaxGap |-> 1, MaxDt |-> 1, BrakeMs |-> 2, VisionMs |-> 1,
        DialEnter |-> 2, DialExit |-> 0, Slew |-> 2, Angles |-> 2,
        Inputs |-> YawInputs, Messages |-> {}, Encoder |-> TRUE],
     dial |->
       [W |-> 8, MaxGap |-> 2, MaxDt |-> 1, BrakeMs |-> 1, VisionMs |-> 1,
        DialEnter |-> 3, DialExit |-> 1, Slew |-> 3, Angles |-> 1,
        Inputs |-> DialInputs, Messages |-> {}, Encoder |-> TRUE],
     vision |->
       [W |-> 8, MaxGap |-> 2, MaxDt |-> 1, BrakeMs |-> 1, VisionMs |-> 2,
        DialEnter |-> 2, DialExit |-> 1, Slew |-> 3, Angles |-> 1,
        Inputs |-> VisionInputs, Messages |-> BOOLEAN, Encoder |-> FALSE]]

Router(p) == INSTANCE CommandRouter WITH
    W <- RouterConf[p].W, MaxGap <- RouterConf[p].MaxGap,
    MaxDt <- RouterConf[p].MaxDt, BrakeMs <- RouterConf[p].BrakeMs,
    VisionMs <- RouterConf[p].VisionMs, DialEnter <- RouterConf[p].DialEnter,
    DialExit <- RouterConf[p].DialExit, Slew <- RouterConf[p].Slew,
    Angles <- RouterConf[p].Angles, Inputs <- RouterConf[p].Inputs,
    Messages <- RouterConf[p].Messages, Encoder <- RouterConf[p].Encoder,
    now <- r_now, mode <- r_mode, routed <- r_routed, hold <- r_hold,
    brake <- r_brake, entry <- r_entry, downSeen <- r_downSeen,
    dial <- r_dial, memory <- r_memory, inbox <- r_inbox, out <- r_out,
    past <- r_past

(* The gimbal: manual and spin, and vision. *)
Gimbals ==
    [hold |->
       [FreshMs |-> 2, StableMs |-> 3, GapMs |-> 1, SettleMs |-> 2,
        MaxGap |-> 2, Frames |-> 2, News |-> {FALSE}, Slows |-> BOOLEAN,
        Commands |-> {"disabled", "stick", "rest", "spin"}],
     aim |->
       [FreshMs |-> 2, StableMs |-> 1, GapMs |-> 1, SettleMs |-> 2,
        MaxGap |-> 2, Frames |-> 2, News |-> BOOLEAN, Slows |-> {TRUE},
        Commands |-> {"disabled", "rest", "vision"}]]

Gimbal(p) == INSTANCE GimbalHold WITH
    FreshMs <- GimbalConf[p].FreshMs, StableMs <- GimbalConf[p].StableMs,
    GapMs <- GimbalConf[p].GapMs, SettleMs <- GimbalConf[p].SettleMs,
    MaxGap <- GimbalConf[p].MaxGap, Frames <- GimbalConf[p].Frames,
    Commands <- GimbalConf[p].Commands, News <- GimbalConf[p].News,
    Slows <- GimbalConf[p].Slows,
    booting <- g_booting, age <- g_age, inside <- g_inside,
    steady <- g_steady, captured <- g_captured, limitFault <- g_limitFault,
    ref <- g_ref, mode <- g_mode, stop <- g_stop, yaw <- g_yaw,
    pitch <- g_pitch, frame <- g_frame, taken <- g_taken, on <- g_on,
    past <- g_past

ASSUME RoutersOK == \A p \in DOMAIN RouterConf : Router(p)!RouterAssumption
ASSUME GimbalsOK == \A p \in DOMAIN GimbalConf : Gimbal(p)!HoldAssumption

----------------------------------------------------------------------------
(* Each part starts in an initial state of its component. *)
RouterInit ==
    IF part \in DOMAIN RouterConf
    THEN \E p \in DOMAIN RouterConf : part = p /\ Router(p)!Init
    ELSE r_now = 0 /\ r_mode = 0 /\ r_routed = 0 /\ r_hold = 0 /\ r_brake = 0
         /\ r_entry = 0 /\ r_downSeen = 0 /\ r_dial = 0 /\ r_memory = 0
         /\ r_inbox = 0 /\ r_out = 0 /\ r_past = 0

GimbalInit ==
    IF part \in DOMAIN GimbalConf
    THEN \E p \in DOMAIN GimbalConf : part = p /\ Gimbal(p)!Init
    ELSE g_booting = 0 /\ g_age = 0 /\ g_inside = 0 /\ g_steady = 0 /\
         g_captured = 0 /\ g_limitFault = 0 /\ g_ref = 0 /\ g_mode = 0 /\
         g_stop = 0 /\ g_yaw = 0 /\ g_pitch = 0 /\ g_frame = 0 /\
         g_taken = 0 /\ g_on = 0 /\ g_past = 0

AllInit ==
    /\ part \in Parts
    /\ Init
    /\ part # "feed" => armed
    /\ RouterInit /\ GimbalInit

AllNext ==
    \/ part = "feed" /\ Next /\ UNCHANGED <<part, router, gimbal>>
    \/ \E p \in DOMAIN RouterConf :
          part = p /\ Router(p)!Next /\ UNCHANGED <<part, vars, gimbal>>
    \/ \E p \in DOMAIN GimbalConf :
          part = p /\ Gimbal(p)!Next /\ UNCHANGED <<part, vars, router>>

AllSpec == AllInit /\ [][AllNext]_allVars

(* CommandRouter!RouterInv: nothing of before the loss of the remote works  *)
(* on, and the brake after spin ends.                                       *)
RouterInv == \A p \in DOMAIN RouterConf : part = p => Router(p)!RouterInv

(* CommandRouter!RouterStep: vision errors are fresh, rotation is smooth.   *)
RouterChanges ==
    [][\A p \in DOMAIN RouterConf : part = p => Router(p)!RouterStep]_router

(* GimbalHold!HoldInv: the gimbal is driven when that is safe, to a target  *)
(* of now.                                                                  *)
GimbalInv == \A p \in DOMAIN GimbalConf : part = p => Gimbal(p)!HoldInv

(* GimbalHold!HoldsWhereItStopped: a manual yaw is held where it stopped.   *)
GimbalChanges ==
    [][\A p \in DOMAIN GimbalConf :
         part = p => Gimbal(p)!HoldsWhereItStopped]_gimbal

----------------------------------------------------------------------------
(* What the repository says and these controllers do not do; none of it     *)
(* holds, and a configuration that checks one of them shows how.            *)

(* CommandRouter!BrakeIsOver: the brake after spin is over when it ends.    *)
BrakeIsOver == \A p \in DOMAIN RouterConf : part = p => Router(p)!BrakeIsOver

(* CommandRouter!SpinUsesLastHeading: spin without a heading keeps the last *)
(* one there was.                                                           *)
SpinUsesLastHeading ==
    \A p \in DOMAIN RouterConf : part = p => Router(p)!SpinUsesLastHeading

(* GimbalHold!RecoversInPlace: pitch is not driven to the initial angle     *)
(* after it was outside its limits.                                         *)
RecoversInPlace ==
    [][\A p \in DOMAIN GimbalConf : part = p => Gimbal(p)!RecoversInPlace]_gimbal
============================================================================
