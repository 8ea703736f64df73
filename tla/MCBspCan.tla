------------------------------ MODULE MCBspCan ------------------------------
(* Instances of BspCan for TLC: two buses with one mailbox each for the     *)
(* faults, one bus with several mailboxes and identifiers for the frames.   *)
EXTENDS BspCan
CONSTANTS id1, id2, id3
=============================================================================
