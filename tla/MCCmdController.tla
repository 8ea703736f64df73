--------------------------- MODULE MCCmdController ---------------------------
(* Instances of CmdController for TLC: one bus with one mailbox.            *)
EXTENDS CmdController
CONSTANTS id1

MCRemoteInputs ==
    {[s0 |-> "down", rest_neutral |-> TRUE], [s0 |-> "up", rest_neutral |-> TRUE]}
=============================================================================
