-------------------------- MODULE MCMessageCenter --------------------------
(* Small instance of MessageCenter: raw CAN frames stay in the ring, the    *)
(* gimbal command may be switched to a slot of either phase while the       *)
(* system runs, and the feedback of two motors asks for slots of their own: *)
(* together they are one more than there are.                               *)
EXTENDS MessageCenter

MCPlainTopics == {"can_rx", "gimbal_cmd"}
TwoKeys == [topic : {"motor_feedback"}, key : {1, 2}, phase : {"STATE"}]
EitherPhase == [topic : {"gimbal_cmd"}, phase : Phase]
============================================================================
