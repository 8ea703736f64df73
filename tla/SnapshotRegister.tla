-------------------------- MODULE SnapshotRegister ---------------------------
(***************************************************************************)
(* What a reader of the gimbal's monitor relies on (docs/gimbal-monitor.md,*)
(* "数据一致性与范围"): publications follow each other, and a sample is one *)
(* of them, whole, the newest there is when the sample is taken.           *)
(***************************************************************************)
EXTENDS Naturals

CONSTANT Words           \* what a snapshot consists of

VARIABLES published,     \* how many snapshots were published
          sample         \* per word, the publication the last sample shows

Init ==
    /\ published = 0
    /\ sample = [w \in Words |-> 0]

Publish ==
    /\ published' = published + 1
    /\ UNCHANGED sample

Sample ==
    /\ sample' = [w \in Words |-> published]
    /\ UNCHANGED published

Next == Publish \/ Sample

Spec == Init /\ [][Next]_<<published, sample>>
==============================================================================
