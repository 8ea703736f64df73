--------------------------- MODULE GimbalMonitor ----------------------------
(***************************************************************************)
(* The monitor snapshot of the gimbal: on_gimbal_cmd publishes it at the   *)
(* end of every callback (application/gimbal/gimbal_controller.c), and a   *)
(* debug probe reads it word by word while the processor runs              *)
(* (tools/gimbal_monitor.py).  Neither waits for the other: an odd         *)
(* sequence says that a publication is under way, and the reader drops     *)
(* what it read unless the sequence was even and is still the same.        *)
(*                                                                         *)
(* Abstraction.  A word is the number of the publication that wrote it,    *)
(* 0 at start-up.  The structure assignment may write its words in any     *)
(* order.  The sequence is unbounded: a read would have to take 2^31       *)
(* callbacks to meet the same one again.                                   *)
(***************************************************************************)
EXTENDS Integers

CONSTANTS
    Size,            \* words of the snapshot behind the sequence
    MaxPublished     \* bound of TLC's instances; the proofs do not use it

ASSUME SizeAssumption == Size \in Nat \ {0}

Words == 1..Size

VARIABLES
    sequence,        \* g_gimbal_monitor.sequence
    block,           \* the other words of g_gimbal_monitor
    unwritten,       \* the words the structure assignment has still to write
    reader,          \* the word the probe reads next: 0 is the sequence,
                     \*   Size + 1 the sequence again
    first,           \* the sequence the reader saw first
    copy,            \* the words it has read since
    sample           \* the last snapshot that decode_snapshot returned

vars == <<sequence, block, unwritten, reader, first, copy, sample>>

writing == <<sequence, block, unwritten>>
reading == <<reader, first, copy, sample>>

Odd(n) == n % 2 = 1

(* The number of a publication, while it is under way and after it. *)
Publication(seq) == (seq + 1) \div 2

----------------------------------------------------------------------------
(* on_gimbal_cmd: the sequence becomes odd. *)
Begin ==
    /\ ~Odd(sequence)
    /\ sequence' = sequence + 1
    /\ unwritten' = Words
    /\ UNCHANGED <<block, reading>>

Content == Publication(sequence)

(* One word of g_gimbal_monitor = next; its own sequence is the odd one. *)
Write(w) ==
    /\ w \in unwritten
    /\ block' = [block EXCEPT ![w] = Content]
    /\ unwritten' = unwritten \ {w}
    /\ UNCHANGED <<sequence, reading>>

Written == unwritten = {}

(* The sequence becomes even again. *)
End ==
    /\ Odd(sequence) /\ Written
    /\ sequence' = sequence + 1
    /\ UNCHANGED <<block, unwritten, reading>>

(* read_snapshot: the block from its first word on. *)
ReadFirst ==
    /\ reader = 0
    /\ first' = sequence
    /\ reader' = 1
    /\ UNCHANGED <<writing, copy, sample>>

ReadWord ==
    /\ reader \in Words
    /\ copy' = [copy EXCEPT ![reader] = block[reader]]
    /\ reader' = reader + 1
    /\ UNCHANGED <<writing, first, sample>>

(* Mutant: only a change is refused. *)
Accepted_Same == first = sequence

(* decode_snapshot: what it refuses is dropped; 0 was never published. *)
Accepted == ~Odd(first) /\ first = sequence /\ first # 0

ReadAgain ==
    /\ reader = Size + 1
    /\ reader' = 0
    /\ sample' = IF Accepted THEN copy ELSE sample
    /\ UNCHANGED <<writing, first, copy>>

Init ==
    /\ sequence = 0
    /\ block = [w \in Words |-> 0]
    /\ unwritten = {}
    /\ reader = 0
    /\ first = 0
    /\ copy = [w \in Words |-> 0]
    /\ sample = [w \in Words |-> 0]

Publish == Begin \/ (\E w \in Words : Write(w)) \/ End

Read == ReadFirst \/ ReadWord \/ ReadAgain

Next == Publish \/ Read

Spec == Init /\ [][Next]_vars

(* A bound of TLC's instances. *)
Bounded == sequence <= 2 * MaxPublished

----------------------------------------------------------------------------
(* The whole state; a word is never newer than the publication under way.  *)
TypeOK ==
    /\ sequence \in Nat
    /\ block \in [Words -> 0..Publication(sequence)]
    /\ unwritten \in SUBSET Words
    /\ reader \in 0..(Size + 1)
    /\ first \in 0..sequence
    /\ copy \in [Words -> 0..Publication(sequence)]
    /\ sample \in [Words -> 0..Publication(sequence)]

(* What the reader gathers between two equal, even sequences is one        *)
(* publication, whatever was written meanwhile (gimbal_controller.c:1033   *)
(* with gimbal_monitor.py:44).                                             *)
CopyIsWhole ==
    ~Odd(first) /\ first = sequence =>
        \A w \in 1..(reader - 1) : copy[w] = Publication(first)

(* The snapshot is a register: every sample is one publication, whole, and *)
(* the newest one when it is taken; samples never go back.                 *)
Register == INSTANCE SnapshotRegister WITH published <- sequence \div 2

RegisterSpec == Register!Spec
==============================================================================
