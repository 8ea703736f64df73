------------------------ MODULE GimbalMonitorProofs -------------------------
(***************************************************************************)
(* Proofs about GimbalMonitor for snapshots of every size and any number   *)
(* of publications: a sample is never torn.  The induction needs one fact  *)
(* more than the invariants of the runs: which publication the words of    *)
(* the block belong to between, and during, two publications.              *)
(***************************************************************************)
EXTENDS GimbalMonitor, TLAPS

(* What is not waiting to be written is of the publication under way, or   *)
(* of the last one.                                                        *)
BlockIsWritten ==
    /\ ~Odd(sequence) => unwritten = {}
    /\ \A w \in Words \ unwritten : block[w] = Publication(sequence)

IInv == TypeOK /\ BlockIsWritten /\ CopyIsWhole

(* How the sequence counts publications. *)
LEMMA Parity ==
    ASSUME NEW n \in Nat
    PROVE  /\ Publication(n) \in Nat
           /\ n \div 2 \in Nat
           /\ ~Odd(n) => /\ Odd(n + 1)
                         /\ Publication(n) = n \div 2
                         /\ Publication(n + 1) = Publication(n) + 1
                         /\ (n + 1) \div 2 = n \div 2
           /\ Odd(n) => /\ ~Odd(n + 1)
                        /\ Publication(n + 1) = Publication(n)
                        /\ (n + 1) \div 2 = n \div 2 + 1
  BY DEF Publication, Odd

LEMMA InitIInv == Init => IInv
<1> SUFFICES ASSUME Init PROVE IInv
  OBVIOUS
<1>1. Publication(0) = 0 /\ ~Odd(0)
  BY DEF Publication, Odd
<1> QED
  BY <1>1, SizeAssumption
     DEF Init, IInv, TypeOK, BlockIsWritten, CopyIsWhole, Words

LEMMA NextIInv == IInv /\ [Next]_vars => IInv'
<1> SUFFICES ASSUME IInv, [Next]_vars PROVE IInv'
  OBVIOUS
<1> USE SizeAssumption DEF IInv, writing, reading
<1>p. sequence \in Nat
  BY DEF TypeOK
<1>n. /\ Publication(sequence) \in Nat
      /\ ~Odd(sequence) => /\ Odd(sequence + 1)
                           /\ Publication(sequence + 1) = Publication(sequence) + 1
      /\ Odd(sequence) => /\ ~Odd(sequence + 1)
                          /\ Publication(sequence + 1) = Publication(sequence)
  BY <1>p, Parity
<1>1. CASE Begin
  <2>1. TypeOK'
    BY <1>1, <1>n DEF Begin, TypeOK
  <2>2. BlockIsWritten'
    BY <1>1, <1>n DEF Begin, TypeOK, BlockIsWritten
  <2>3. CopyIsWhole'
    BY <1>1, <1>n DEF Begin, TypeOK, CopyIsWhole
  <2> QED
    BY <2>1, <2>2, <2>3
<1>2. CASE \E w \in Words : Write(w)
  <2> PICK w \in Words : Write(w)
    BY <1>2
  <2>1. TypeOK'
    BY <1>n DEF Write, Content, TypeOK
  <2>2. BlockIsWritten'
    BY <1>n DEF Write, Content, TypeOK, BlockIsWritten
  <2>3. CopyIsWhole'
    BY DEF Write, CopyIsWhole
  <2> QED
    BY <2>1, <2>2, <2>3
<1>3. CASE End
  <2>1. TypeOK'
    BY <1>3, <1>n DEF End, TypeOK
  <2>2. BlockIsWritten'
    BY <1>3, <1>n DEF End, Written, TypeOK, BlockIsWritten
  <2>3. CopyIsWhole'
    BY <1>3, <1>n DEF End, TypeOK, CopyIsWhole
  <2> QED
    BY <2>1, <2>2, <2>3
<1>4. CASE ReadFirst
  <2>1. TypeOK' /\ BlockIsWritten'
    BY <1>4, <1>n DEF ReadFirst, TypeOK, BlockIsWritten
  <2>2. CopyIsWhole'
    BY <1>4 DEF ReadFirst, TypeOK, CopyIsWhole
  <2> QED
    BY <2>1, <2>2
<1>5. CASE ReadWord
  <2>0. Publication(sequence)' = Publication(sequence)
    BY <1>5 DEF ReadWord, Publication
  <2>1. TypeOK'
    <3>1. reader + 1 \in 0..(Size + 1) /\ block[reader] \in 0..Publication(sequence)
      BY <1>5 DEF ReadWord, TypeOK, Words
    <3>2. copy' \in [Words -> 0..Publication(sequence)]
      BY <1>5, <3>1 DEF ReadWord, TypeOK
    <3> QED
      BY <1>5, <2>0, <3>1, <3>2 DEF ReadWord, TypeOK
  <2>3. BlockIsWritten'
    BY <1>5, <2>0 DEF ReadWord, BlockIsWritten
  <2>2. CopyIsWhole'
    <3> SUFFICES ASSUME ~Odd(first), first = sequence, NEW w \in 1..reader
                 PROVE  copy'[w] = Publication(first)
      BY <1>5 DEF ReadWord, TypeOK, CopyIsWhole, Words
    <3>1. block[reader] = Publication(first)
      BY <1>5 DEF ReadWord, BlockIsWritten
    <3>2. CASE w = reader
      BY <1>5, <3>1, <3>2 DEF ReadWord, TypeOK, Words
    <3>3. CASE w # reader
      BY <1>5, <3>3 DEF ReadWord, TypeOK, CopyIsWhole, Words
    <3> QED
      BY <3>2, <3>3
  <2> QED
    BY <2>1, <2>2, <2>3
<1>6. CASE ReadAgain
  <2>1. TypeOK' /\ BlockIsWritten'
    BY <1>6, <1>n DEF ReadAgain, TypeOK, BlockIsWritten
  <2>2. CopyIsWhole'
    BY <1>6 DEF ReadAgain, TypeOK, CopyIsWhole
  <2> QED
    BY <2>1, <2>2
<1>7. CASE UNCHANGED vars
  BY <1>7 DEF vars, TypeOK, BlockIsWritten, CopyIsWhole
<1> QED
  BY <1>1, <1>2, <1>3, <1>4, <1>5, <1>6, <1>7 DEF Next, Publish, Read

(* The state stays well-formed: no word is from a later publication. *)
THEOREM TypeCorrect == Spec => []TypeOK
  BY InitIInv, NextIInv, PTL DEF Spec, IInv

(* What the reader gathers between two equal, even sequences is whole. *)
THEOREM CopyHolds == Spec => []CopyIsWhole
  BY InitIInv, NextIInv, PTL DEF Spec, IInv

----------------------------------------------------------------------------
(* What is accepted is the newest publication, whole. *)
LEMMA AcceptedIsNewest ==
    ASSUME IInv, ReadAgain, Accepted
    PROVE  copy = [w \in Words |-> sequence \div 2]
<1>1. \A w \in Words : copy[w] = Publication(sequence)
  BY SizeAssumption DEF IInv, TypeOK, CopyIsWhole, Accepted, ReadAgain, Words
<1>2. Publication(sequence) = sequence \div 2
  BY Parity DEF IInv, TypeOK, Accepted
<1> QED
  BY <1>1, <1>2 DEF IInv, TypeOK

LEMMA StepRefines ==
    ASSUME IInv, [Next]_vars
    PROVE  [Register!Next]_<<sequence \div 2, sample>>
<1> USE DEF writing, reading
<1>p. sequence \in Nat
  BY DEF IInv, TypeOK
<1>1. CASE Begin
  BY <1>1, <1>p, Parity DEF Begin
<1>2. CASE \E w \in Words : Write(w)
  BY <1>2 DEF Write
<1>3. CASE End
  BY <1>3, <1>p, Parity DEF End, Register!Next, Register!Publish
<1>4. CASE ReadFirst \/ ReadWord
  BY <1>4 DEF ReadFirst, ReadWord
<1>5. CASE ReadAgain
  <2>1. CASE Accepted
    BY <1>5, <2>1, AcceptedIsNewest DEF ReadAgain, Register!Next, Register!Sample
  <2>2. CASE ~Accepted
    BY <1>5, <2>2 DEF ReadAgain
  <2> QED
    BY <2>1, <2>2
<1>6. CASE UNCHANGED vars
  BY <1>6 DEF vars
<1> QED
  BY <1>1, <1>2, <1>3, <1>4, <1>5, <1>6 DEF Next, Publish, Read

(* The snapshot implements a register that is read and written at once. *)
THEOREM RegisterImplemented == Spec => RegisterSpec
<1>1. Init => Register!Init
  BY DEF Init, Register!Init
<1>2. IInv /\ [Next]_vars => [Register!Next]_<<sequence \div 2, sample>>
  BY StepRefines
<1> QED
  BY <1>1, <1>2, InitIInv, NextIInv, PTL DEF Spec, RegisterSpec, Register!Spec
==============================================================================
