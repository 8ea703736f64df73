------------------------------ MODULE WitLink ------------------------------
(***************************************************************************)
(* The inertial unit of the chassis, a WT61C: its serial line, and the     *)
(* parser (modules/imu/wt61c.c) that the interrupt of Src/main.c feeds.    *)
(*                                                                         *)
(* Abstraction.  The unit sends its frames in bursts, one of each kind;    *)
(* all the values of a burst are its number, modulo Bursts.  A frame has   *)
(* FrameLen bytes; a byte is known by its place, and by whether it reads   *)
(* 0x55.  The sum of a frame is taken to be right just when its bytes are  *)
(* all of one frame, and undamaged.                                        *)
(***************************************************************************)
EXTENDS Integers, Sequences

CONSTANTS
    Kinds,               \* the frames of a burst: <<acceleration, rate, angle>>
    FrameLen,            \* bytes of a frame (11)
    Looks,               \* <<frame, place>> of the payload bytes that read 0x55
    Bursts,              \* numbers of bursts told apart
    MaxDamage,           \* bytes lost or changed on the line, at most
    MaxErrors            \* line errors seen by the UART, at most

(* What MCMotion assumes of each instance. *)
LinkAssumption ==
    /\ Kinds \in Seq({Kinds[k] : k \in 1..Len(Kinds)}) /\ Kinds # <<>>
    /\ {FrameLen, Bursts} \subseteq Nat /\ FrameLen > 2 /\ Bursts > 1
    /\ Looks \subseteq (1..Len(Kinds)) \X (2..FrameLen)
    /\ {MaxDamage, MaxErrors} \subseteq Nat

VARIABLES
    line,                \* the next byte of the unit: [burst, frame, place]
    damage, errors,      \* counts of what the line did
    clean,               \* history: frames ended since the last damage, to 3
    on,                  \* a reception of the UART is under way
    wt61c_rxbuf,         \* the bytes since its start
    s_parser,            \* [st, buf]
    s_data               \* per kind: the burst it was parsed from

wire == <<line, damage, errors, clean>>
vars == <<wire, on, wt61c_rxbuf, s_parser, s_data>>

Frames == 1..Len(Kinds)
KindSet == {Kinds[k] : k \in Frames}
Numbers == 0..Bursts                   \* 0: memset, nothing parsed yet

(* A byte as it arrives; look: it reads 0x55. *)
Sent(l) == [burst |-> l.burst, frame |-> l.frame, place |-> l.place,
            look |-> l.place = 1 \/ <<l.frame, l.place>> \in Looks]
Changed(look) == [burst |-> 0, frame |-> 0, place |-> 0, look |-> look]

AtBurst(l) == l.frame = 1 /\ l.place = 1
Burst(n) == [burst |-> n, frame |-> 1, place |-> 1]

After(l) ==
    IF l.place < FrameLen THEN [l EXCEPT !.place = @ + 1]
    ELSE IF l.frame < Len(Kinds) THEN [l EXCEPT !.frame = @ + 1, !.place = 1]
    ELSE Burst((l.burst % Bursts) + 1)

(***************************************************************************)
(* The parser.                                                             *)
(***************************************************************************)
Waiting == [st |-> "wait55", buf |-> <<>>]

(* The sum of the ten bytes is the eleventh. *)
SumIsRight(f) ==
    \E n \in 1..Bursts, k \in Frames : \A i \in 1..FrameLen :
        /\ f[i].burst = n /\ f[i].frame = k /\ f[i].place = i

parse_one_frame(data, f) ==
    IF SumIsRight(f) THEN [data EXCEPT ![Kinds[f[1].frame]] = f[1].burst]
    ELSE data

Step(p, b) ==
    CASE p.st = "wait55" ->
            IF b.look THEN [st |-> "id", buf |-> <<b>>] ELSE p
      [] p.st = "id" -> [st |-> "payload", buf |-> Append(p.buf, b)]
      [] p.st = "payload" ->
            IF Len(p.buf) + 1 >= FrameLen THEN Waiting
            ELSE [p EXCEPT !.buf = Append(@, b)]

(* Mutant: a parser that is not reset by a frame with a wrong sum. *)
WT61C_ProcessByte_Stuck(d, b) ==
    LET full == d.p.st = "payload" /\ Len(d.p.buf) + 1 >= FrameLen
        f == Append(d.p.buf, b)
    IN IF full /\ ~SumIsRight(f)
       THEN [d EXCEPT !.p.buf = <<>>]
       ELSE [p |-> Step(d.p, b),
             data |-> IF full THEN parse_one_frame(d.data, f) ELSE d.data]

WT61C_ProcessByte(d, b) ==
    LET full == d.p.st = "payload" /\ Len(d.p.buf) + 1 >= FrameLen
    IN [p |-> Step(d.p, b),
        data |-> IF full THEN parse_one_frame(d.data, Append(d.p.buf, b))
                 ELSE d.data]

(* One byte after the other; each is bound to a value, so that TLC computes *)
(* it once.                                                                *)
Processed(d, bytes) ==
    LET done[i \in 0..Len(bytes)] ==
            IF i = 0 THEN d
            ELSE CHOOSE r \in {WT61C_ProcessByte(e, bytes[i]) : e \in {done[i - 1]}} : TRUE
    IN  done[Len(bytes)]

WT61C_ProcessBytes(bytes) == Processed([p |-> s_parser, data |-> s_data], bytes)

(***************************************************************************)
(* The start: WT61C_Init, and a reception that begins anywhere in a burst. *)
(***************************************************************************)
Init ==
    /\ \E k \in Frames, p \in 1..FrameLen :
            line = [burst |-> 1, frame |-> k, place |-> p]
    /\ damage = 0 /\ errors = 0 /\ clean = 0
    /\ on = TRUE /\ wt61c_rxbuf = <<>>
    /\ s_parser = Waiting /\ s_data = [k \in KindSet |-> 0]

(***************************************************************************)
(* The line.  A burst ends long before the next, and the idle line raises  *)
(* the event before: no burst begins with bytes in the buffer.             *)
(***************************************************************************)
Ready == AtBurst(line) => wt61c_rxbuf = <<>>

Counted(ok) ==
    clean' = IF ~ok THEN 0
             ELSE IF line.place = FrameLen /\ clean < 3 THEN clean + 1
             ELSE clean

Byte ==
    /\ Ready
    /\ line' = After(line)
    /\ wt61c_rxbuf' = IF on THEN Append(wt61c_rxbuf, Sent(line)) ELSE <<>>
    /\ Counted(on)
    /\ UNCHANGED <<damage, errors, on, s_parser, s_data>>

(* A byte is lost, or becomes another: the UART does not notice. *)
Damage ==
    /\ Ready /\ damage < MaxDamage
    /\ damage' = damage + 1 /\ line' = After(line)
    /\ \/ UNCHANGED wt61c_rxbuf
       \/ /\ on
          /\ \E look \in BOOLEAN :
                wt61c_rxbuf' = Append(wt61c_rxbuf, Changed(look))
    /\ Counted(FALSE)
    /\ UNCHANGED <<errors, on, s_parser, s_data>>

(* The UART notices: HAL ends the reception with what it holds and calls    *)
(* HAL_UART_ErrorCallback, which returns for every line but the remote's.  *)
LineError ==
    /\ on /\ errors < MaxErrors
    /\ errors' = errors + 1
    /\ on' = FALSE /\ wt61c_rxbuf' = <<>> /\ clean' = 0
    /\ UNCHANGED <<line, damage, s_parser, s_data>>

(* HAL_UARTEx_RxEventCallback: an idle line; the reception begins anew. *)
Event ==
    /\ on /\ wt61c_rxbuf # <<>>
    /\ LET done == WT61C_ProcessBytes(wt61c_rxbuf)
       IN /\ s_parser' = done.p /\ s_data' = done.data
    /\ wt61c_rxbuf' = <<>>
    /\ UNCHANGED <<wire, on>>

Next == Byte \/ Damage \/ LineError \/ Event

Spec == Init /\ [][Next]_vars

(* The unit keeps sending and an idle line raises its interrupt. *)
LiveSpec == Spec /\ WF_vars(Byte) /\ WF_vars(Event)

(***************************************************************************)
(* Properties.                                                             *)
(***************************************************************************)
(* The state has the shape its declarations give it. *)
TypeOK ==
    /\ line \in [burst : 1..Bursts, frame : Frames, place : 1..FrameLen]
    /\ damage \in 0..MaxDamage /\ errors \in 0..MaxErrors /\ clean \in 0..3
    /\ on \in BOOLEAN
    /\ Len(wt61c_rxbuf) <= FrameLen * Len(Kinds)
    /\ s_parser.st \in {"wait55", "id", "payload"}
    /\ Len(s_parser.buf) < FrameLen
    /\ s_data \in [KindSet -> Numbers]

Before(l) ==
    IF l.frame > 1 THEN [l EXCEPT !.frame = @ - 1]
    ELSE [l EXCEPT !.frame = Len(Kinds),
                   !.burst = IF @ = 1 THEN Bursts ELSE @ - 1]

(* However the bytes are cut into events, wherever the reception began and *)
(* whatever was lost or changed: two frames later at most the parser takes *)
(* every frame again (no byte of a payload reading 0x55).                  *)
TakesWholeFrames ==
    on /\ wt61c_rxbuf = <<>> /\ line.place = 1 /\ clean = 3
        => s_data[Kinds[Before(line).frame]] = Before(line).burst

(* The line and its parser in every state. *)
LinkInv ==
    /\ TypeOK
    /\ TakesWholeFrames

(* WT61C_GetData returns the latest data ("Get pointer to latest sensor    *)
(* data", wt61c.h:41): again and again, at the end of a burst, all of it   *)
(* is of that burst, in spite of what was lost before.                     *)
KeepsUp ==
    []<>(/\ wt61c_rxbuf = <<>> /\ AtBurst(line)
         /\ \A k \in KindSet : s_data[k] = Before(line).burst)

=============================================================================
