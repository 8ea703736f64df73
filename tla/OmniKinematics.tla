--------------------------- MODULE OmniKinematics ----------------------------
(***************************************************************************)
(* omni_compute of adapters/chassis/omni_chassis_strategy.c: what each of  *)
(* the four wheels must turn for the body to move as it was asked.         *)
(*                                                                         *)
(* Numbers.  The code's are floats; here they are integers, and a wheel's  *)
(* speed is a fraction.  One is the integer that stands for 1.0 in a       *)
(* command.  Lengths of translations are roots: the commands are taken     *)
(* from pairs that have a whole one.  A wheel's drive direction has the    *)
(* squared length DriveSquare, which the code checks to be 1; its          *)
(* reduction and radius are one factor, gear.  Rounding, overflow and      *)
(* values that are not finite are left out.                                *)
(***************************************************************************)
EXTENDS Integers, FiniteSetsExt

CONSTANTS
    Wheels,              \* possible wheels: [x, y, tx, ty, gear]
    DriveSquare,         \* of a valid drive direction
    One,                 \* 1.0 in a command
    Translations,        \* possible commands: <<vx, vy>>
    Rotations,           \* possible commands: wz
    MaxTranslation, MaxRotation,     \* max_translation_mps, _rotation_radps
    MaxDriveSpeed        \* of ChassisKinematicsInput

Slots == 1..4            \* OMNI_WHEEL_COUNT

Longest == 4 * One

Square(v) == v[1] * v[1] + v[2] * v[2]

(* What MCMotion assumes of each instance. *)
OmniAssumption ==
    /\ {One, DriveSquare} \subseteq Nat \ {0}
    /\ {MaxTranslation, MaxRotation} \subseteq Nat \ {0}
    /\ MaxDriveSpeed \in Nat /\ Rotations \subseteq Int
    /\ \A w \in Wheels : {w.x, w.y, w.tx, w.ty, w.gear} \subseteq Int
    /\ Translations \subseteq Int \X Int
    /\ \A v \in Translations : \E n \in 0..Longest : n * n = Square(v)

VARIABLES
    geometry,            \* the wheels, in the order of the configuration
    configured,          \* OmniChassisConfig.configured
    input,               \* the last ChassisKinematicsInput
    status, output       \* what omni_compute made of it

vars == <<geometry, configured, input, status, output>>

Length(v) == CHOOSE n \in 0..Longest : n * n = Square(v)

AbsOf(n) == IF n < 0 THEN -n ELSE n

Largest(f) == Max({AbsOf(f[i]) : i \in Slots})

Standing == [num |-> [i \in Slots |-> 0], den |-> 1]

----------------------------------------------------------------------------
(* The geometry.                                                           *)

Lever(w) == w.x * w.ty - w.y * w.tx

Rows(g) == [i \in Slots |-> <<g[i].tx, g[i].ty, Lever(g[i])>>]

Det(r, s, t) ==
    r[1] * (s[2] * t[3] - s[3] * t[2]) - r[2] * (s[1] * t[3] - s[3] * t[1])
        + r[3] * (s[1] * t[2] - s[2] * t[1])

has_three_dof(rows) ==
    /\ \E i \in Slots : rows[i][3] # 0
    /\ \E a \in 1..2 : \E b \in a + 1..3 : \E c \in b + 1..4 :
          Det(rows[a], rows[b], rows[c]) # 0

WheelsValid(g) == \A i \in Slots :
    g[i].tx * g[i].tx + g[i].ty * g[i].ty = DriveSquare /\ g[i].gear > 0

----------------------------------------------------------------------------
(* The command.                                                            *)

(* A translation longer than 1 is shortened to it; this is what is divided *)
(* by to do so, with the translation taken as it is.                       *)
Shortening(in) == Max({One, Length(<<in.vx, in.vy>>)})

Clamped(wz) == Max({-5 * One, Min({5 * One, wz})})

(* The speeds over One * Shortening(in) *)
Projected(g, in) ==
    [i \in Slots |->
        g[i].gear *
            ( (g[i].tx * in.vx + g[i].ty * in.vy) * MaxTranslation * One
              + Lever(g[i]) * Clamped(in.wz) * MaxRotation * Shortening(in) )]

(* Mutant: each wheel is limited for itself. *)
Scaled_Each(speeds, den) ==
    [num |-> [i \in Slots |->
                Max({-MaxDriveSpeed * den, Min({MaxDriveSpeed * den, speeds[i]})})],
     den |-> den]

(* All wheels are slowed down by what the fastest needs. *)
Scaled(speeds, den) ==
    IF Largest(speeds) > MaxDriveSpeed * den
    THEN [num |-> [i \in Slots |-> speeds[i] * MaxDriveSpeed],
          den |-> Largest(speeds)]
    ELSE [num |-> speeds, den |-> den]

omni_compute(in) ==
    /\ input' = in
    /\ status' = IF ~configured THEN "NOT_READY"
                 ELSE IF WheelsValid(geometry) /\ has_three_dof(Rows(geometry))
                      THEN "OK" ELSE "INVALID_ARGUMENT"
    /\ output' = IF status' = "OK"
                 THEN Scaled(Projected(geometry, in), One * Shortening(in))
                 ELSE Standing
    /\ UNCHANGED <<geometry, configured>>

Still == [vx |-> 0, vy |-> 0, wz |-> 0]

Init ==
    /\ geometry \in [Slots -> Wheels]
    /\ configured \in BOOLEAN
    /\ input = Still
    /\ status = "NOT_READY"
    /\ output = Standing

Next ==
    \E v \in Translations, wz \in Rotations :
        omni_compute([vx |-> v[1], vy |-> v[2], wz |-> wz])

Spec == Init /\ [][Next]_vars

----------------------------------------------------------------------------
(* Properties.                                                             *)

(* Every variable has the shape the code gives it. *)
TypeOK ==
    /\ geometry \in [Slots -> Wheels]
    /\ configured \in BOOLEAN
    /\ {input.vx, input.vy, input.wz} \subseteq Int
    /\ status \in {"OK", "NOT_READY", "INVALID_ARGUMENT"}
    /\ output.num \in [Slots -> Int] /\ output.den \in Nat \ {0}

Dot(r, q) == r[1] * q[1] + r[2] * q[2] + r[3] * q[3]

Cross(r, s) ==
    <<r[2] * s[3] - r[3] * s[2], r[3] * s[1] - r[1] * s[3],
      r[1] * s[2] - r[2] * s[1]>>

Axes == {<<1, 0, 0>>, <<0, 1, 0>>, <<0, 0, 1>>}
NoMotion == <<0, 0, 0>>

(* Whatever the rows hold, a layout that cannot do some motion cannot do   *)
(* one of these (MotionProofs: SomeMotionIsLost, NoMotionIsLost).          *)
Motions(rows) ==
    ({Cross(rows[i], rows[j]) : i, j \in Slots}
        \union {Cross(rows[i], e) : i \in Slots, e \in Axes} \union Axes)
    \ {NoMotion}

Controllable(rows) ==
    \A q \in Motions(rows) : \E i \in Slots : Dot(rows[i], q) # 0

(* The test on four determinants accepts exactly the layouts in which      *)
(* every motion of the body turns some wheel.                              *)
RankIsRight ==
    (input # Still /\ configured /\ WheelsValid(geometry)) =>
        (status = "OK" <=> Controllable(Rows(geometry)))

(* A translation is done in the direction it was asked for, however much   *)
(* of it is left after both limits: the speeds are those of the command as *)
(* it came, all times the same number, and none turns the other way.       *)
KeepsDirection ==
    (status = "OK" /\ input.wz = 0) =>
        LET asked(i) == geometry[i].gear
                * (geometry[i].tx * input.vx + geometry[i].ty * input.vy)
        IN  \A i, j \in Slots :
              /\ output.num[i] * asked(j) = output.num[j] * asked(i)
              /\ output.num[i] * asked(i) >= 0

(* No wheel is asked to turn faster than its motor may. *)
WithinSpeed ==
    \A i \in Slots : AbsOf(output.num[i]) <= MaxDriveSpeed * output.den

(* The strategy in every state: it knows the layouts that serve, and slows  *)
(* the wheels without turning the body's motion another way.               *)
OmniInv ==
    /\ TypeOK
    /\ RankIsRight
    /\ KeepsDirection
    /\ WithinSpeed

(* Does not hold.  A command of rotation turns the body at most at max_rotation_radps.     *)
(* docs/omni-chassis.md says that the rotation is limited to [-1,1] first. *)
RotationIsLimited ==
    (status = "OK" /\ input.vx = 0 /\ input.vy = 0) =>
        \A i \in Slots :
            AbsOf(output.num[i]) <= geometry[i].gear * AbsOf(Lever(geometry[i]))
                                        * MaxRotation * output.den

==============================================================================
