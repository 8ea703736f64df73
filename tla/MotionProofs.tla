---------------------------- MODULE MotionProofs ----------------------------
(***************************************************************************)
(* Proofs about what moves the chassis and what measures the robot, for    *)
(* any constants.                                                          *)
(*                                                                         *)
(* The chassis controller: any motors, any number of wheels, any geometry  *)
(* and any timeouts.  The invariant adds to the properties of the runs     *)
(* what start-up leaves behind (Setup) and how old reports are since the   *)
(* last command (RecentReports), which is what the timeout was compared    *)
(* with.  The sentry, the kinematics of the omni robot and the calibration *)
(* of the inertial unit: every configuration that satisfies their          *)
(* assumptions.  The line of that unit and its parser: any frames, any     *)
(* damage, any way to cut the bytes into events.  The pass that copies the *)
(* unit's data: any order of its fields, and whatever the line does.       *)
(***************************************************************************)
EXTENDS MCMotion, TLAPS, WellFoundedInduction, SequenceTheorems

(* What ChassisController_Init leaves: every wheel has a motor of the      *)
(* drive role, no two the same one, and a valid omni robot those of its    *)
(* layout.                                                                 *)
Setup ==
    /\ s_chassis_motor_ids \in [Wheels -> DriveMotors]
    /\ \A v, w \in Wheels : s_chassis_motor_ids[v] = s_chassis_motor_ids[w] => v = w
    /\ Omni /\ s_config_valid =>
          \A w \in Wheels : s_chassis_motor_ids[w] = layout[w]

(* A wheel with a current, and on an omni robot every wheel with it, had a *)
(* valid report at the last command; gap units have passed since.          *)
RecentReports ==
    \A w \in Wheels : HasCurrent(w) =>
        \A v \in Wheels : (Omni \/ v = w) => age[v] <= Timeout + gap

(* Currents are given by a valid configuration and to drive motors only.   *)
GivenRightly ==
    /\ \A w \in Wheels : HasCurrent(w) => s_config_valid
    /\ \A m \in Motors : order[m] # "none" => m \in DriveMotors

IInv ==
    /\ TypeOK
    /\ Setup
    /\ RecentReports
    /\ GivenRightly
    /\ StopsTogether
    /\ RestartsClean

LEMMA Numbers ==
    /\ Count \in Nat /\ Timeout \in Nat /\ MaxGap \in Nat /\ MaxDelay \in Nat
    /\ Never \in Nat /\ Timeout + MaxGap < Never /\ MaxDelay <= Never
    /\ DriveMotors \subseteq Motors /\ Omni \in BOOLEAN
  BY ChassisAssumption DEF Never

(* A list of motors that was found has one motor per wheel. *)
LEMMA ListFacts ==
    ASSUME NEW list \in Lists
    PROVE  /\ Len(list) \in 0..Count
           /\ list \in [1..Len(list) -> DriveMotors]
           /\ Distinct(list)
<1>1. PICK n \in 0..Count : list \in {s \in [1..n -> DriveMotors] : Distinct(s)}
  BY DEF Lists
<1>2. Len(list) = n
  BY <1>1, Numbers
<1> QED
  BY <1>1, <1>2

(* What MotorIds makes of a list is one drive motor per wheel again. *)
LEMMA MappedIds ==
    ASSUME NEW list \in Lists, NEW wheels \in [Slots -> Motors]
    PROVE  LET ids == MotorIds(list, wheels)
           IN  /\ ids \in [1..Len(list) -> DriveMotors]
               /\ \A v, w \in 1..Len(list) : ids[v] = ids[w] => v = w
               /\ (Omni /\ MappingValid(list, wheels))
                     => \A w \in 1..Len(list) : ids[w] = wheels[w]
<1> DEFINE ids == MotorIds(list, wheels)
<1>1. Len(list) \in 0..Count /\ list \in [1..Len(list) -> DriveMotors] /\ Distinct(list)
  BY ListFacts
<1>2. CASE Omni /\ MappingValid(list, wheels)
  <2>1. ids = [i \in 1..Len(list) |-> wheels[i]]
    BY <1>2 DEF MotorIds
  <2>2. \A i \in 1..Len(list) : wheels[i] \in DriveMotors
    BY <1>1, <1>2 DEF MappingValid
  <2>3. ASSUME NEW v \in 1..Len(list), NEW w \in 1..Len(list), v < w
        PROVE  wheels[v] # wheels[w]
    <3>1. v \in 1..w - 1
      BY <2>3, <1>1
    <3> QED
      BY <3>1, <1>2 DEF MappingValid
  <2>4. \A v, w \in 1..Len(list) : ids[v] = ids[w] => v = w
    <3> SUFFICES ASSUME NEW v \in 1..Len(list), NEW w \in 1..Len(list),
                        ids[v] = ids[w], v # w
                 PROVE  FALSE
      OBVIOUS
    <3>1. v < w \/ w < v
      BY <1>1
    <3> QED
      BY <2>1, <2>3, <3>1
  <2> QED
    BY <2>1, <2>2, <2>4
<1>3. CASE ~(Omni /\ MappingValid(list, wheels))
  <2>1. ids = list
    BY <1>3 DEF MotorIds
  <2> QED
    BY <2>1, <1>1, <1>3 DEF Distinct
<1> QED
  BY <1>2, <1>3

LEMMA InitIInv == Init => IInv
<1> SUFFICES ASSUME Init PROVE IInv
  OBVIOUS
<1>1. /\ Len(found) \in 0..Count
      /\ s_chassis_motor_ids \in [Wheels -> DriveMotors]
      /\ \A v, w \in Wheels : s_chassis_motor_ids[v] = s_chassis_motor_ids[w] => v = w
      /\ (Omni /\ MappingValid(found, layout))
            => \A w \in Wheels : s_chassis_motor_ids[w] = layout[w]
  BY MappedIds, ListFacts DEF Init, Wheels
<1>2. s_config_valid \in BOOLEAN
      /\ (Omni /\ s_config_valid => MappingValid(found, layout))
  <2>1. PICK others \in BOOLEAN :
           s_config_valid = (others /\ (Omni => Len(found) = Count
                                                 /\ MappingValid(found, layout)))
    BY DEF Init, ConfigValid
  <2> QED
    BY <2>1
<1>3. Setup
  BY <1>1, <1>2 DEF Setup
<1>4. TypeOK
  <2>1. s_chassis_motor_ids \in [Wheels -> Motors]
    BY <1>1, Numbers
  <2>2. age \in [Slots -> 0..Never] /\ gap \in 0..MaxGap
    BY Numbers DEF Init
  <2> QED
    BY <1>2, <2>1, <2>2 DEF Init, TypeOK
<1>5. \A m \in Motors : order[m] = "none"
  BY DEF Init
<1>6. \A w \in Wheels : s_chassis_motor_ids[w] \in Motors
  BY <1>1, Numbers
<1>7. RecentReports /\ GivenRightly /\ StopsTogether /\ RestartsClean
  BY <1>5, <1>6 DEF RecentReports, GivenRightly, StopsTogether, RestartsClean, HasCurrent
<1> QED
  BY <1>3, <1>4, <1>7 DEF IInv

(* The orders of one command, per wheel: a current to the driven ones and  *)
(* zero to the others.                                                     *)
LEMMA OrderOfWheel ==
    ASSUME TypeOK, Setup, NEW driven \in SUBSET Wheels, NEW w \in Wheels
    PROVE  /\ s_chassis_motor_ids[w] \in Motors
           /\ w \in driven => Orders(driven)[s_chassis_motor_ids[w]] = "current"
           /\ w \notin driven => Orders(driven)[s_chassis_motor_ids[w]] = "zero"
<1>1. s_chassis_motor_ids[w] \in Motors
  BY DEF TypeOK
<1>2. w \notin driven =>
        ~ \E v \in driven : s_chassis_motor_ids[v] = s_chassis_motor_ids[w]
  BY DEF Setup
<1> QED
  BY <1>1, <1>2 DEF Orders

LEMMA CommandStep ==
    ASSUME IInv, NEW enabled \in BOOLEAN, NEW usable \in BOOLEAN,
           on_chassis_cmd(enabled, usable)
    PROVE  IInv'
<1> DEFINE driven == Driven(running')
<1>0. TypeOK /\ Setup /\ GivenRightly
  BY DEF IInv
<1>1. /\ running' = Runs(enabled, usable) /\ gap' = 0
      /\ order' = Orders(driven) /\ pid' = Memory(driven)
      /\ found' = found /\ layout' = layout /\ seen' = seen /\ age' = age
      /\ s_chassis_motor_ids' = s_chassis_motor_ids
      /\ s_config_valid' = s_config_valid
  BY DEF on_chassis_cmd, setup
<1>2. Wheels' = Wheels /\ Len(found) \in 0..Count
  BY <1>0, <1>1, ListFacts DEF Wheels, TypeOK
<1>3. driven \in SUBSET Wheels
  BY DEF Driven
<1>4. running' \in BOOLEAN
  BY <1>0, <1>1 DEF Runs, TypeOK
<1>5. TypeOK'
  <2>1. order' \in [Motors -> {"none", "zero", "current"}]
    BY <1>0, <1>1 DEF Orders, TypeOK
  <2>2. pid' \in [Slots -> {"clear", "used"}]
    BY <1>0, <1>1 DEF Memory, TypeOK
  <2>3. gap' \in 0..MaxGap
    BY <1>1, Numbers
  <2> QED
    BY <1>0, <1>1, <1>2, <1>4, <2>1, <2>2, <2>3 DEF TypeOK
<1>6. Setup'
  BY <1>0, <1>1, <1>2 DEF Setup
<1>7. \A w \in Wheels : HasCurrent(w)' <=> w \in driven
  BY <1>0, <1>1, <1>3, OrderOfWheel DEF HasCurrent
<1>8. \A w \in driven : AllowOutput(running') /\ Fresh(w)
  BY DEF Driven
<1>9. RecentReports'
  <2> SUFFICES ASSUME NEW w \in Wheels, w \in driven, NEW v \in Wheels, Omni \/ v = w
               PROVE  age[v] <= Timeout + 0
    BY <1>1, <1>2, <1>7 DEF RecentReports
  <2>1. Fresh(v)
    BY <1>8 DEF AllowOutput
  <2>2. v \in Slots
    BY <1>2, Numbers DEF Wheels, Slots
  <2>3. age[v] \in Nat
    BY <2>2, <1>0, Numbers DEF TypeOK
  <2> QED
    BY <2>1, <2>3, Numbers DEF Fresh
<1>10. GivenRightly'
  <2>1. \A w \in Wheels : HasCurrent(w)' => s_config_valid'
    BY <1>1, <1>7, <1>8 DEF AllowOutput
  <2>2. \A m \in Motors : order'[m] # "none" => m \in DriveMotors
    BY <1>0, <1>1 DEF Orders, GivenRightly, Setup
  <2> QED
    BY <1>2, <2>1, <2>2 DEF GivenRightly
<1>11. StopsTogether'
  <2>1. Omni => \A v, w \in Wheels : v \in driven => w \in driven
    BY DEF Driven, AllowOutput
  <2>2. \A v \in Wheels : HasCurrent(v)' = (v \in driven)
    BY <1>7 DEF HasCurrent
  <2> QED
    BY <1>2, <2>1, <2>2 DEF StopsTogether
<1>12. RestartsClean'
  <2> SUFFICES ASSUME NEW w \in Wheels, order'[s_chassis_motor_ids[w]] = "zero"
               PROVE  pid'[w] = "clear"
    BY <1>1, <1>2 DEF RestartsClean
  <2>1. w \notin driven
    BY <1>0, <1>1, <1>3, OrderOfWheel
  <2>2. w \in Slots
    BY <1>2, Numbers DEF Wheels, Slots
  <2> QED
    BY <1>1, <2>1, <2>2 DEF Memory
<1> QED
  BY <1>5, <1>6, <1>9, <1>10, <1>11, <1>12 DEF IInv

LEMMA ReportStep ==
    ASSUME IInv, NEW m \in Motors, NEW d \in 0..MaxDelay, on_motor_feedback(m, d)
    PROVE  IInv'
<1>0. TypeOK /\ Setup /\ RecentReports
  BY DEF IInv
<1>1. /\ found' = found /\ layout' = layout /\ order' = order /\ gap' = gap
      /\ s_chassis_motor_ids' = s_chassis_motor_ids /\ pid' = pid
      /\ s_config_valid' = s_config_valid /\ running' = running
  BY DEF on_motor_feedback, setup
<1>2. Wheels' = Wheels /\ Len(found) \in 0..Count
  BY <1>0, <1>1, ListFacts DEF Wheels, TypeOK
<1>3. PICK w \in Wheels : /\ d <= age[w]
                          /\ seen' = [seen EXCEPT ![w] = TRUE]
                          /\ age' = [age EXCEPT ![w] = d]
  BY DEF on_motor_feedback
<1>4. d \in 0..Never
  BY Numbers
<1>5. TypeOK'
  BY <1>0, <1>1, <1>2, <1>3, <1>4 DEF TypeOK
<1>6. \A v \in Wheels : HasCurrent(v)' = HasCurrent(v)
  BY <1>1 DEF HasCurrent
<1>7. RecentReports'
  <2> SUFFICES ASSUME NEW u \in Wheels, HasCurrent(u), NEW v \in Wheels, Omni \/ v = u
               PROVE  age'[v] <= Timeout + gap
    BY <1>1, <1>2, <1>6 DEF RecentReports
  <2>1. age[v] <= Timeout + gap
    BY <1>0 DEF RecentReports
  <2>2. v \in Slots /\ w \in Slots
    BY <1>2, Numbers DEF Wheels, Slots
  <2>3. age[v] \in Nat /\ gap \in Nat
    BY <2>2, <1>0, Numbers DEF TypeOK
  <2>4. CASE v = w
    BY <2>1, <2>2, <2>3, <2>4, <1>0, <1>3, <1>4, Numbers DEF TypeOK
  <2>5. CASE v # w
    BY <2>1, <2>2, <2>5, <1>0, <1>3 DEF TypeOK
  <2> QED
    BY <2>4, <2>5
<1>8. Setup'
  BY <1>0, <1>1, <1>2 DEF Setup
<1>9. GivenRightly' /\ StopsTogether' /\ RestartsClean'
  BY <1>1, <1>2, <1>6 DEF IInv, GivenRightly, StopsTogether, RestartsClean
<1> QED
  BY <1>5, <1>7, <1>8, <1>9 DEF IInv

LEMMA TickStep == ASSUME IInv, Tick PROVE IInv'
<1>0. TypeOK /\ Setup /\ RecentReports
  BY DEF IInv
<1>1. /\ found' = found /\ layout' = layout /\ order' = order /\ seen' = seen
      /\ s_chassis_motor_ids' = s_chassis_motor_ids /\ pid' = pid
      /\ s_config_valid' = s_config_valid /\ running' = running
      /\ gap < MaxGap /\ gap' = gap + 1
      /\ age' = [w \in Slots |-> Older(age[w])]
  BY DEF Tick, setup
<1>2. Wheels' = Wheels /\ Len(found) \in 0..Count
  BY <1>0, <1>1, ListFacts DEF Wheels, TypeOK
<1>3. \A a \in 0..Never : Older(a) \in 0..Never /\ Older(a) <= a + 1
  BY Numbers DEF Older
<1>4. TypeOK'
  <2>1. age' \in [Slots -> 0..Never]
    BY <1>0, <1>1, <1>3 DEF TypeOK
  <2>2. gap' \in 0..MaxGap
    BY <1>0, <1>1, Numbers DEF TypeOK
  <2> QED
    BY <1>0, <1>1, <1>2, <2>1, <2>2 DEF TypeOK
<1>5. \A v \in Wheels : HasCurrent(v)' = HasCurrent(v)
  BY <1>1 DEF HasCurrent
<1>6. RecentReports'
  <2> SUFFICES ASSUME NEW w \in Wheels, HasCurrent(w), NEW v \in Wheels, Omni \/ v = w
               PROVE  age'[v] <= Timeout + (gap + 1)
    BY <1>1, <1>2, <1>5 DEF RecentReports
  <2>1. age[v] <= Timeout + gap
    BY <1>0 DEF RecentReports
  <2>2. v \in Slots
    BY <1>2, Numbers DEF Wheels, Slots
  <2>3. age[v] \in 0..Never /\ gap \in Nat
    BY <2>2, <1>0, Numbers DEF TypeOK
  <2>4. age'[v] <= age[v] + 1 /\ age'[v] \in 0..Never
    BY <2>2, <2>3, <1>1, <1>3
  <2> QED
    BY <2>1, <2>3, <2>4, Numbers
<1>7. Setup'
  BY <1>0, <1>1, <1>2 DEF Setup
<1>8. GivenRightly' /\ StopsTogether' /\ RestartsClean'
  BY <1>1, <1>2, <1>5 DEF IInv, GivenRightly, StopsTogether, RestartsClean
<1> QED
  BY <1>4, <1>6, <1>7, <1>8 DEF IInv

LEMMA StutterStep == ASSUME IInv, UNCHANGED vars PROVE IInv'
<1>1. /\ UNCHANGED <<found, layout, s_chassis_motor_ids, s_config_valid>>
      /\ UNCHANGED <<running, seen, age, pid, order, gap>>
  BY DEF vars, setup
<1>2. Wheels' = Wheels
  BY <1>1 DEF Wheels
<1>3. \A v \in Wheels : HasCurrent(v)' = HasCurrent(v)
  BY <1>1 DEF HasCurrent
<1>4. TypeOK' /\ Setup'
  BY <1>1, <1>2 DEF IInv, TypeOK, Setup
<1>5. RecentReports' /\ GivenRightly' /\ StopsTogether' /\ RestartsClean'
  BY <1>1, <1>2, <1>3
     DEF IInv, RecentReports, GivenRightly, StopsTogether, RestartsClean
<1> QED
  BY <1>4, <1>5 DEF IInv

(* The invariant holds in every reachable state. *)
THEOREM Inductive == Spec => []IInv
<1>1. Init => IInv
  BY InitIInv
<1>2. IInv /\ [Next]_vars => IInv'
  BY CommandStep, ReportStep, TickStep, StutterStep DEF Next
<1> QED
  BY <1>1, <1>2, PTL DEF Spec

(* Every variable keeps its type, whatever the configuration says. *)
THEOREM TypeCorrect == Spec => []TypeOK
<1>1. IInv => TypeOK
  BY DEF IInv
<1> QED
  BY <1>1, Inductive, PTL

(* No wheel, and on an omni robot no wheel beside it, has a current longer *)
(* than the timeout and one period after its last report.                  *)
THEOREM SilenceHolds == Spec => []SilentWheelStops
<1>1. IInv => SilentWheelStops
  <2> SUFFICES ASSUME IInv, NEW w \in Wheels, HasCurrent(w),
                      NEW v \in Wheels, Omni \/ v = w
               PROVE  age[v] <= Timeout + MaxGap
    BY DEF SilentWheelStops
  <2>1. age[v] <= Timeout + gap
    BY DEF IInv, RecentReports
  <2>2. v \in Slots
    BY ListFacts, Numbers DEF IInv, TypeOK, Wheels, Slots
  <2>3. age[v] \in Nat /\ gap \in 0..MaxGap
    BY <2>2, Numbers DEF IInv, TypeOK
  <2> QED
    BY <2>1, <2>3, Numbers
<1> QED
  BY <1>1, Inductive, PTL

(* The wheels of an omni robot have currents together or not at all. *)
THEOREM TogetherHolds == Spec => []StopsTogether
<1>1. IInv => StopsTogether
  BY DEF IInv
<1> QED
  BY <1>1, Inductive, PTL

(* Only drive motors are told anything; those of a robot that moves are    *)
(* the wheels of its layout, each one motor.                               *)
THEOREM OwnMotorsHold == Spec => []OwnMotorsOnly
<1>1. IInv => OwnMotorsOnly
  BY DEF IInv, OwnMotorsOnly, GivenRightly, Setup
<1> QED
  BY <1>1, Inductive, PTL

(* A stopped wheel holds no loop memory. *)
THEOREM CleanHolds == Spec => []RestartsClean
<1>1. IInv => RestartsClean
  BY DEF IInv
<1> QED
  BY <1>1, Inductive, PTL

(* The chassis in every state, whatever the geometry says and whichever     *)
(* reports are missing.                                                     *)
THEOREM ChassisHolds == Spec => []ChassisInv
  BY TypeCorrect, SilenceHolds, TogetherHolds, OwnMotorsHold, CleanHolds, PTL
     DEF ChassisInv

(***************************************************************************)
(* Remainders.                                                             *)
(***************************************************************************)
(* What is left when a number is divided is known by any way to divide it. *)
LEMMA Unique ==
    ASSUME NEW d \in Nat \ {0}, NEW q \in Int, NEW r \in 0 .. d - 1,
           NEW k \in Int, NEW s \in 0 .. d - 1, d * q + r = d * k + s
    PROVE  r = s
<1>1. ASSUME NEW a \in Int, NEW b \in Int, a < b
      PROVE  d * a + d <= d * b
  <2>1. PICK e \in Nat : b = a + 1 + e
    <3>1. b - a - 1 \in Nat /\ b = a + 1 + (b - a - 1)
      BY <1>1
    <3>2. QED BY <3>1
  <2>2. d * b = d * a + d + d * e
    BY <2>1
  <2>3. d * e >= 0
    OBVIOUS
  <2>4. QED BY <2>2, <2>3
<1>2. ~(q < k)
  BY <1>1
<1>3. ~(k < q)
  BY <1>1
<1>4. QED BY <1>2, <1>3

LEMMA Shifted ==
    ASSUME NEW d \in Nat \ {0}, NEW x \in Int, NEW y \in Int, NEW k \in Int,
           x = y + d * k
    PROVE  x % d = y % d
<1> DEFINE q == x \div d
           r == x % d
           m == y \div d
           s == y % d
<1>1. /\ q \in Int /\ r \in 0 .. d - 1 /\ x = d * q + r
      /\ m \in Int /\ s \in 0 .. d - 1 /\ y = d * m + s
  OBVIOUS
<1> HIDE DEF q, r, m, s
<1>2. d * (m + k) = d * m + d * k
  BY <1>1
<1>3. m + k \in Int /\ d * q + r = d * (m + k) + s
  BY <1>1, <1>2
<1>4. r = s
  <2> DEFINE n == m + k
  <2>1. n \in Int /\ d * q + r = d * n + s
    BY <1>3
  <2> HIDE DEF n
  <2>2. QED BY <1>1, <2>1, Unique
<1>5. QED BY <1>4 DEF r, s

(* Numbers some turns apart. *)
LEMMA SameAngle ==
    ASSUME NEW d \in Nat \ {0}, NEW x \in Int, NEW y \in Int,
           \/ x = y \/ x = y + d \/ x = y - d
           \/ x = y + 2 * d \/ x = y - 2 * d \/ x = y + 3 * d \/ x = y - 3 * d
    PROVE  x % d = y % d
<1> DEFINE Apart(k) == x = y + d * k
<1>1. \/ Apart(0) \/ Apart(1) \/ Apart(-1) \/ Apart(2) \/ Apart(-2)
      \/ Apart(3) \/ Apart(-3)
  OBVIOUS
<1>2. PICK k \in Int : Apart(k)
  <2> HIDE DEF Apart
  <2>1. QED BY <1>1
<1>3. x = y + d * k
  BY <1>2
<1>4. QED BY <1>3, Shifted

(* A number less than a turn away. *)
LEMMA Wraps ==
    ASSUME NEW d \in Nat \ {0}, NEW x \in -d .. 2 * d - 1
    PROVE  x % d = IF x < 0 THEN x + d ELSE IF x >= d THEN x - d ELSE x
<1> DEFINE y == IF x < 0 THEN x + d ELSE IF x >= d THEN x - d ELSE x
<1>1. y \in 0 .. d - 1 /\ (x = y \/ x = y + d \/ x = y - d)
  OBVIOUS
<1>2. y % d = y
  <2>1. y = d * 0 + y /\ y \in Int /\ y % d \in 0 .. d - 1 /\ y \div d \in Int
        /\ y = d * (y \div d) + (y % d)
    BY <1>1
  <2> DEFINE q == y \div d
             r == y % d
  <2>2. q \in Int /\ r \in 0 .. d - 1 /\ d * q + r = d * 0 + y /\ y \in 0 .. d - 1
    BY <1>1, <2>1
  <2> HIDE DEF q, r, y
  <2>3. QED BY <2>2, Unique DEF r
<1>3. x % d = y % d
  <2>1. y \in Int /\ x \in Int /\ (x = y \/ x = y + d \/ x = y - d)
    BY <1>1
  <2> HIDE DEF y
  <2>2. QED BY <2>1, SameAngle
<1>4. QED BY <1>2, <1>3 DEF y

(***************************************************************************)
(* The sentry, in any configuration.  The invariant adds to SentryInv that *)
(* the modules stand alike (TurnedAlike), for only the first is asked      *)
(* which way is nearer; and how a drive motor that has not reported, or    *)
(* not for long, is known (UnheardIsOld, HeardSince).                      *)
(***************************************************************************)

(* The modules have turned by the same angle since the start. *)
TurnedAlike(p) ==
    \A i \in Sentry(p)!Steers :
        LET turned(k) == t_target[k] - SentryConf[p].Initial[k]
        IN  turned(i) - turned(1) \in {0, SentryConf[p].Encoder, -SentryConf[p].Encoder}

(* The wait ends after its rounds. *)
WaitEnds(p) == t_phase = "align" => t_waited < SentryConf[p].Rounds

(* After the wait a motor that never reported looks as old as can be. *)
UnheardIsOld(p) ==
    t_phase # "align" =>
        \A d \in SentryConf[p].Drives : ~t_seen[d] => t_age[d] = Sentry(p)!Never

(* The last command drove only motors whose report was not too old then. *)
HeardSince(p) ==
    t_phase = "run" => \A d \in SentryConf[p].Drives :
        t_current[d] = "drive" =>
            t_seen[d] /\ t_age[d] <= SentryConf[p].Timeout + t_gap

SentryIInv(p) ==
    /\ Sentry(p)!TypeOK
    /\ Sentry(p)!MovesWhereAsked
    /\ TurnedAlike(p)
    /\ WaitEnds(p)
    /\ UnheardIsOld(p)
    /\ HeardSince(p)

LEMMA SentryNumbers ==
    ASSUME NEW p \in DOMAIN SentryConf
    PROVE  LET E == SentryConf[p].Encoder
               H == Sentry(p)!Half
               Q == Sentry(p)!Quarter
           IN  /\ E \in Nat \ {0} /\ Q \in Nat \ {0} /\ H \in Nat
               /\ E = 4 * Q /\ H = 2 * Q
               /\ SentryConf[p].Initial \in [1..2 -> 0 .. E - 1]
               /\ SentryConf[p].Rounds \in Nat \ {0}
               /\ SentryConf[p].Timeout \in Nat \ {0}
               /\ SentryConf[p].MaxGap \in Nat /\ SentryConf[p].MaxDelay \in Nat
               /\ SentryConf[p].StickAngles \subseteq -H .. H
               /\ SentryConf[p].Reported \subseteq 0 .. E - 1
               /\ Sentry(p)!Never \in Nat
               /\ SentryConf[p].Timeout + SentryConf[p].MaxGap < Sentry(p)!Never
               /\ SentryConf[p].MaxDelay <= Sentry(p)!Never
<1>1. Sentry(p)!SentryAssumption
  BY SentriesOK
<1>2. /\ SentryConf[p].Encoder \in Nat \ {0} /\ SentryConf[p].Encoder % 4 = 0
      /\ SentryConf[p].Initial \in [1..2 -> 0 .. SentryConf[p].Encoder - 1]
      /\ SentryConf[p].Rounds \in Nat \ {0}
      /\ SentryConf[p].Timeout \in Nat \ {0}
      /\ SentryConf[p].MaxGap \in Nat /\ SentryConf[p].MaxDelay \in Nat
      /\ SentryConf[p].StickAngles \subseteq -Sentry(p)!Half .. Sentry(p)!Half
      /\ SentryConf[p].Reported \subseteq 0 .. SentryConf[p].Encoder - 1
  BY <1>1 DEF Sentry!SentryAssumption, Sentry!Steers, Sentry!Angles, Sentry!Half
<1>3. /\ Sentry(p)!Half \in Nat /\ Sentry(p)!Quarter \in Nat \ {0}
      /\ SentryConf[p].Encoder = 4 * Sentry(p)!Quarter
      /\ Sentry(p)!Half = 2 * Sentry(p)!Quarter
  BY <1>2 DEF Sentry!Half, Sentry!Quarter
<1>4. /\ Sentry(p)!Never \in Nat
      /\ SentryConf[p].Timeout + SentryConf[p].MaxGap < Sentry(p)!Never
      /\ SentryConf[p].MaxDelay <= Sentry(p)!Never
  BY <1>2 DEF Sentry!Never
<1>5. QED BY <1>2, <1>3, <1>4

(* The short way round between two angles. *)
LEMMA ShortWay ==
    ASSUME NEW p \in DOMAIN SentryConf,
           NEW t \in 0 .. SentryConf[p].Encoder - 1,
           NEW r \in 0 .. SentryConf[p].Encoder - 1
    PROVE  LET E == SentryConf[p].Encoder
               D == Sentry(p)!Diff(t, r)
           IN  /\ D \in -Sentry(p)!Half .. Sentry(p)!Half
               /\ D = t - r \/ D = t - r + E \/ D = t - r - E
  BY SentryNumbers DEF Sentry!Diff

LEMMA WrapsSentry ==
    ASSUME NEW p \in DOMAIN SentryConf,
           NEW x \in -SentryConf[p].Encoder .. 2 * SentryConf[p].Encoder - 1
    PROVE  LET E == SentryConf[p].Encoder
               w == Sentry(p)!Wrapped(x)
           IN  w \in 0 .. E - 1 /\ (w = x \/ w = x + E \/ w = x - E)
<1> DEFINE E == SentryConf[p].Encoder
<1>1. E \in Nat \ {0}
  BY SentryNumbers
<1>2. Sentry(p)!Wrapped(x) = x % E
  BY DEF Sentry!Wrapped
<1>3. x \in -E .. 2 * E - 1
  OBVIOUS
<1> HIDE DEF E
<1>4. x % E = IF x < 0 THEN x + E ELSE IF x >= E THEN x - E ELSE x
  BY <1>1, <1>3, Wraps
<1>5. x % E \in 0 .. E - 1 /\ (x % E = x \/ x % E = x + E \/ x % E = x - E)
  BY <1>1, <1>3, <1>4
<1>6. QED BY <1>2, <1>5 DEF E

LEMMA SameSentryAngle ==
    ASSUME NEW p \in DOMAIN SentryConf, NEW x \in Int, NEW y \in Int,
           LET E == SentryConf[p].Encoder
           IN  \/ x = y \/ x = y + E \/ x = y - E
               \/ x = y + 2 * E \/ x = y - 2 * E
    PROVE  Sentry(p)!Wrapped(x) = Sentry(p)!Wrapped(y)
<1> DEFINE E == SentryConf[p].Encoder
<1>1. E \in Nat \ {0} /\ x \in Int /\ y \in Int
      /\ (\/ x = y \/ x = y + E \/ x = y - E \/ x = y + 2 * E \/ x = y - 2 * E)
  BY SentryNumbers
<1> HIDE DEF E
<1>2. x % E = y % E
  BY <1>1, SameAngle
<1>3. QED BY <1>2 DEF Sentry!Wrapped, E

(* The angle the modules are turned to, with the way the wheels then turn, *)
(* points where the stick does.                                            *)
LEMMA FinalAngleServes ==
    ASSUME NEW p \in DOMAIN SentryConf, NEW j \in -Sentry(p)!Half .. Sentry(p)!Half
    PROVE  LET E == SentryConf[p].Encoder
               H == Sentry(p)!Half
               C == Sentry(p)!Canonical(j)
               F == Sentry(p)!FinalAngle(j)
               x == F + (IF Sentry(p)!Direction(j) = -1 THEN H ELSE 0)
           IN  /\ C \in -Sentry(p)!Quarter .. Sentry(p)!Quarter
               /\ F \in -H .. H
               /\ Sentry(p)!Direction(j) \in {-1, 1}
               /\ x = j \/ x = j + E \/ x = j - E
               /\ IF Sentry(p)!Nearer(j) THEN F = C ELSE F = C + H \/ F = C - H
<1> DEFINE E == SentryConf[p].Encoder
           H == Sentry(p)!Half
           Q == Sentry(p)!Quarter
           C == Sentry(p)!Canonical(j)
           F == Sentry(p)!FinalAngle(j)
<1>1. E \in Nat \ {0} /\ Q \in Nat \ {0} /\ H \in Nat /\ E = 4 * Q /\ H = 2 * Q
  BY SentryNumbers
<1>2. /\ C = IF j > Q THEN j - H ELSE IF j < -Q THEN j + H ELSE j
      /\ Sentry(p)!Backwards(j) <=> (j > Q \/ j < -Q)
  BY <1>1 DEF Sentry!Canonical, Sentry!Backwards, Sentry!AbsOf
<1>3. C \in -Q .. Q
  BY <1>1, <1>2
<1>4. F = IF Sentry(p)!Nearer(j) THEN C ELSE Sentry(p)!Wrapped(C + E) - H
  BY DEF Sentry!FinalAngle
<1>5. LET w == Sentry(p)!Wrapped(C + E)
      IN  w \in 0 .. E - 1 /\ (w = C + E \/ w = C)
  <2>1. C + E \in -E .. 2 * E - 1
    BY <1>1, <1>3
  <2>2. LET w == Sentry(p)!Wrapped(C + E)
        IN  w \in 0 .. E - 1 /\ (w = (C + E) \/ w = (C + E) + E \/ w = (C + E) - E)
    BY <2>1, WrapsSentry
  <2> HIDE DEF C, E
  <2>3. QED BY <1>1, <1>3, <2>2 DEF C
<1>6. /\ Sentry(p)!Direction(j) = IF Sentry(p)!Backwards(j) = Sentry(p)!Nearer(j)
                                  THEN -1 ELSE 1
      /\ Sentry(p)!Backwards(j) \in BOOLEAN /\ Sentry(p)!Nearer(j) \in BOOLEAN
  BY DEF Sentry!Direction, Sentry!Backwards, Sentry!Nearer
<1> DEFINE B == Sentry(p)!Backwards(j)
           N == Sentry(p)!Nearer(j)
           d == Sentry(p)!Direction(j)
           w == Sentry(p)!Wrapped(C + E)
<1>7. /\ C = IF j > Q THEN j - H ELSE IF j < -Q THEN j + H ELSE j
      /\ B <=> (j > Q \/ j < -Q)
      /\ F = IF N THEN C ELSE w - H
      /\ w \in 0 .. E - 1 /\ (w = C + E \/ w = C)
      /\ d = IF B = N THEN -1 ELSE 1
      /\ B \in BOOLEAN /\ N \in BOOLEAN
      /\ j \in -H .. H
  BY <1>2, <1>4, <1>5, <1>6
<1> HIDE DEF E, H, Q, C, F, B, N, d, w
<1>8. /\ F \in -H .. H
      /\ d \in {-1, 1}
      /\ IF N THEN F = C ELSE F = C + H \/ F = C - H
  BY <1>1, <1>3, <1>7
<1>9. LET x == F + (IF d = -1 THEN H ELSE 0) IN x = j \/ x = j + E \/ x = j - E
  <2>1. CASE N /\ B
    <3>1. d = -1 /\ F = C /\ (C = j - H \/ C = j + H)
      BY <1>7, <2>1
    <3>2. QED BY <1>1, <1>7, <3>1
  <2>2. CASE N /\ ~B
    <3>1. d = 1 /\ F = C /\ C = j
      BY <1>1, <1>7, <2>2
    <3>2. QED BY <1>1, <1>7, <3>1
  <2>3. CASE ~N /\ B
    <3>1. d = 1 /\ (F = C + H \/ F = C - H) /\ (C = j - H \/ C = j + H)
      BY <1>7, <1>8, <2>3
    <3>2. QED BY <1>1, <1>7, <3>1
  <2>4. CASE ~N /\ ~B
    <3>1. d = -1 /\ (F = C + H \/ F = C - H) /\ C = j
      BY <1>1, <1>7, <1>8, <2>4
    <3>2. QED BY <1>1, <1>7, <3>1
  <2>5. QED BY <1>7, <2>1, <2>2, <2>3, <2>4
<1>10. QED BY <1>3, <1>8, <1>9 DEF E, H, Q, C, F, N, d

(* A command that moves: every module is turned, in the same way, to where *)
(* the stick points, and none by more than a quarter.                      *)
LEMMA ModulesTurn ==
    ASSUME NEW p \in DOMAIN SentryConf, Sentry(p)!TypeOK, TurnedAlike(p),
           NEW j \in -Sentry(p)!Half .. Sentry(p)!Half, Sentry(p)!Update(TRUE, j)
    PROVE  /\ t_target' \in [1..2 -> 0 .. SentryConf[p].Encoder - 1]
           /\ t_direction' \in {-1, 1} /\ t_asked' = j
           /\ TurnedAlike(p)' /\ Sentry(p)!MovesWhereAsked'
           /\ Sentry(p)!TurnsAtMostQuarter
<1> DEFINE E == SentryConf[p].Encoder
           H == Sentry(p)!Half
           Q == Sentry(p)!Quarter
           C == Sentry(p)!Canonical(j)
           F == Sentry(p)!FinalAngle(j)
           d == Sentry(p)!Direction(j)
           N == Sentry(p)!Nearer(j)
           I == SentryConf[p].Initial
           s == t_target
           t == t_target'
           x == F + (IF d = -1 THEN H ELSE 0)
<1>1. /\ E \in Nat \ {0} /\ Q \in Nat \ {0} /\ H \in Nat /\ E = 4 * Q /\ H = 2 * Q
      /\ I \in [1..2 -> 0 .. E - 1]
  BY SentryNumbers
<1>2. /\ C \in -Q .. Q /\ F \in -H .. H /\ d \in {-1, 1}
      /\ x = j \/ x = j + E \/ x = j - E
      /\ IF N THEN F = C ELSE F = C + H \/ F = C - H
  BY FinalAngleServes
<1>3. s \in [1..2 -> 0 .. E - 1]
  BY DEF Sentry!TypeOK, Sentry!Steers, Sentry!Angles
<1>4. /\ t = [i \in 1..2 |-> Sentry(p)!Wrapped(I[i] + F)]
      /\ t_direction' = d /\ t_asked' = j
  BY DEF Sentry!Update, Sentry!Steers
<1>5. ASSUME NEW i \in 1..2
      PROVE  /\ t[i] \in 0 .. E - 1
             /\ t[i] = I[i] + F \/ t[i] = I[i] + F + E \/ t[i] = I[i] + F - E
  <2>1. t[i] = Sentry(p)!Wrapped(I[i] + F)
    BY <1>4
  <2>2. I[i] \in 0 .. E - 1
    BY <1>1
  <2> DEFINE y == I[i] + F
  <2>3. y \in -E .. 2 * E - 1
    <3> HIDE DEF E, H, Q, C, F, I
    <3>1. QED BY <1>1, <1>2, <2>2
  <2>4. LET w == Sentry(p)!Wrapped(y)
        IN  w \in 0 .. E - 1 /\ (w = y \/ w = y + E \/ w = y - E)
    BY <2>3, WrapsSentry
  <2>5. y \in Int /\ I[i] \in Int /\ F \in Int /\ E \in Int
    BY <1>1, <1>2, <2>2, <2>3
  <2> HIDE DEF E, F, I
  <2>6. QED BY <2>1, <2>4, <2>5
<1>6. t \in [1..2 -> 0 .. E - 1]
  BY <1>4, <1>5
<1>7. \A i \in 1..2 : LET u == (s[i] - I[i]) - (s[1] - I[1]) IN u = 0 \/ u = E \/ u = -E
  BY DEF TurnedAlike, Sentry!Steers
<1> DEFINE D(i) == Sentry(p)!Diff(t[i], s[i])
           a == Sentry(p)!Wrapped(I[1] + C)
           b == Sentry(p)!Wrapped(I[1] + C + H)
           Da == Sentry(p)!Diff(a, s[1])
           Db == Sentry(p)!Diff(b, s[1])
<1>8. \A i \in 1..2 : /\ D(i) \in -H .. H
                      /\ \/ D(i) = t[i] - s[i] \/ D(i) = t[i] - s[i] + E
                         \/ D(i) = t[i] - s[i] - E
  BY <1>3, <1>6, ShortWay
<1>9. N <=> Sentry(p)!AbsOf(Da) <= Sentry(p)!AbsOf(Db)
  BY DEF Sentry!Nearer
<1>10. I[1] \in 0 .. E - 1 /\ s[1] \in 0 .. E - 1
  BY <1>1, <1>3
<1>11. /\ a \in 0 .. E - 1 /\ (a = I[1] + C \/ a = I[1] + C + E \/ a = I[1] + C - E)
       /\ b \in 0 .. E - 1
       /\ b = I[1] + C + H \/ b = I[1] + C + H + E \/ b = I[1] + C + H - E
  <2> DEFINE y == I[1] + C
             z == I[1] + C + H
  <2>1. y \in -E .. 2 * E - 1 /\ z \in -E .. 2 * E - 1
    <3> HIDE DEF E, H, Q, C, F, I
    <3>1. QED BY <1>1, <1>2, <1>10
  <2>2. LET w == Sentry(p)!Wrapped(y)
        IN  w \in 0 .. E - 1 /\ (w = y \/ w = y + E \/ w = y - E)
    BY <2>1, WrapsSentry
  <2>3. LET w == Sentry(p)!Wrapped(z)
        IN  w \in 0 .. E - 1 /\ (w = z \/ w = z + E \/ w = z - E)
    BY <2>1, WrapsSentry
  <2>4. y \in Int /\ z \in Int /\ I[1] \in Int /\ C \in Int /\ H \in Int /\ E \in Int
    BY <1>1, <1>2, <1>10, <2>1
  <2> HIDE DEF E, H, C, I
  <2>5. QED BY <2>2, <2>3, <2>4
<1>12. /\ Da \in -H .. H /\ (Da = a - s[1] \/ Da = a - s[1] + E \/ Da = a - s[1] - E)
       /\ Db \in -H .. H /\ (Db = b - s[1] \/ Db = b - s[1] + E \/ Db = b - s[1] - E)
  BY <1>10, <1>11, ShortWay
<1>13. /\ Sentry(p)!AbsOf(Da) = IF Da < 0 THEN -Da ELSE Da
       /\ Sentry(p)!AbsOf(Db) = IF Db < 0 THEN -Db ELSE Db
       /\ \A i \in 1..2 : Sentry(p)!AbsOf(D(i)) = IF D(i) < 0 THEN -D(i) ELSE D(i)
  BY DEF Sentry!AbsOf
<1>14. N <=> (IF Da < 0 THEN -Da ELSE Da) <= (IF Db < 0 THEN -Db ELSE Db)
  BY <1>9, <1>13
<1>15. \A i \in 1..2 : I[i] \in 0 .. E - 1 /\ s[i] \in 0 .. E - 1
  BY <1>1, <1>3
<1>16. N \in BOOLEAN
  BY DEF Sentry!Nearer
<1>17. t[1] = IF N THEN a ELSE b
  <2>1. t[1] = Sentry(p)!Wrapped(I[1] + F) /\ I[1] \in Int /\ C \in Int /\ H \in Int
    BY <1>1, <1>2, <1>4, <1>10
  <2>2. CASE N
    BY <1>2, <2>1, <2>2
  <2>3. CASE ~N
    <3> DEFINE y == I[1] + F
               z == I[1] + C + H
    <3>1. y \in Int /\ z \in Int /\ (y = z \/ y = z - E)
      <4> HIDE DEF E, H, Q, C, F, N, I
      <4>1. QED BY <1>1, <1>2, <2>1, <2>3
    <3>2. Sentry(p)!Wrapped(y) = Sentry(p)!Wrapped(z)
      <4> HIDE DEF y, z
      <4>1. QED BY <3>1, SameSentryAngle
    <3>3. QED BY <2>1, <2>3, <3>2
  <2>4. QED BY <1>16, <2>2, <2>3
<1> HIDE DEF E, H, Q, C, F, d, N, I, s, a, b, Da, Db, D
<1>18. (Da - Db) \in {H, -H}
  BY <1>1, <1>2, <1>10, <1>11, <1>12
<1>19. IF N THEN Da \in -Q .. Q ELSE Db \in -Q .. Q
  BY <1>1, <1>12, <1>14, <1>16, <1>18
<1>20. D(1) \in -Q .. Q
  <2>1. D(1) = IF N THEN Da ELSE Db
    BY <1>17 DEF D, Da, Db, t
  <2>2. QED BY <1>16, <1>19, <2>1
<1>21. \A i \in 1..2 : LET u == (t[i] - I[i]) - (t[1] - I[1]) IN u = 0 \/ u = E \/ u = -E
  BY <1>1, <1>2, <1>5, <1>15
<1>22. ASSUME NEW i \in 1..2
       PROVE  D(i) \in -Q .. Q
  <2>1. /\ t[i] \in Int /\ t[1] \in Int /\ s[i] \in Int /\ s[1] \in Int
        /\ I[i] \in Int /\ I[1] \in Int
    BY <1>1, <1>5, <1>15
  <2>2. \/ D(i) = D(1) \/ D(i) = D(1) + E \/ D(i) = D(1) - E
        \/ D(i) = D(1) + 2 * E \/ D(i) = D(1) - 2 * E
        \/ D(i) = D(1) + 3 * E \/ D(i) = D(1) - 3 * E
        \/ D(i) = D(1) + 4 * E \/ D(i) = D(1) - 4 * E
    BY <2>1, <1>1, <1>7, <1>8, <1>21
  <2>3. QED BY <2>2, <1>1, <1>8, <1>20
<1>23. Sentry(p)!TurnsAtMostQuarter
  <2>1. \A i \in 1..2 : Sentry(p)!AbsOf(D(i)) <= Q
    BY <1>1, <1>8, <1>13, <1>22
  <2>2. QED BY <2>1 DEF Sentry!TurnsAtMostQuarter, Sentry!Steers, D, s, Q
<1>24. TurnedAlike(p)'
  BY <1>21 DEF TurnedAlike, Sentry!Steers, E, I
<1>25. Sentry(p)!MovesWhereAsked'
  <2> SUFFICES ASSUME NEW i \in 1..2
               PROVE  Sentry(p)!Wrapped(t[i] - I[i] + (IF d = -1 THEN H ELSE 0))
                        = Sentry(p)!Wrapped(j)
    BY <1>4 DEF Sentry!MovesWhereAsked, Sentry!Steers, I, H
  <2> DEFINE y == t[i] - I[i] + (IF d = -1 THEN H ELSE 0)
  <2>1. /\ y \in Int /\ j \in Int
        /\ \/ y = j \/ y = j + E \/ y = j - E \/ y = j + 2 * E \/ y = j - 2 * E
    <3>1. j \in Int
      BY <1>1 DEF H
    <3>2. y = x \/ y = x + E \/ y = x - E
      BY <1>1, <1>2, <1>5, <1>15
    <3>3. y \in Int
      BY <1>1, <1>2, <1>5, <1>15
    <3>4. QED BY <1>1, <1>2, <3>1, <3>2, <3>3
  <2> HIDE DEF y
  <2>2. Sentry(p)!Wrapped(y) = Sentry(p)!Wrapped(j)
    BY <2>1, SameSentryAngle DEF E
  <2>3. QED BY <2>2 DEF y
<1>26. t_target' \in [1..2 -> 0 .. SentryConf[p].Encoder - 1]
       /\ t_direction' \in {-1, 1} /\ t_asked' = j
  BY <1>2, <1>4, <1>6 DEF E
<1>27. QED BY <1>23, <1>24, <1>25, <1>26

(* Targets that stay turn no module. *)
LEMMA TargetsStay ==
    ASSUME NEW p \in DOMAIN SentryConf, Sentry(p)!TypeOK, TurnedAlike(p),
           t_target' = t_target
    PROVE  TurnedAlike(p)' /\ Sentry(p)!TurnsAtMostQuarter
<1>1. TurnedAlike(p)'
  BY DEF TurnedAlike
<1>2. ASSUME NEW i \in 1..2
      PROVE  Sentry(p)!AbsOf(Sentry(p)!Diff(t_target'[i], t_target[i])) <= Sentry(p)!Quarter
  <2>1. t_target[i] \in 0 .. SentryConf[p].Encoder - 1
    BY DEF Sentry!TypeOK, Sentry!Steers, Sentry!Angles
  <2>2. t_target'[i] - t_target[i] = 0
    BY <2>1, SentryNumbers
  <2>3. Sentry(p)!Diff(t_target'[i], t_target[i]) = 0
    BY <2>2, SentryNumbers DEF Sentry!Diff
  <2>4. QED BY <2>3, SentryNumbers DEF Sentry!AbsOf
<1>3. QED BY <1>1, <1>2 DEF Sentry!TurnsAtMostQuarter, Sentry!Steers

LEMMA MovesAsBefore ==
    ASSUME NEW p \in DOMAIN SentryConf, Sentry(p)!MovesWhereAsked,
           t_target' = t_target, t_direction' = t_direction, t_asked' = t_asked
    PROVE  Sentry(p)!MovesWhereAsked'
  BY DEF Sentry!MovesWhereAsked

LEMMA SentryTypes ==
    ASSUME NEW p \in DOMAIN SentryConf
    PROVE  Sentry(p)!TypeOK <=>
             /\ t_phase \in {"align", "boot", "run"} /\ t_waited \in 0 .. SentryConf[p].Rounds
             /\ t_target \in [1..2 -> 0 .. SentryConf[p].Encoder - 1]
             /\ t_raw \in [1..2 -> 0 .. SentryConf[p].Encoder - 1]
             /\ t_direction \in -1 .. 1
             /\ t_asked \in -Sentry(p)!Half .. Sentry(p)!Half
             /\ t_seen \in [SentryConf[p].Drives -> BOOLEAN]
             /\ t_age \in [SentryConf[p].Drives -> 0 .. Sentry(p)!Never]
             /\ t_steer_age \in [1..2 -> 0 .. Sentry(p)!Never]
             /\ t_current \in [SentryConf[p].Drives -> {"zero", "drive"}]
             /\ t_steer_current \in [1..2 -> {"zero", "drive"}]
             /\ t_gap \in 0 .. SentryConf[p].MaxGap /\ t_armed \in BOOLEAN
             /\ t_moved \subseteq 1..2
  BY DEF Sentry!TypeOK, Sentry!Steers, Sentry!Angles, Sentry!Levels

LEMMA SentryStarts ==
    ASSUME NEW p \in DOMAIN SentryConf, Sentry(p)!Init
    PROVE  SentryIInv(p)
<1>1. /\ t_phase = "align" /\ t_waited = 0 /\ t_gap = 0
      /\ t_target = SentryConf[p].Initial /\ t_raw = [i \in 1..2 |-> 0]
      /\ t_direction = 0 /\ t_asked = 0
      /\ t_seen = [d \in SentryConf[p].Drives |-> FALSE]
      /\ t_current = [d \in SentryConf[p].Drives |-> "zero"]
      /\ t_steer_current = [i \in 1..2 |-> "zero"]
      /\ t_armed = FALSE /\ t_moved = {}
  BY DEF Sentry!Init, Sentry!Steers
<1>2. PICK a \in 0 .. Sentry(p)!Never :
         /\ t_age = [d \in SentryConf[p].Drives |-> a]
         /\ t_steer_age = [i \in 1..2 |-> a]
  BY DEF Sentry!Init, Sentry!Steers
<1>3. Sentry(p)!TypeOK
  <2>1. t_target \in [1..2 -> 0 .. SentryConf[p].Encoder - 1]
        /\ t_raw \in [1..2 -> 0 .. SentryConf[p].Encoder - 1]
    BY <1>1, SentryNumbers
  <2>2. t_asked \in -Sentry(p)!Half .. Sentry(p)!Half /\ t_direction \in -1 .. 1
        /\ t_gap \in 0 .. SentryConf[p].MaxGap /\ t_waited \in 0 .. SentryConf[p].Rounds
    BY <1>1, SentryNumbers
  <2>3. QED BY <1>1, <1>2, <2>1, <2>2, SentryTypes
<1>4. Sentry(p)!MovesWhereAsked
  BY <1>1 DEF Sentry!MovesWhereAsked
<1>5. TurnedAlike(p)
  <2>1. \A i \in 1..2 : t_target[i] - SentryConf[p].Initial[i] = 0
    BY <1>1, SentryNumbers
  <2>2. QED BY <2>1 DEF TurnedAlike, Sentry!Steers
<1>6. WaitEnds(p) /\ UnheardIsOld(p) /\ HeardSince(p)
  BY <1>1, SentryNumbers DEF WaitEnds, UnheardIsOld, HeardSince
<1>7. QED BY <1>3, <1>4, <1>5, <1>6 DEF SentryIInv

LEMMA SentryRests ==
    ASSUME NEW p \in DOMAIN SentryConf, SentryIInv(p), UNCHANGED sentry
    PROVE  SentryIInv(p)'
<1>1. /\ t_phase' = t_phase /\ t_waited' = t_waited /\ t_target' = t_target
      /\ t_raw' = t_raw /\ t_steer_age' = t_steer_age
      /\ t_direction' = t_direction /\ t_seen' = t_seen /\ t_age' = t_age
      /\ t_current' = t_current /\ t_steer_current' = t_steer_current
      /\ t_gap' = t_gap /\ t_armed' = t_armed /\ t_asked' = t_asked
      /\ t_moved' = t_moved
  BY DEF sentry
<1>2. Sentry(p)!TypeOK'
  BY <1>1 DEF SentryIInv, Sentry!TypeOK
<1>3. Sentry(p)!MovesWhereAsked' /\ TurnedAlike(p)'
  BY <1>1, MovesAsBefore, TargetsStay DEF SentryIInv
<1>4. WaitEnds(p)' /\ UnheardIsOld(p)' /\ HeardSince(p)'
  BY <1>1 DEF SentryIInv, WaitEnds, UnheardIsOld, HeardSince
<1>5. QED BY <1>2, <1>3, <1>4 DEF SentryIInv

(* A current is one that was allowed for the motor. *)
LEMMA CurrentsGiven ==
    ASSUME NEW p \in DOMAIN SentryConf, NEW direction,
           Sentry(p)!ComputeCurrents(direction)
    PROVE  /\ t_current' \in [SentryConf[p].Drives -> {"zero", "drive"}]
           /\ t_steer_current' \in [1..2 -> {"zero", "drive"}]
           /\ t_gap' = 0
           /\ \A d \in SentryConf[p].Drives : t_current'[d] = "drive" =>
                 ~(t_age[d] > SentryConf[p].Timeout \/ (~t_seen[d] /\ direction = 0))
<1>1. /\ t_current' \in {c \in [SentryConf[p].Drives -> {"zero", "drive"}] :
                           \A d \in SentryConf[p].Drives :
                               c[d] \in Sentry(p)!DriveCurrents(d, direction)}
      /\ t_steer_current' \in [1..2 -> {"zero", "drive"}]
      /\ t_gap' = 0
  BY DEF Sentry!ComputeCurrents, Sentry!Levels, Sentry!Steers
<1>2. \A d \in SentryConf[p].Drives : t_current'[d] \in Sentry(p)!DriveCurrents(d, direction)
  BY <1>1
<1>3. QED BY <1>1, <1>2 DEF Sentry!DriveCurrents

LEMMA FlushedAreModules ==
    ASSUME NEW p \in DOMAIN SentryConf, t_moved \subseteq 1..2, Sentry(p)!Flush
    PROVE  t_moved' \subseteq 1..2
  BY DEF Sentry!Flush, Sentry!Steers

LEMMA SentryCommand ==
    ASSUME NEW p \in DOMAIN SentryConf, SentryIInv(p), NEW moves \in BOOLEAN,
           NEW j \in SentryConf[p].StickAngles, Sentry(p)!on_chassis_cmd(moves, j)
    PROVE  SentryIInv(p)' /\ Sentry(p)!TurnsAtMostQuarter
<1>1. /\ t_phase # "align" /\ t_phase' = "run" /\ Sentry(p)!Update(moves, j)
      /\ Sentry(p)!ComputeCurrents(t_direction') /\ Sentry(p)!Flush
      /\ t_waited' = t_waited /\ t_raw' = t_raw /\ t_steer_age' = t_steer_age
      /\ t_seen' = t_seen /\ t_age' = t_age /\ t_armed' = t_armed
  BY DEF Sentry!on_chassis_cmd, Sentry!reports
<1>2. /\ Sentry(p)!TypeOK /\ Sentry(p)!MovesWhereAsked /\ TurnedAlike(p)
      /\ WaitEnds(p) /\ UnheardIsOld(p) /\ HeardSince(p)
  BY DEF SentryIInv
<1>3. j \in -Sentry(p)!Half .. Sentry(p)!Half
  BY SentryNumbers
<1>4. /\ t_target' \in [1..2 -> 0 .. SentryConf[p].Encoder - 1]
      /\ t_direction' \in -1 .. 1
      /\ t_asked' \in -Sentry(p)!Half .. Sentry(p)!Half
      /\ TurnedAlike(p)' /\ Sentry(p)!MovesWhereAsked' /\ Sentry(p)!TurnsAtMostQuarter
  <2>1. CASE moves
    <3>1. Sentry(p)!Update(TRUE, j)
      BY <1>1, <2>1
    <3>2. /\ t_target' \in [1..2 -> 0 .. SentryConf[p].Encoder - 1]
          /\ t_direction' \in {-1, 1} /\ t_asked' = j
          /\ TurnedAlike(p)' /\ Sentry(p)!MovesWhereAsked'
          /\ Sentry(p)!TurnsAtMostQuarter
      BY <3>1, <1>2, <1>3, ModulesTurn
    <3>3. t_direction' \in -1 .. 1
      BY <3>2
    <3>4. QED BY <3>2, <3>3, <1>3
  <2>2. CASE ~moves
    <3>1. t_direction' = 0 /\ t_target' = t_target /\ t_asked' = t_asked
      BY <1>1, <2>2 DEF Sentry!Update
    <3>2. Sentry(p)!MovesWhereAsked'
      BY <3>1 DEF Sentry!MovesWhereAsked
    <3>3. QED BY <3>1, <3>2, <1>2, SentryTypes, TargetsStay
  <2>3. QED BY <2>1, <2>2
<1>5. /\ t_current' \in [SentryConf[p].Drives -> {"zero", "drive"}]
      /\ t_steer_current' \in [1..2 -> {"zero", "drive"}] /\ t_gap' = 0
      /\ \A d \in SentryConf[p].Drives : t_current'[d] = "drive" =>
            ~(t_age[d] > SentryConf[p].Timeout \/ (~t_seen[d] /\ t_direction' = 0))
  BY <1>1, CurrentsGiven
<1>6. Sentry(p)!TypeOK'
  <2>1. t_moved' \subseteq 1..2
    BY <1>1, <1>2, SentryTypes, FlushedAreModules
  <2>2. t_gap' \in 0 .. SentryConf[p].MaxGap
    BY <1>5, SentryNumbers
  <2>3. QED BY <1>1, <1>2, <1>4, <1>5, <2>1, <2>2, SentryTypes
           DEF Sentry!TypeOK, Sentry!Steers, Sentry!Angles, Sentry!Levels
<1>7. WaitEnds(p)' /\ UnheardIsOld(p)'
  BY <1>1, <1>2 DEF WaitEnds, UnheardIsOld
<1>8. HeardSince(p)'
  <2> SUFFICES ASSUME NEW d \in SentryConf[p].Drives, t_current'[d] = "drive"
               PROVE  t_seen[d] /\ t_age[d] <= SentryConf[p].Timeout + 0
    BY <1>1, <1>5 DEF HeardSince
  <2>1. t_age[d] \in 0 .. Sentry(p)!Never
    BY <1>2, SentryTypes
  <2>2. t_age[d] <= SentryConf[p].Timeout
    BY <1>5, <2>1, SentryNumbers
  <2>3. t_age[d] # Sentry(p)!Never
    BY <2>1, <2>2, SentryNumbers
  <2>4. QED BY <1>1, <1>2, <2>1, <2>2, <2>3, SentryNumbers DEF UnheardIsOld
<1>9. QED BY <1>4, <1>6, <1>7, <1>8 DEF SentryIInv

LEMMA SentryDriveReport ==
    ASSUME NEW p \in DOMAIN SentryConf, SentryIInv(p),
           NEW d \in SentryConf[p].Drives, NEW delay \in 0 .. SentryConf[p].MaxDelay,
           Sentry(p)!DriveReport(d, delay)
    PROVE  SentryIInv(p)' /\ Sentry(p)!TurnsAtMostQuarter
<1>1. /\ delay <= t_age[d]
      /\ t_seen' = [t_seen EXCEPT ![d] = TRUE] /\ t_age' = [t_age EXCEPT ![d] = delay]
      /\ t_phase' = t_phase /\ t_waited' = t_waited /\ t_target' = t_target
      /\ t_direction' = t_direction /\ t_asked' = t_asked /\ t_raw' = t_raw
      /\ t_steer_age' = t_steer_age /\ t_current' = t_current
      /\ t_steer_current' = t_steer_current /\ t_gap' = t_gap
      /\ t_armed' = t_armed /\ t_moved' = t_moved
  BY DEF Sentry!DriveReport, Sentry!steering, Sentry!outputs
<1>2. /\ Sentry(p)!TypeOK /\ Sentry(p)!MovesWhereAsked /\ TurnedAlike(p)
      /\ WaitEnds(p) /\ UnheardIsOld(p) /\ HeardSince(p)
  BY DEF SentryIInv
<1>3. delay \in 0 .. Sentry(p)!Never
  BY SentryNumbers
<1>4. t_seen \in [SentryConf[p].Drives -> BOOLEAN]
      /\ t_age \in [SentryConf[p].Drives -> 0 .. Sentry(p)!Never]
      /\ t_gap \in 0 .. SentryConf[p].MaxGap
  BY <1>2, SentryTypes
<1>5. Sentry(p)!TypeOK'
  BY <1>1, <1>2, <1>3 DEF Sentry!TypeOK
<1>6. Sentry(p)!MovesWhereAsked' /\ TurnedAlike(p)' /\ Sentry(p)!TurnsAtMostQuarter
  BY <1>1, <1>2, MovesAsBefore, TargetsStay
<1>7. WaitEnds(p)'
  BY <1>1, <1>2 DEF WaitEnds
<1>8. \A e \in SentryConf[p].Drives :
         IF e = d THEN t_seen'[e] /\ t_age'[e] = delay
         ELSE t_seen'[e] = t_seen[e] /\ t_age'[e] = t_age[e]
  BY <1>1, <1>4
<1>9. UnheardIsOld(p)'
  BY <1>1, <1>2, <1>8 DEF UnheardIsOld
<1>10. HeardSince(p)'
  <2> SUFFICES ASSUME t_phase = "run", NEW e \in SentryConf[p].Drives,
                      t_current[e] = "drive"
               PROVE  t_seen'[e] /\ t_age'[e] <= SentryConf[p].Timeout + t_gap
    BY <1>1 DEF HeardSince
  <2>1. t_seen[e] /\ t_age[e] <= SentryConf[p].Timeout + t_gap
    BY <1>2 DEF HeardSince
  <2>2. t_age[e] \in Nat /\ t_gap \in Nat /\ delay \in Nat
    BY <1>3, <1>4, SentryNumbers
  <2>3. QED BY <2>1, <2>2, <1>1, <1>8, SentryNumbers
<1>11. QED BY <1>5, <1>6, <1>7, <1>9, <1>10 DEF SentryIInv

LEMMA SentrySteerReport ==
    ASSUME NEW p \in DOMAIN SentryConf, SentryIInv(p), NEW i \in 1..2,
           NEW raw \in SentryConf[p].Reported, NEW delay \in 0 .. SentryConf[p].MaxDelay,
           Sentry(p)!SteerReport(i, raw, delay)
    PROVE  SentryIInv(p)' /\ Sentry(p)!TurnsAtMostQuarter
<1>1. /\ t_raw' = [t_raw EXCEPT ![i] = raw]
      /\ t_steer_age' = [t_steer_age EXCEPT ![i] = delay]
      /\ t_phase' = t_phase /\ t_waited' = t_waited /\ t_target' = t_target
      /\ t_direction' = t_direction /\ t_asked' = t_asked
      /\ t_seen' = t_seen /\ t_age' = t_age /\ t_current' = t_current
      /\ t_steer_current' = t_steer_current /\ t_gap' = t_gap
      /\ t_armed' = t_armed /\ t_moved' = t_moved
  BY DEF Sentry!SteerReport, Sentry!steering, Sentry!outputs
<1>2. /\ Sentry(p)!TypeOK /\ Sentry(p)!MovesWhereAsked /\ TurnedAlike(p)
      /\ WaitEnds(p) /\ UnheardIsOld(p) /\ HeardSince(p)
  BY DEF SentryIInv
<1>3. delay \in 0 .. Sentry(p)!Never /\ raw \in 0 .. SentryConf[p].Encoder - 1
  BY SentryNumbers
<1>4. t_raw' \in [1..2 -> 0 .. SentryConf[p].Encoder - 1]
      /\ t_steer_age' \in [1..2 -> 0 .. Sentry(p)!Never]
  BY <1>1, <1>2, <1>3, SentryTypes
<1>5. Sentry(p)!TypeOK'
  BY <1>1, <1>2, <1>4 DEF Sentry!TypeOK, Sentry!Steers, Sentry!Angles
<1>6. Sentry(p)!MovesWhereAsked' /\ TurnedAlike(p)' /\ Sentry(p)!TurnsAtMostQuarter
  BY <1>1, <1>2, MovesAsBefore, TargetsStay
<1>7. WaitEnds(p)' /\ UnheardIsOld(p)' /\ HeardSince(p)'
  BY <1>1, <1>2 DEF WaitEnds, UnheardIsOld, HeardSince
<1>8. QED BY <1>5, <1>6, <1>7 DEF SentryIInv

LEMMA SentryRound ==
    ASSUME NEW p \in DOMAIN SentryConf, SentryIInv(p), Sentry(p)!WaitRound
    PROVE  SentryIInv(p)' /\ Sentry(p)!TurnsAtMostQuarter
<1> DEFINE Ends == Sentry(p)!Aligned \/ t_waited' = SentryConf[p].Rounds
<1>1. /\ t_phase = "align" /\ t_waited' = t_waited + 1
      /\ Sentry(p)!ComputeCurrents(t_direction) /\ Sentry(p)!Flush
      /\ IF Ends
         THEN /\ t_phase' = "boot"
              /\ t_age' = [d \in SentryConf[p].Drives |-> Sentry(p)!Never]
              /\ t_steer_age' = [i \in 1..2 |-> Sentry(p)!Never]
         ELSE t_phase' = t_phase /\ t_age' = t_age /\ t_steer_age' = t_steer_age
      /\ t_target' = t_target /\ t_direction' = t_direction /\ t_asked' = t_asked
      /\ t_raw' = t_raw /\ t_seen' = t_seen /\ t_armed' = t_armed
  BY DEF Sentry!WaitRound, Sentry!steering, Sentry!Steers
<1>2. /\ Sentry(p)!TypeOK /\ Sentry(p)!MovesWhereAsked /\ TurnedAlike(p)
      /\ WaitEnds(p) /\ UnheardIsOld(p) /\ HeardSince(p)
  BY DEF SentryIInv
<1>3. /\ t_current' \in [SentryConf[p].Drives -> {"zero", "drive"}]
      /\ t_steer_current' \in [1..2 -> {"zero", "drive"}] /\ t_gap' = 0
  BY <1>1, CurrentsGiven
<1>4. t_moved' \subseteq 1..2 /\ t_gap' \in 0 .. SentryConf[p].MaxGap
  BY <1>1, <1>2, <1>3, SentryTypes, FlushedAreModules, SentryNumbers
<1>5. /\ t_waited' \in 0 .. SentryConf[p].Rounds
      /\ t_waited' # SentryConf[p].Rounds => t_waited' < SentryConf[p].Rounds
  <2>1. t_waited \in 0 .. SentryConf[p].Rounds /\ t_waited < SentryConf[p].Rounds
    BY <1>1, <1>2, SentryTypes DEF WaitEnds
  <2>2. QED BY <1>1, <2>1, SentryNumbers
<1>6. /\ t_phase' \in {"align", "boot", "run"}
      /\ t_age' \in [SentryConf[p].Drives -> 0 .. Sentry(p)!Never]
      /\ t_steer_age' \in [1..2 -> 0 .. Sentry(p)!Never]
  BY <1>1, <1>2, SentryTypes, SentryNumbers
<1>7. Sentry(p)!TypeOK'
  BY <1>1, <1>2, <1>3, <1>4, <1>5, <1>6
     DEF Sentry!TypeOK, Sentry!Steers, Sentry!Angles, Sentry!Levels
<1>8. Sentry(p)!MovesWhereAsked' /\ TurnedAlike(p)' /\ Sentry(p)!TurnsAtMostQuarter
  BY <1>1, <1>2, MovesAsBefore, TargetsStay
<1>9. WaitEnds(p)' /\ UnheardIsOld(p)' /\ HeardSince(p)'
  <2>1. CASE Ends
    BY <1>1, <2>1 DEF WaitEnds, UnheardIsOld, HeardSince
  <2>2. CASE ~Ends
    BY <1>1, <1>5, <2>2 DEF WaitEnds, UnheardIsOld, HeardSince
  <2>3. QED BY <2>1, <2>2
<1>10. QED BY <1>7, <1>8, <1>9 DEF SentryIInv

LEMMA SentryArms ==
    ASSUME NEW p \in DOMAIN SentryConf, SentryIInv(p), Sentry(p)!SetArmed
    PROVE  SentryIInv(p)' /\ Sentry(p)!TurnsAtMostQuarter
<1>1. /\ t_armed' = ~t_armed
      /\ t_phase' = t_phase /\ t_waited' = t_waited /\ t_target' = t_target
      /\ t_direction' = t_direction /\ t_asked' = t_asked /\ t_raw' = t_raw
      /\ t_steer_age' = t_steer_age /\ t_seen' = t_seen /\ t_age' = t_age
      /\ t_current' = t_current /\ t_steer_current' = t_steer_current
      /\ t_gap' = t_gap /\ t_moved' = t_moved
  BY DEF Sentry!SetArmed, Sentry!steering, Sentry!reports, Sentry!outputs
<1>2. /\ Sentry(p)!TypeOK /\ Sentry(p)!MovesWhereAsked /\ TurnedAlike(p)
      /\ WaitEnds(p) /\ UnheardIsOld(p) /\ HeardSince(p)
  BY DEF SentryIInv
<1>3. Sentry(p)!TypeOK'
  BY <1>1, <1>2 DEF Sentry!TypeOK
<1>4. Sentry(p)!MovesWhereAsked' /\ TurnedAlike(p)' /\ Sentry(p)!TurnsAtMostQuarter
  BY <1>1, <1>2, MovesAsBefore, TargetsStay
<1>5. WaitEnds(p)' /\ UnheardIsOld(p)' /\ HeardSince(p)'
  BY <1>1, <1>2 DEF WaitEnds, UnheardIsOld, HeardSince
<1>6. QED BY <1>3, <1>4, <1>5 DEF SentryIInv

LEMMA SentryTick ==
    ASSUME NEW p \in DOMAIN SentryConf, SentryIInv(p), Sentry(p)!Tick
    PROVE  SentryIInv(p)' /\ Sentry(p)!TurnsAtMostQuarter
<1>1. /\ t_gap < SentryConf[p].MaxGap /\ t_gap' = t_gap + 1
      /\ t_age' = [d \in SentryConf[p].Drives |-> Sentry(p)!Older(t_age[d])]
      /\ t_steer_age' = [i \in 1..2 |-> Sentry(p)!Older(t_steer_age[i])]
      /\ t_phase' = t_phase /\ t_waited' = t_waited /\ t_target' = t_target
      /\ t_direction' = t_direction /\ t_asked' = t_asked /\ t_raw' = t_raw
      /\ t_seen' = t_seen /\ t_armed' = t_armed
      /\ t_current' = t_current /\ t_steer_current' = t_steer_current
      /\ t_moved' = t_moved
  BY DEF Sentry!Tick, Sentry!steering, Sentry!outputs, Sentry!Steers
<1>2. /\ Sentry(p)!TypeOK /\ Sentry(p)!MovesWhereAsked /\ TurnedAlike(p)
      /\ WaitEnds(p) /\ UnheardIsOld(p) /\ HeardSince(p)
  BY DEF SentryIInv
<1>3. /\ t_age \in [SentryConf[p].Drives -> 0 .. Sentry(p)!Never]
      /\ t_steer_age \in [1..2 -> 0 .. Sentry(p)!Never]
      /\ t_gap \in 0 .. SentryConf[p].MaxGap
  BY <1>2, SentryTypes
<1>4. \A a \in 0 .. Sentry(p)!Never :
         /\ Sentry(p)!Older(a) \in 0 .. Sentry(p)!Never /\ Sentry(p)!Older(a) <= a + 1
         /\ a = Sentry(p)!Never => Sentry(p)!Older(a) = Sentry(p)!Never
  BY SentryNumbers DEF Sentry!Older
<1>5. /\ t_age' \in [SentryConf[p].Drives -> 0 .. Sentry(p)!Never]
      /\ t_steer_age' \in [1..2 -> 0 .. Sentry(p)!Never]
      /\ t_gap' \in 0 .. SentryConf[p].MaxGap
  BY <1>1, <1>3, <1>4, SentryNumbers
<1>6. Sentry(p)!TypeOK'
  BY <1>1, <1>2, <1>5 DEF Sentry!TypeOK, Sentry!Steers
<1>7. Sentry(p)!MovesWhereAsked' /\ TurnedAlike(p)' /\ Sentry(p)!TurnsAtMostQuarter
  BY <1>1, <1>2, MovesAsBefore, TargetsStay
<1>8. WaitEnds(p)'
  BY <1>1, <1>2 DEF WaitEnds
<1>9. \A d \in SentryConf[p].Drives : t_age'[d] = Sentry(p)!Older(t_age[d])
                                      /\ t_age[d] \in 0 .. Sentry(p)!Never
  BY <1>1, <1>3
<1>10. UnheardIsOld(p)'
  BY <1>1, <1>2, <1>4, <1>9 DEF UnheardIsOld
<1>11. HeardSince(p)'
  <2> SUFFICES ASSUME t_phase = "run", NEW d \in SentryConf[p].Drives,
                      t_current[d] = "drive"
               PROVE  t_seen[d] /\ t_age'[d] <= SentryConf[p].Timeout + (t_gap + 1)
    BY <1>1 DEF HeardSince
  <2>1. t_seen[d] /\ t_age[d] <= SentryConf[p].Timeout + t_gap
    BY <1>2 DEF HeardSince
  <2>2. t_age'[d] <= t_age[d] + 1 /\ t_age[d] \in Nat /\ t_age'[d] \in Nat /\ t_gap \in Nat
    BY <1>3, <1>4, <1>5, <1>9, SentryNumbers
  <2>3. QED BY <2>1, <2>2, SentryNumbers
<1>12. QED BY <1>6, <1>7, <1>8, <1>10, <1>11 DEF SentryIInv

LEMMA SentryNext ==
    ASSUME NEW p \in DOMAIN SentryConf, SentryIInv(p), Sentry(p)!Next
    PROVE  SentryIInv(p)' /\ Sentry(p)!TurnsAtMostQuarter
<1>1. CASE \E moves \in BOOLEAN, j \in SentryConf[p].StickAngles :
             Sentry(p)!on_chassis_cmd(moves, j)
  BY <1>1, SentryCommand
<1>2. CASE \E d \in SentryConf[p].Drives, delay \in 0 .. SentryConf[p].MaxDelay :
             Sentry(p)!DriveReport(d, delay)
  BY <1>2, SentryDriveReport
<1>3. CASE \E i \in 1..2, raw \in SentryConf[p].Reported,
              delay \in 0 .. SentryConf[p].MaxDelay : Sentry(p)!SteerReport(i, raw, delay)
  BY <1>3, SentrySteerReport
<1>4. QED BY <1>1, <1>2, <1>3, SentryRound, SentryArms, SentryTick
       DEF Sentry!Next, Sentry!Steers

LEMMA SentryIsSound ==
    ASSUME NEW p \in DOMAIN SentryConf, SentryIInv(p)
    PROVE  Sentry(p)!SentryInv
<1>1. Sentry(p)!TypeOK /\ Sentry(p)!MovesWhereAsked /\ HeardSince(p)
  BY DEF SentryIInv
<1>2. Sentry(p)!ErrorIsShort
  <2> DEFINE E == SentryConf[p].Encoder
  <2> SUFFICES ASSUME NEW i \in 1..2, NEW raw \in 0 .. E - 1
               PROVE  LET e == Sentry(p)!AngleError(t_target[i], raw)
                      IN  /\ Sentry(p)!Wrapped(raw + e) = t_target[i]
                          /\ Sentry(p)!AbsOf(e) <= Sentry(p)!Half
    BY DEF Sentry!ErrorIsShort, Sentry!Steers, Sentry!Angles
  <2> DEFINE t == t_target[i]
             D == Sentry(p)!Diff(t, raw)
  <2>1. t \in 0 .. E - 1 /\ E \in Nat /\ Sentry(p)!Half \in Nat
    BY <1>1, SentryTypes, SentryNumbers
  <2>2. /\ D \in -Sentry(p)!Half .. Sentry(p)!Half
        /\ D = t - raw \/ D = t - raw + E \/ D = t - raw - E
    BY <2>1, ShortWay
  <2>3. Sentry(p)!AbsOf(D) <= Sentry(p)!Half
    BY <2>1, <2>2 DEF Sentry!AbsOf
  <2> DEFINE y == raw + D
  <2>4. y \in Int /\ t \in Int /\ (y = t \/ y = t + E \/ y = t - E)
    <3> HIDE DEF E, t, D
    <3>1. QED BY <2>1, <2>2
  <2>5. Sentry(p)!Wrapped(y) = Sentry(p)!Wrapped(t)
    <3> HIDE DEF t, y
    <3>1. QED BY <2>4, SameSentryAngle
  <2>6. Sentry(p)!Wrapped(t) = t
    <3>1. t \in -E .. 2 * E - 1
      BY <2>1
    <3>2. LET w == Sentry(p)!Wrapped(t)
          IN  w \in 0 .. E - 1 /\ (w = t \/ w = t + E \/ w = t - E)
      BY <3>1, WrapsSentry
    <3> HIDE DEF t, E
    <3>3. QED BY <2>1, <3>2
  <2>7. QED BY <2>3, <2>5, <2>6 DEF Sentry!AngleError
<1>3. Sentry(p)!DrivenWithReports
  <2> SUFFICES ASSUME t_phase = "run", NEW d \in SentryConf[p].Drives,
                      t_current[d] = "drive"
               PROVE  t_seen[d] /\ t_age[d] <= SentryConf[p].Timeout + SentryConf[p].MaxGap
    BY DEF Sentry!DrivenWithReports
  <2>1. t_seen[d] /\ t_age[d] <= SentryConf[p].Timeout + t_gap
    BY <1>1 DEF HeardSince
  <2>2. t_age[d] \in 0 .. Sentry(p)!Never /\ t_gap \in 0 .. SentryConf[p].MaxGap
    BY <1>1, SentryTypes
  <2>3. QED BY <2>1, <2>2, SentryNumbers
<1>4. QED BY <1>1, <1>2, <1>3 DEF Sentry!SentryInv

(* The sentry, whichever part runs. *)
SentriesSound == \A p \in DOMAIN SentryConf : part = p => SentryIInv(p)

LEMMA SentriesStart == AllInit => SentriesSound
<1> SUFFICES ASSUME AllInit, NEW p \in DOMAIN SentryConf, part = p
             PROVE  SentryIInv(p)
  BY DEF SentriesSound
<1>1. Sentry(p)!Init
  BY DEF AllInit, SentryInit
<1>2. QED BY <1>1, SentryStarts

LEMMA SentriesGoOn == SentriesSound /\ [AllNext]_allVars => SentriesSound'
<1> SUFFICES ASSUME SentriesSound, [AllNext]_allVars,
                    NEW p \in DOMAIN SentryConf, part' = p
             PROVE  SentryIInv(p)'
  BY DEF SentriesSound
<1>1. part = p
  BY DEF AllNext, allVars
<1>2. SentryIInv(p)
  BY <1>1 DEF SentriesSound
<1>3. Sentry(p)!Next \/ UNCHANGED sentry
  BY <1>1 DEF AllNext, allVars
<1>4. QED BY <1>2, <1>3, SentryNext, SentryRests

(* The sentry moves where it is asked to, and drives only motors that are  *)
(* heard, in every configuration.                                          *)
THEOREM SentryHolds == AllSpec => []SentryInv
<1>1. SentriesSound => SentryInv
  BY SentryIsSound DEF SentriesSound, SentryInv
<1>2. QED BY <1>1, SentriesStart, SentriesGoOn, PTL DEF AllSpec

(* No command turns a module of the sentry by more than a quarter. *)
THEOREM SentryTurnsHold == AllSpec => SentryTurns
<1> DEFINE Change == \A p \in DOMAIN SentryConf :
                        part = p => Sentry(p)!TurnsAtMostQuarter
<1>1. SentriesSound /\ [AllNext]_allVars => [Change]_sentry
  <2> SUFFICES ASSUME SentriesSound, [AllNext]_allVars, ~UNCHANGED sentry,
                      NEW p \in DOMAIN SentryConf, part = p
               PROVE  Sentry(p)!TurnsAtMostQuarter
    OBVIOUS
  <2>1. Sentry(p)!Next
    BY DEF AllNext, allVars
  <2>2. QED BY <2>1, SentryNext DEF SentriesSound
<1>2. QED BY <1>1, SentriesStart, SentriesGoOn, PTL DEF AllSpec, SentryTurns

(***************************************************************************)
(* The calibration of the inertial unit, in any configuration.  The        *)
(* invariant adds to CalibrationInv that the sums of an attempt lie        *)
(* between its smallest and its largest reading, taken as often as there   *)
(* are readings (SumsAreBetween), which is why a small spread bounds the   *)
(* distance of any reading from the mean.                                  *)
(***************************************************************************)

Attempts(p) == c_pc \in {"sample", "tail"}

SumsAreBetween(p) ==
    /\ c_norms.low <= c_norms.high /\ c_rates.low <= c_rates.high
    /\ Attempts(p) =>
        /\ c_taken * c_norms.low <= c_g_norm /\ c_g_norm <= c_taken * c_norms.high
        /\ c_taken * c_rates.low <= c_offset /\ c_offset <= c_taken * c_rates.high

(* An attempt under way is one of those that are left, and one that was    *)
(* cut short had moved.                                                    *)
AttemptIsLeft(p) ==
    /\ Attempts(p) => c_count < CalibrationConf[p].MaxRetry
    /\ c_pc = "tail" => Calibration(p)!Moved

CalibrationIInv(p) ==
    /\ Calibration(p)!TypeOK
    /\ Calibration(p)!UsedIsMeasured
    /\ Calibration(p)!DefaultsAreWhole
    /\ SumsAreBetween(p)
    /\ AttemptIsLeft(p)

LEMMA CalibrationNumbers ==
    ASSUME NEW p \in DOMAIN CalibrationConf
    PROVE  LET K == CalibrationConf[p]
           IN  /\ K.Samples \in Nat \ {0} /\ K.CheckEvery \in Nat \ {0}
               /\ K.MaxRetry \in Nat \ {0} /\ K.Gravity \in Nat \ {0}
               /\ K.Timeout \in Nat /\ K.MaxStep \in Nat
               /\ K.NormDiff \in Nat /\ K.RateDiff \in Nat
               /\ K.NormError \in Nat /\ K.OffsetLimit \in Nat
               /\ K.Norms \subseteq Nat /\ K.Rates \subseteq Int
               /\ Calibration(p)!Sum \in Nat
<1>1. Calibration(p)!CalibrationAssumption
  BY CalibrationsOK
<1>2. LET K == CalibrationConf[p]
      IN  /\ K.Samples \in Nat \ {0} /\ K.CheckEvery \in Nat \ {0}
          /\ K.MaxRetry \in Nat \ {0} /\ K.Gravity \in Nat \ {0}
          /\ K.Timeout \in Nat /\ K.MaxStep \in Nat
          /\ K.NormDiff \in Nat /\ K.RateDiff \in Nat
          /\ K.NormError \in Nat /\ K.OffsetLimit \in Nat
          /\ K.Norms \subseteq Nat /\ K.Rates \subseteq Int
  BY <1>1 DEF Calibration!CalibrationAssumption
<1>3. \A a, b \in Nat : a * b \in Nat
  OBVIOUS
<1>4. QED BY <1>2, <1>3 DEF Calibration!Sum

(* The least and the greatest of two numbers. *)
LEMMA MinOfTwo ==
    ASSUME NEW p \in DOMAIN CalibrationConf, NEW a \in Int, NEW b \in Int
    PROVE  Calibration(p)!Min({a, b}) = IF a <= b THEN a ELSE b
  BY DEF Calibration!Min

LEMMA MaxOfTwo ==
    ASSUME NEW p \in DOMAIN CalibrationConf, NEW a \in Int, NEW b \in Int
    PROVE  Calibration(p)!Max({a, b}) = IF a >= b THEN a ELSE b
  BY DEF Calibration!Max

(* One more reading: the sum stays between. *)
LEMMA OneMoreReading ==
    ASSUME NEW n \in Nat, NEW low \in Int, NEW high \in Int, NEW sum \in Int,
           NEW x \in Int, NEW l \in Int, NEW h \in Int,
           n * low <= sum, sum <= n * high, low <= high,
           n = 0 => l = x /\ h = x,
           n > 0 => l <= low /\ l <= x /\ h >= high /\ h >= x
    PROVE  l <= h /\ (n + 1) * l <= sum + x /\ sum + x <= (n + 1) * h
<1>1. (n + 1) * l = n * l + l /\ (n + 1) * h = n * h + h
  OBVIOUS
<1>2. CASE n = 0
  <2>1. n * low = 0 /\ n * high = 0 /\ n * l = 0 /\ n * h = 0
    BY <1>2
  <2>2. QED BY <1>1, <1>2, <2>1
<1>3. CASE n > 0
  <2>1. PICK e \in Nat : low = l + e
    <3>1. low - l \in Nat /\ low = l + (low - l)
      BY <1>3
    <3>2. QED BY <3>1
  <2>2. PICK f \in Nat : h = high + f
    <3>1. h - high \in Nat /\ h = high + (h - high)
      BY <1>3
    <3>2. QED BY <3>1
  <2>3. n * low = n * l + n * e /\ n * h = n * high + n * f
    BY <2>1, <2>2
  <2>4. n * e >= 0 /\ n * f >= 0 /\ n * l \in Int /\ n * h \in Int
        /\ n * low \in Int /\ n * high \in Int
    OBVIOUS
  <2>5. QED BY <1>1, <1>3, <2>3, <2>4
<1>4. QED BY <1>2, <1>3

(* Readings that differ by little are near their mean. *)
LEMMA NearTheMean ==
    ASSUME NEW n \in Nat, NEW low \in Int, NEW high \in Int, NEW sum \in Int,
           NEW D \in Nat, n * low <= sum, sum <= n * high, low <= high,
           high - low <= D, NEW x \in {low, high}
    PROVE  x * n - sum <= D * n /\ sum - x * n <= D * n
<1>1. PICK e \in Nat : D = (high - low) + e
  <2>1. D - (high - low) \in Nat /\ D = (high - low) + (D - (high - low))
    OBVIOUS
  <2>2. QED BY <2>1
<1>2. D * n = n * high - n * low + n * e
  BY <1>1
<1>3. n * e >= 0 /\ n * high \in Int /\ n * low \in Int /\ n * e \in Int
  OBVIOUS
<1>4. x * n = n * low \/ x * n = n * high
  OBVIOUS
<1>5. QED BY <1>2, <1>3, <1>4

LEMMA CalibrationTypes ==
    ASSUME NEW p \in DOMAIN CalibrationConf
    PROVE  LET K == CalibrationConf[p]
           IN  Calibration(p)!TypeOK <=>
                 /\ c_pc \in {"head", "sample", "tail", "done"}
                 /\ c_count \in 0 .. K.MaxRetry /\ c_elapsed \in 0 .. (K.Timeout + 1)
                 /\ c_taken \in 0 .. K.Samples
                 /\ c_g_norm \in Nat /\ c_accel_scale \in Nat /\ c_offset \in Int
                 /\ c_norms.low \in K.Norms \union {0}
                 /\ c_norms.high \in K.Norms \union {0}
                 /\ c_rates.low \in K.Rates \union {0}
                 /\ c_rates.high \in K.Rates \union {0}
                 /\ c_calibrated \in BOOLEAN
  BY DEF Calibration!TypeOK

LEMMA CalibrationStarts ==
    ASSUME NEW p \in DOMAIN CalibrationConf, Calibration(p)!Init
    PROVE  CalibrationIInv(p)
<1>1. /\ c_pc = "head" /\ c_count = 0 /\ c_elapsed = 0 /\ c_taken = 0
      /\ c_g_norm = Calibration(p)!Sum /\ c_offset = 0
      /\ c_norms = [low |-> 0, high |-> 0] /\ c_rates = [low |-> 0, high |-> 0]
      /\ c_calibrated = FALSE /\ c_accel_scale = Calibration(p)!Sum
  BY DEF Calibration!Init, Calibration!Unset
<1>2. Calibration(p)!TypeOK
  <2>1. /\ c_count \in 0 .. CalibrationConf[p].MaxRetry
        /\ c_elapsed \in 0 .. (CalibrationConf[p].Timeout + 1)
        /\ c_taken \in 0 .. CalibrationConf[p].Samples
    BY <1>1, CalibrationNumbers
  <2>2. c_norms.low = 0 /\ c_norms.high = 0 /\ c_rates.low = 0 /\ c_rates.high = 0
    BY <1>1
  <2>3. c_g_norm \in Nat /\ c_accel_scale \in Nat /\ c_offset \in Int
    BY <1>1, CalibrationNumbers
  <2>4. QED BY <1>1, <2>1, <2>2, <2>3, CalibrationTypes
<1>3. /\ Calibration(p)!UsedIsMeasured /\ Calibration(p)!DefaultsAreWhole
      /\ SumsAreBetween(p) /\ AttemptIsLeft(p)
  BY <1>1 DEF Calibration!UsedIsMeasured, Calibration!DefaultsAreWhole,
              SumsAreBetween, AttemptIsLeft, Attempts
<1>4. QED BY <1>2, <1>3 DEF CalibrationIInv

LEMMA CalibrationRests ==
    ASSUME NEW p \in DOMAIN CalibrationConf, CalibrationIInv(p), UNCHANGED calibration
    PROVE  CalibrationIInv(p)'
<1>1. /\ c_pc' = c_pc /\ c_count' = c_count /\ c_elapsed' = c_elapsed
      /\ c_taken' = c_taken /\ c_g_norm' = c_g_norm /\ c_offset' = c_offset
      /\ c_norms' = c_norms /\ c_rates' = c_rates
      /\ c_calibrated' = c_calibrated /\ c_accel_scale' = c_accel_scale
  BY DEF calibration
<1>2. Calibration(p)!TypeOK'
  BY <1>1 DEF CalibrationIInv, Calibration!TypeOK
<1>3. Calibration(p)!UsedIsMeasured'
  BY <1>1 DEF CalibrationIInv, Calibration!UsedIsMeasured
<1>4. Calibration(p)!DefaultsAreWhole'
  BY <1>1 DEF CalibrationIInv, Calibration!DefaultsAreWhole, Calibration!Rejected,
              Calibration!Moved
<1>5. SumsAreBetween(p)' /\ AttemptIsLeft(p)'
  BY <1>1 DEF CalibrationIInv, SumsAreBetween, AttemptIsLeft, Attempts, Calibration!Moved
<1>6. QED BY <1>2, <1>3, <1>4, <1>5 DEF CalibrationIInv

(* Waiting keeps the time within its cap. *)
LEMMA WaitsWithin ==
    ASSUME NEW p \in DOMAIN CalibrationConf,
           c_elapsed \in 0 .. (CalibrationConf[p].Timeout + 1),
           NEW d \in 0 .. CalibrationConf[p].MaxStep, Calibration(p)!Waits(d)
    PROVE  c_elapsed' \in 0 .. (CalibrationConf[p].Timeout + 1)
<1> DEFINE a == c_elapsed + d
           b == CalibrationConf[p].Timeout + 1
<1>1. a \in Nat /\ b \in Nat
  BY CalibrationNumbers
<1>2. c_elapsed' = Calibration(p)!Min({a, b})
  BY DEF Calibration!Waits
<1> HIDE DEF a, b
<1>3. c_elapsed' = IF a <= b THEN a ELSE b
  BY <1>1, <1>2, MinOfTwo
<1>4. c_elapsed' \in 0 .. b
  BY <1>1, <1>3
<1>5. QED BY <1>4 DEF b

LEMMA CalibrationAttempt ==
    ASSUME NEW p \in DOMAIN CalibrationConf, CalibrationIInv(p), Calibration(p)!Attempt
    PROVE  CalibrationIInv(p)'
<1>1. /\ c_pc = "head" /\ c_count < CalibrationConf[p].MaxRetry
      /\ c_pc' = "sample" /\ c_taken' = 0 /\ c_g_norm' = 0 /\ c_offset' = 0
      /\ c_count' = c_count /\ c_norms' = c_norms /\ c_rates' = c_rates
      /\ c_calibrated' = c_calibrated /\ c_accel_scale' = c_accel_scale
  BY DEF Calibration!Attempt
<1>2. PICK d \in 0 .. CalibrationConf[p].MaxStep :
         Calibration(p)!Waits(IF c_count > 0 THEN d ELSE 0)
  BY DEF Calibration!Attempt
<1>3. Calibration(p)!TypeOK
  BY DEF CalibrationIInv
<1>4. c_elapsed' \in 0 .. (CalibrationConf[p].Timeout + 1)
  <2> DEFINE e == IF c_count > 0 THEN d ELSE 0
  <2>1. e \in 0 .. CalibrationConf[p].MaxStep /\ Calibration(p)!Waits(e)
    BY <1>2, CalibrationNumbers
  <2>2. c_elapsed \in 0 .. (CalibrationConf[p].Timeout + 1)
    BY <1>3, CalibrationTypes
  <2> HIDE DEF e
  <2>3. QED BY <2>1, <2>2, WaitsWithin
<1>5. Calibration(p)!TypeOK'
  <2>1. c_taken' \in 0 .. CalibrationConf[p].Samples
    BY <1>1, CalibrationNumbers
  <2>2. QED BY <1>1, <1>3, <1>4, <2>1, CalibrationTypes DEF Calibration!TypeOK
<1>6. /\ Calibration(p)!UsedIsMeasured' /\ Calibration(p)!DefaultsAreWhole'
  BY <1>1 DEF Calibration!UsedIsMeasured, Calibration!DefaultsAreWhole
<1>7. SumsAreBetween(p)'
  <2>1. /\ c_norms.low \in Int /\ c_norms.high \in Int
        /\ c_rates.low \in Int /\ c_rates.high \in Int
    BY <1>3, CalibrationTypes, CalibrationNumbers
  <2>2. /\ 0 * c_norms.low = 0 /\ 0 * c_norms.high = 0
        /\ 0 * c_rates.low = 0 /\ 0 * c_rates.high = 0
    BY <2>1
  <2>3. QED BY <1>1, <2>2 DEF CalibrationIInv, SumsAreBetween
<1>8. AttemptIsLeft(p)'
  BY <1>1 DEF AttemptIsLeft
<1>9. QED BY <1>5, <1>6, <1>7, <1>8 DEF CalibrationIInv

LEMMA CalibrationSample ==
    ASSUME NEW p \in DOMAIN CalibrationConf, CalibrationIInv(p), Calibration(p)!Sample
    PROVE  CalibrationIInv(p)'
<1> DEFINE K == CalibrationConf[p]
<1>1. /\ c_pc = "sample" /\ c_taken < K.Samples /\ c_taken' = c_taken + 1
      /\ c_pc' = IF c_taken' % K.CheckEvery = 0 /\ Calibration(p)!Moved'
                 THEN "tail" ELSE "sample"
      /\ c_count' = c_count /\ c_calibrated' = c_calibrated
      /\ c_accel_scale' = c_accel_scale
  BY DEF Calibration!Sample
<1>2. PICK n \in K.Norms, w \in K.Rates :
         /\ c_g_norm' = c_g_norm + n /\ c_offset' = c_offset + w
         /\ c_norms' = Calibration(p)!Widened(c_norms, n)
         /\ c_rates' = Calibration(p)!Widened(c_rates, w)
  BY DEF Calibration!Sample
<1>3. PICK d \in 0 .. K.MaxStep : Calibration(p)!Waits(d)
  BY DEF Calibration!Sample
<1>4. /\ c_taken \in 0 .. K.Samples /\ c_elapsed \in 0 .. (K.Timeout + 1)
      /\ c_g_norm \in Nat /\ c_offset \in Int
      /\ c_norms.low \in K.Norms \union {0} /\ c_norms.high \in K.Norms \union {0}
      /\ c_rates.low \in K.Rates \union {0} /\ c_rates.high \in K.Rates \union {0}
      /\ Calibration(p)!TypeOK
  BY CalibrationTypes DEF CalibrationIInv
<1>5. /\ c_norms.low \in Nat /\ c_norms.high \in Nat
      /\ c_rates.low \in Int /\ c_rates.high \in Int
      /\ n \in Nat /\ w \in Int /\ K.Samples \in Nat /\ K.Timeout \in Nat
  BY <1>4, CalibrationNumbers
<1>6. /\ c_norms.low <= c_norms.high /\ c_rates.low <= c_rates.high
      /\ c_taken * c_norms.low <= c_g_norm /\ c_g_norm <= c_taken * c_norms.high
      /\ c_taken * c_rates.low <= c_offset /\ c_offset <= c_taken * c_rates.high
  BY <1>1 DEF CalibrationIInv, SumsAreBetween, Attempts
<1>7. /\ c_norms'.low \in {c_norms.low, n} /\ c_norms'.high \in {c_norms.high, n}
      /\ c_taken = 0 => c_norms'.low = n /\ c_norms'.high = n
      /\ c_taken > 0 => /\ c_norms'.low <= c_norms.low /\ c_norms'.low <= n
                        /\ c_norms'.high >= c_norms.high /\ c_norms'.high >= n
  <2>1. CASE c_taken = 0
    BY <1>2, <1>5, <2>1 DEF Calibration!Widened
  <2>2. CASE c_taken # 0
    <3>1. /\ c_norms'.low = Calibration(p)!Min({c_norms.low, n})
          /\ c_norms'.high = Calibration(p)!Max({c_norms.high, n})
      BY <1>2, <2>2 DEF Calibration!Widened
    <3>2. /\ c_norms'.low = IF c_norms.low <= n THEN c_norms.low ELSE n
          /\ c_norms'.high = IF c_norms.high >= n THEN c_norms.high ELSE n
      BY <3>1, <1>5, MinOfTwo, MaxOfTwo
    <3>3. QED BY <3>2, <2>2, <1>5
  <2>3. QED BY <2>1, <2>2
<1>8. /\ c_rates'.low \in {c_rates.low, w} /\ c_rates'.high \in {c_rates.high, w}
      /\ c_taken = 0 => c_rates'.low = w /\ c_rates'.high = w
      /\ c_taken > 0 => /\ c_rates'.low <= c_rates.low /\ c_rates'.low <= w
                        /\ c_rates'.high >= c_rates.high /\ c_rates'.high >= w
  <2>1. CASE c_taken = 0
    BY <1>2, <1>5, <2>1 DEF Calibration!Widened
  <2>2. CASE c_taken # 0
    <3>1. /\ c_rates'.low = Calibration(p)!Min({c_rates.low, w})
          /\ c_rates'.high = Calibration(p)!Max({c_rates.high, w})
      BY <1>2, <2>2 DEF Calibration!Widened
    <3>2. /\ c_rates'.low = IF c_rates.low <= w THEN c_rates.low ELSE w
          /\ c_rates'.high = IF c_rates.high >= w THEN c_rates.high ELSE w
      BY <3>1, <1>5, MinOfTwo, MaxOfTwo
    <3>3. QED BY <3>2, <2>2, <1>5
  <2>3. QED BY <2>1, <2>2
<1>9. c_elapsed' \in 0 .. (K.Timeout + 1)
  BY <1>3, <1>4, WaitsWithin
<1>10. Calibration(p)!TypeOK'
  <2>1. c_taken' \in 0 .. K.Samples
    BY <1>1, <1>4, <1>5
  <2>2. c_g_norm' \in Nat /\ c_offset' \in Int
    BY <1>2, <1>4, <1>5
  <2>3. /\ c_norms'.low \in K.Norms \union {0} /\ c_norms'.high \in K.Norms \union {0}
        /\ c_rates'.low \in K.Rates \union {0} /\ c_rates'.high \in K.Rates \union {0}
    BY <1>4, <1>7, <1>8
  <2>4. c_pc' \in {"head", "sample", "tail", "done"}
    BY <1>1
  <2>5. /\ c_count' \in 0 .. K.MaxRetry /\ c_calibrated' \in BOOLEAN
        /\ c_accel_scale' \in Nat
    BY <1>1, <1>4, CalibrationTypes
  <2>6. QED BY <1>9, <2>1, <2>2, <2>3, <2>4, <2>5 DEF Calibration!TypeOK
<1>11. Calibration(p)!UsedIsMeasured' /\ Calibration(p)!DefaultsAreWhole'
  BY <1>1 DEF Calibration!UsedIsMeasured, Calibration!DefaultsAreWhole
<1>12. SumsAreBetween(p)'
  <2>1. /\ c_norms'.low \in Int /\ c_norms'.high \in Int
        /\ c_rates'.low \in Int /\ c_rates'.high \in Int /\ c_taken \in Nat
        /\ c_g_norm \in Int
    BY <1>4, <1>5, <1>7, <1>8
  <2>2. /\ c_norms'.low <= c_norms'.high
        /\ (c_taken + 1) * c_norms'.low <= c_g_norm + n
        /\ c_g_norm + n <= (c_taken + 1) * c_norms'.high
    BY <1>5, <1>6, <1>7, <2>1, OneMoreReading
  <2>3. /\ c_rates'.low <= c_rates'.high
        /\ (c_taken + 1) * c_rates'.low <= c_offset + w
        /\ c_offset + w <= (c_taken + 1) * c_rates'.high
    BY <1>4, <1>5, <1>6, <1>8, <2>1, OneMoreReading
  <2>4. QED BY <1>1, <1>2, <2>2, <2>3 DEF SumsAreBetween
<1>13. AttemptIsLeft(p)'
  BY <1>1 DEF CalibrationIInv, AttemptIsLeft, Attempts
<1>14. QED BY <1>10, <1>11, <1>12, <1>13 DEF CalibrationIInv

LEMMA CalibrationEnd ==
    ASSUME NEW p \in DOMAIN CalibrationConf, CalibrationIInv(p),
           Calibration(p)!EndOfAttempt
    PROVE  CalibrationIInv(p)'
<1> DEFINE K == CalibrationConf[p]
           R == Calibration(p)!Rejected
<1>1. /\ c_pc = "tail" \/ (c_pc = "sample" /\ c_taken = K.Samples)
      /\ c_count' = c_count + 1
      /\ c_pc' = IF R THEN "head" ELSE "done"
      /\ c_calibrated' = (c_pc' = "done" /\ Calibration(p)!Accepted)
      /\ c_accel_scale' = IF c_calibrated' THEN c_g_norm ELSE c_accel_scale
      /\ c_elapsed' = c_elapsed /\ c_taken' = c_taken /\ c_g_norm' = c_g_norm
      /\ c_offset' = c_offset /\ c_norms' = c_norms /\ c_rates' = c_rates
  BY DEF Calibration!EndOfAttempt
<1>2. Calibration(p)!TypeOK /\ SumsAreBetween(p) /\ AttemptIsLeft(p)
  BY DEF CalibrationIInv
<1>3. /\ c_count < K.MaxRetry /\ c_count \in 0 .. K.MaxRetry
      /\ c_pc' \in {"head", "done"} /\ c_calibrated' \in BOOLEAN
      /\ c_accel_scale' \in Nat /\ K.MaxRetry \in Nat
  BY <1>1, <1>2, CalibrationTypes, CalibrationNumbers DEF AttemptIsLeft, Attempts
<1>4. Calibration(p)!TypeOK'
  <2>1. c_count' \in 0 .. K.MaxRetry
    BY <1>1, <1>3
  <2>2. QED BY <1>1, <1>2, <1>3, <2>1 DEF Calibration!TypeOK
<1>5. SumsAreBetween(p)' /\ AttemptIsLeft(p)'
  BY <1>1, <1>2, <1>3 DEF SumsAreBetween, AttemptIsLeft, Attempts
<1>6. c_pc' = "done" => ~R /\ ~Calibration(p)!Moved /\ c_pc = "sample"
                        /\ c_taken = K.Samples
  <2> SUFFICES ASSUME c_pc' = "done"
               PROVE  ~R /\ ~Calibration(p)!Moved /\ c_pc = "sample"
                      /\ c_taken = K.Samples
    OBVIOUS
  <2>1. ~R
    BY <1>1
  <2>2. ~Calibration(p)!Moved
    BY <2>1 DEF Calibration!Rejected
  <2>3. c_pc # "tail"
    BY <2>2, <1>2 DEF AttemptIsLeft
  <2>4. QED BY <1>1, <2>1, <2>2, <2>3
<1>7. R' = R
  BY <1>1 DEF Calibration!Rejected, Calibration!Moved
<1>8. Calibration(p)!DefaultsAreWhole'
  BY <1>1, <1>6, <1>7 DEF Calibration!DefaultsAreWhole
<1>9. Calibration(p)!UsedIsMeasured'
  <2> SUFFICES ASSUME c_pc' = "done", c_calibrated'
               PROVE  /\ c_taken = K.Samples /\ c_accel_scale' = c_g_norm
                      /\ \A w \in {c_rates.low, c_rates.high} :
                            Calibration(p)!Magnitude(w * K.Samples - c_offset)
                               <= K.RateDiff * K.Samples
                      /\ \A n \in {c_norms.low, c_norms.high} :
                            Calibration(p)!Magnitude(n * K.Samples - c_g_norm)
                               <= K.NormDiff * K.Samples
    BY <1>1 DEF Calibration!UsedIsMeasured
  <2>1. c_taken = K.Samples /\ c_accel_scale' = c_g_norm
    BY <1>1, <1>6
  <2>2. /\ c_norms.low \in Int /\ c_norms.high \in Int /\ c_g_norm \in Int
        /\ c_rates.low \in Int /\ c_rates.high \in Int /\ c_offset \in Int
        /\ K.Samples \in Nat /\ K.NormDiff \in Nat /\ K.RateDiff \in Nat
    BY <1>2, CalibrationTypes, CalibrationNumbers
  <2>3. /\ K.Samples * c_norms.low <= c_g_norm /\ c_g_norm <= K.Samples * c_norms.high
        /\ K.Samples * c_rates.low <= c_offset /\ c_offset <= K.Samples * c_rates.high
        /\ c_norms.low <= c_norms.high /\ c_rates.low <= c_rates.high
    BY <1>2, <1>6, <2>1 DEF SumsAreBetween, Attempts
  <2>4. /\ c_norms.high - c_norms.low <= K.NormDiff
        /\ c_rates.high - c_rates.low <= K.RateDiff
    BY <1>6, <2>2 DEF Calibration!Moved
  <2>5. ASSUME NEW w \in {c_rates.low, c_rates.high}
        PROVE  Calibration(p)!Magnitude(w * K.Samples - c_offset)
                  <= K.RateDiff * K.Samples
    <3>1. /\ w * K.Samples - c_offset <= K.RateDiff * K.Samples
          /\ c_offset - w * K.Samples <= K.RateDiff * K.Samples
      BY <2>2, <2>3, <2>4, NearTheMean
    <3> DEFINE a == w * K.Samples
               b == K.RateDiff * K.Samples
    <3>2. a \in Int /\ b \in Int
      BY <2>2
    <3> HIDE DEF a, b
    <3>3. (IF a - c_offset < 0 THEN -(a - c_offset) ELSE a - c_offset) <= b
      BY <3>1, <3>2, <2>2 DEF a, b
    <3>4. QED BY <3>3 DEF a, b, Calibration!Magnitude
  <2>6. ASSUME NEW n \in {c_norms.low, c_norms.high}
        PROVE  Calibration(p)!Magnitude(n * K.Samples - c_g_norm)
                  <= K.NormDiff * K.Samples
    <3>1. /\ n * K.Samples - c_g_norm <= K.NormDiff * K.Samples
          /\ c_g_norm - n * K.Samples <= K.NormDiff * K.Samples
      BY <2>2, <2>3, <2>4, NearTheMean
    <3> DEFINE a == n * K.Samples
               b == K.NormDiff * K.Samples
    <3>2. a \in Int /\ b \in Int
      BY <2>2
    <3> HIDE DEF a, b
    <3>3. (IF a - c_g_norm < 0 THEN -(a - c_g_norm) ELSE a - c_g_norm) <= b
      BY <3>1, <3>2, <2>2 DEF a, b
    <3>4. QED BY <3>3 DEF a, b, Calibration!Magnitude
  <2>7. QED BY <2>1, <2>5, <2>6
<1>10. QED BY <1>4, <1>5, <1>8, <1>9 DEF CalibrationIInv

LEMMA CalibrationUseLast ==
    ASSUME NEW p \in DOMAIN CalibrationConf, CalibrationIInv(p), Calibration(p)!UseLast
    PROVE  CalibrationIInv(p)'
<1>1. /\ c_pc = "head" /\ c_count >= CalibrationConf[p].MaxRetry
      /\ c_pc' = "done" /\ c_calibrated' = TRUE /\ c_accel_scale' = c_g_norm
      /\ c_count' = c_count /\ c_elapsed' = c_elapsed /\ c_taken' = c_taken
      /\ c_g_norm' = c_g_norm /\ c_offset' = c_offset
      /\ c_norms' = c_norms /\ c_rates' = c_rates
  BY DEF Calibration!UseLast
<1>2. Calibration(p)!TypeOK /\ SumsAreBetween(p)
  BY DEF CalibrationIInv
<1>3. Calibration(p)!TypeOK'
  BY <1>1, <1>2 DEF Calibration!TypeOK
<1>4. ~(c_count' < CalibrationConf[p].MaxRetry)
  BY <1>1, <1>2, CalibrationTypes, CalibrationNumbers
<1>5. Calibration(p)!UsedIsMeasured' /\ Calibration(p)!DefaultsAreWhole'
  BY <1>1, <1>4 DEF Calibration!UsedIsMeasured, Calibration!DefaultsAreWhole
<1>6. SumsAreBetween(p)' /\ AttemptIsLeft(p)'
  BY <1>1, <1>2 DEF SumsAreBetween, AttemptIsLeft, Attempts
<1>7. QED BY <1>3, <1>5, <1>6 DEF CalibrationIInv

LEMMA CalibrationUseDefaults ==
    ASSUME NEW p \in DOMAIN CalibrationConf, CalibrationIInv(p),
           Calibration(p)!UseDefaults
    PROVE  CalibrationIInv(p)'
<1>1. /\ c_pc = "head" /\ c_pc' = "done" /\ c_calibrated' = FALSE
      /\ c_offset' = 0 /\ c_g_norm' = Calibration(p)!Sum
      /\ c_accel_scale' = Calibration(p)!Sum
      /\ c_count' = c_count /\ c_elapsed' = c_elapsed /\ c_taken' = c_taken
      /\ c_norms' = c_norms /\ c_rates' = c_rates
  BY DEF Calibration!UseDefaults
<1>2. Calibration(p)!TypeOK /\ SumsAreBetween(p)
  BY DEF CalibrationIInv
<1>3. Calibration(p)!TypeOK'
  <2>1. c_g_norm' \in Nat /\ c_accel_scale' \in Nat /\ c_offset' \in Int
    BY <1>1, CalibrationNumbers
  <2>2. c_pc' \in {"head", "sample", "tail", "done"} /\ c_calibrated' \in BOOLEAN
    BY <1>1
  <2>3. QED BY <1>1, <1>2, <2>1, <2>2 DEF Calibration!TypeOK
<1>4. Calibration(p)!UsedIsMeasured'
  BY <1>1 DEF Calibration!UsedIsMeasured
<1>5. Calibration(p)!DefaultsAreWhole'
  BY <1>1 DEF Calibration!DefaultsAreWhole, Calibration!Sum
<1>6. SumsAreBetween(p)' /\ AttemptIsLeft(p)'
  BY <1>1, <1>2 DEF SumsAreBetween, AttemptIsLeft, Attempts
<1>7. QED BY <1>3, <1>4, <1>5, <1>6 DEF CalibrationIInv

CalibrationsSound ==
    \A p \in DOMAIN CalibrationConf : part = p => CalibrationIInv(p)

LEMMA CalibrationsStart == AllInit => CalibrationsSound
<1> SUFFICES ASSUME AllInit, NEW p \in DOMAIN CalibrationConf, part = p
             PROVE  CalibrationIInv(p)
  BY DEF CalibrationsSound
<1>1. Calibration(p)!Init
  BY DEF AllInit, CalibrationInit
<1>2. QED BY <1>1, CalibrationStarts

LEMMA CalibrationsGoOn == CalibrationsSound /\ [AllNext]_allVars => CalibrationsSound'
<1> SUFFICES ASSUME CalibrationsSound, [AllNext]_allVars,
                    NEW p \in DOMAIN CalibrationConf, part' = p
             PROVE  CalibrationIInv(p)'
  BY DEF CalibrationsSound
<1>1. part = p
  BY DEF AllNext, allVars
<1>2. CalibrationIInv(p)
  BY <1>1 DEF CalibrationsSound
<1>3. Calibration(p)!Next \/ UNCHANGED calibration
  BY <1>1 DEF AllNext, allVars
<1>4. CASE Calibration(p)!Next
  BY <1>2, <1>4, CalibrationAttempt, CalibrationSample, CalibrationEnd,
     CalibrationUseLast, CalibrationUseDefaults DEF Calibration!Next
<1>5. QED BY <1>2, <1>3, <1>4, CalibrationRests

(* What the calibration leaves was measured at rest or is the default, for *)
(* any number of samples, any readings and any limits.                     *)
THEOREM CalibrationHolds == AllSpec => []CalibrationInv
<1>1. CalibrationsSound => CalibrationInv
  BY DEF CalibrationsSound, CalibrationInv, CalibrationIInv, Calibration!CalibrationInv
<1>2. QED BY <1>1, CalibrationsStart, CalibrationsGoOn, PTL DEF AllSpec

(***************************************************************************)
(* The kinematics of the omni robot, for any wheels.  A layout that is     *)
(* accepted can do every motion there is; one that is not accepted cannot  *)
(* do one of Motions, and so that set is enough to tell.                   *)
(***************************************************************************)

LEMMA NoFactorLeft ==
    ASSUME NEW a \in Int, NEW b \in Int, a # 0, a * b = 0
    PROVE  b = 0
  OBVIOUS

(* Cramer: three independent rows leave no motion out. *)
LEMMA CramerOfRows ==
    ASSUME NEW p \in DOMAIN OmniConf,
           NEW r \in Int \X Int \X Int, NEW s \in Int \X Int \X Int,
           NEW t \in Int \X Int \X Int, NEW q \in Int \X Int \X Int,
           Kinematics(p)!Dot(r, q) = 0, Kinematics(p)!Dot(s, q) = 0,
           Kinematics(p)!Dot(t, q) = 0, Kinematics(p)!Det(r, s, t) # 0
    PROVE  q = <<0, 0, 0>>
<1>1. PICK r1 \in Int, r2 \in Int, r3 \in Int : r = <<r1, r2, r3>>
  OBVIOUS
<1>2. PICK s1 \in Int, s2 \in Int, s3 \in Int : s = <<s1, s2, s3>>
  OBVIOUS
<1>3. PICK t1 \in Int, t2 \in Int, t3 \in Int : t = <<t1, t2, t3>>
  OBVIOUS
<1>4. PICK q1 \in Int, q2 \in Int, q3 \in Int : q = <<q1, q2, q3>>
  OBVIOUS
<1> DEFINE det == r1 * (s2 * t3 - s3 * t2) - r2 * (s1 * t3 - s3 * t1)
                    + r3 * (s1 * t2 - s2 * t1)
           Comb(c1, c2, c3) ==
               (c1 * r1 + c2 * s1 + c3 * t1) * q1
                 + (c1 * r2 + c2 * s2 + c3 * t2) * q2
                 + (c1 * r3 + c2 * s3 + c3 * t3) * q3 = 0
<1> HIDE DEF Comb
<1>5. /\ r1 * q1 + r2 * q2 + r3 * q3 = 0
      /\ s1 * q1 + s2 * q2 + s3 * q3 = 0
      /\ t1 * q1 + t2 * q2 + t3 * q3 = 0
      /\ det # 0
  BY <1>1, <1>2, <1>3, <1>4 DEF Kinematics!Dot, Kinematics!Det
<1>6. ASSUME NEW c1 \in Int, NEW c2 \in Int, NEW c3 \in Int
      PROVE  Comb(c1, c2, c3)
  <2>1. /\ c1 * (r1 * q1 + r2 * q2 + r3 * q3) = 0
        /\ c2 * (s1 * q1 + s2 * q2 + s3 * q3) = 0
        /\ c3 * (t1 * q1 + t2 * q2 + t3 * q3) = 0
      BY <1>5, \A c \in Int : c * 0 = 0
  <2>2. \A c, a, b, d, z, m, n \in Int :
           c * (a * z + b * m + d * n) = (c * a) * z + (c * b) * m + (c * d) * n
    OBVIOUS
  <2>3. /\ (c1 * r1) * q1 + (c1 * r2) * q2 + (c1 * r3) * q3 = 0
        /\ (c2 * s1) * q1 + (c2 * s2) * q2 + (c2 * s3) * q3 = 0
        /\ (c3 * t1) * q1 + (c3 * t2) * q2 + (c3 * t3) * q3 = 0
    BY <2>1, <2>2
  <2>4. \A a, b, d, z \in Int : (a + b + d) * z = a * z + b * z + d * z
    OBVIOUS
  <2>5. /\ c1 * r1 \in Int /\ c1 * r2 \in Int /\ c1 * r3 \in Int
        /\ c2 * s1 \in Int /\ c2 * s2 \in Int /\ c2 * s3 \in Int
        /\ c3 * t1 \in Int /\ c3 * t2 \in Int /\ c3 * t3 \in Int
    OBVIOUS
  <2>6. /\ (c1 * r1 + c2 * s1 + c3 * t1) * q1
               = (c1 * r1) * q1 + (c2 * s1) * q1 + (c3 * t1) * q1
        /\ (c1 * r2 + c2 * s2 + c3 * t2) * q2
               = (c1 * r2) * q2 + (c2 * s2) * q2 + (c3 * t2) * q2
        /\ (c1 * r3 + c2 * s3 + c3 * t3) * q3
               = (c1 * r3) * q3 + (c2 * s3) * q3 + (c3 * t3) * q3
    BY <2>4, <2>5
  <2> DEFINE a1 == (c1 * r1) * q1
             a2 == (c1 * r2) * q2
             a3 == (c1 * r3) * q3
             b1 == (c2 * s1) * q1
             b2 == (c2 * s2) * q2
             b3 == (c2 * s3) * q3
             x1 == (c3 * t1) * q1
             x2 == (c3 * t2) * q2
             x3 == (c3 * t3) * q3
             e1 == (c1 * r1 + c2 * s1 + c3 * t1) * q1
             e2 == (c1 * r2 + c2 * s2 + c3 * t2) * q2
             e3 == (c1 * r3 + c2 * s3 + c3 * t3) * q3
  <2>7. /\ a1 \in Int /\ a2 \in Int /\ a3 \in Int /\ b1 \in Int /\ b2 \in Int
        /\ b3 \in Int /\ x1 \in Int /\ x2 \in Int /\ x3 \in Int
    OBVIOUS
  <2>8. /\ a1 + a2 + a3 = 0 /\ b1 + b2 + b3 = 0 /\ x1 + x2 + x3 = 0
        /\ e1 = a1 + b1 + x1 /\ e2 = a2 + b2 + x2 /\ e3 = a3 + b3 + x3
    BY <2>3, <2>6
  <2> HIDE DEF a1, a2, a3, b1, b2, b3, x1, x2, x3, e1, e2, e3
  <2>9. e1 + e2 + e3 = 0
    BY <2>7, <2>8
  <2>10. QED BY <2>9 DEF Comb, e1, e2, e3
<1>7. q1 = 0
  <2> DEFINE c1 == s2 * t3 - s3 * t2
             c2 == r3 * t2 - r2 * t3
             c3 == r2 * s3 - r3 * s2
  <2>1. /\ c1 * r1 + c2 * s1 + c3 * t1 = det
        /\ c1 * r2 + c2 * s2 + c3 * t2 = 0
        /\ c1 * r3 + c2 * s3 + c3 * t3 = 0
        /\ c1 \in Int /\ c2 \in Int /\ c3 \in Int
    OBVIOUS
  <2> HIDE DEF c1, c2, c3, det
  <2>2. det * q1 + 0 * q2 + 0 * q3 = 0
    <3>1. Comb(c1, c2, c3)
      BY <1>6, <2>1
    <3>2. QED BY <2>1, <3>1 DEF Comb
  <2>3. det \in Int /\ det # 0
    BY <1>5 DEF det
  <2>4. det * q1 = 0
    BY <2>2, <2>3
  <2>5. QED BY <2>3, <2>4, NoFactorLeft
<1>8. q2 = 0
  <2> DEFINE c1 == s3 * t1 - s1 * t3
             c2 == r1 * t3 - r3 * t1
             c3 == r3 * s1 - r1 * s3
  <2>1. /\ c1 * r2 + c2 * s2 + c3 * t2 = det
        /\ c1 * r1 + c2 * s1 + c3 * t1 = 0
        /\ c1 * r3 + c2 * s3 + c3 * t3 = 0
        /\ c1 \in Int /\ c2 \in Int /\ c3 \in Int
    OBVIOUS
  <2> HIDE DEF c1, c2, c3, det
  <2>2. 0 * q1 + det * q2 + 0 * q3 = 0
    <3>1. Comb(c1, c2, c3)
      BY <1>6, <2>1
    <3>2. QED BY <2>1, <3>1 DEF Comb
  <2>3. det \in Int /\ det # 0
    BY <1>5 DEF det
  <2>4. det * q2 = 0
    BY <2>2, <2>3
  <2>5. QED BY <2>3, <2>4, NoFactorLeft
<1>9. q3 = 0
  <2> DEFINE c1 == s1 * t2 - s2 * t1
             c2 == r2 * t1 - r1 * t2
             c3 == r1 * s2 - r2 * s1
  <2>1. /\ c1 * r3 + c2 * s3 + c3 * t3 = det
        /\ c1 * r1 + c2 * s1 + c3 * t1 = 0
        /\ c1 * r2 + c2 * s2 + c3 * t2 = 0
        /\ c1 \in Int /\ c2 \in Int /\ c3 \in Int
    OBVIOUS
  <2> HIDE DEF c1, c2, c3, det
  <2>2. 0 * q1 + 0 * q2 + det * q3 = 0
    <3>1. Comb(c1, c2, c3)
      BY <1>6, <2>1
    <3>2. QED BY <2>1, <3>1 DEF Comb
  <2>3. det \in Int /\ det # 0
    BY <1>5 DEF det
  <2>4. det * q3 = 0
    BY <2>2, <2>3
  <2>5. QED BY <2>3, <2>4, NoFactorLeft
<1>10. QED BY <1>7, <1>8, <1>9, <1>4

(* The rows of a layout as the strategy works them out. *)
RowSet == [1..4 -> Int \X Int \X Int]

LEMMA RowFacts ==
    ASSUME NEW rows \in RowSet, NEW i \in 1..4
    PROVE  /\ rows[i] = <<rows[i][1], rows[i][2], rows[i][3]>>
           /\ rows[i][1] \in Int /\ rows[i][2] \in Int /\ rows[i][3] \in Int
  BY DEF RowSet

LEMMA DetOfThree ==
    ASSUME NEW p \in DOMAIN OmniConf,
           NEW r1 \in Int, NEW r2 \in Int, NEW r3 \in Int,
           NEW s1 \in Int, NEW s2 \in Int, NEW s3 \in Int,
           NEW t1 \in Int, NEW t2 \in Int, NEW t3 \in Int
    PROVE  LET r == <<r1, r2, r3>>
               s == <<s1, s2, s3>>
               t == <<t1, t2, t3>>
           IN  /\ Kinematics(p)!Det(r, s, t) \in Int
               /\ Kinematics(p)!Det(r, s, t) = -Kinematics(p)!Det(s, r, t)
               /\ Kinematics(p)!Det(r, s, t) = -Kinematics(p)!Det(r, t, s)
               /\ Kinematics(p)!Dot(r, Kinematics(p)!Cross(s, t))
                     = Kinematics(p)!Det(r, s, t)
  BY DEF Kinematics!Det, Kinematics!Dot, Kinematics!Cross

LEMMA DetFacts ==
    ASSUME NEW p \in DOMAIN OmniConf, NEW rows \in RowSet,
           NEW i \in 1..4, NEW j \in 1..4, NEW k \in 1..4
    PROVE  LET D(a, b, c) == Kinematics(p)!Det(rows[a], rows[b], rows[c])
           IN  /\ D(i, j, k) \in Int
               /\ D(i, j, k) = -D(j, i, k) /\ D(i, j, k) = -D(i, k, j)
               /\ Kinematics(p)!Dot(rows[i], Kinematics(p)!Cross(rows[j], rows[k]))
                    = D(i, j, k)
<1>1. PICK r1 \in Int, r2 \in Int, r3 \in Int : rows[i] = <<r1, r2, r3>>
  BY RowFacts
<1>2. PICK s1 \in Int, s2 \in Int, s3 \in Int : rows[j] = <<s1, s2, s3>>
  BY RowFacts
<1>3. PICK t1 \in Int, t2 \in Int, t3 \in Int : rows[k] = <<t1, t2, t3>>
  BY RowFacts
<1>4. QED BY <1>1, <1>2, <1>3, DetOfThree

(* A layout that is accepted can do every motion. *)
LEMMA NoMotionIsLost ==
    ASSUME NEW p \in DOMAIN OmniConf, NEW rows \in RowSet,
           Kinematics(p)!has_three_dof(rows),
           NEW q \in Int \X Int \X Int, q # <<0, 0, 0>>
    PROVE  \E i \in 1..4 : Kinematics(p)!Dot(rows[i], q) # 0
<1> SUFFICES ASSUME \A i \in 1..4 : Kinematics(p)!Dot(rows[i], q) = 0
             PROVE  FALSE
  OBVIOUS
<1>1. PICK i \in 1..4, j \in 1..4, k \in 1..4 :
         Kinematics(p)!Det(rows[i], rows[j], rows[k]) # 0
  BY DEF Kinematics!has_three_dof
<1>2. /\ rows[i] \in Int \X Int \X Int /\ rows[j] \in Int \X Int \X Int
      /\ rows[k] \in Int \X Int \X Int
  BY DEF RowSet
<1>3. /\ Kinematics(p)!Dot(rows[i], q) = 0 /\ Kinematics(p)!Dot(rows[j], q) = 0
      /\ Kinematics(p)!Dot(rows[k], q) = 0
  OBVIOUS
<1>4. QED BY <1>1, <1>2, <1>3, CramerOfRows

(* Four determinants are enough: with them all others are zero. *)
LEMMA AllFlat ==
    ASSUME NEW p \in DOMAIN OmniConf, NEW rows \in RowSet,
           ~Kinematics(p)!has_three_dof(rows)
    PROVE  \A i, j, k \in 1..4 :
              Kinematics(p)!Det(rows[i], rows[j], rows[k]) = 0
<1> DEFINE D(a, b, c) == Kinematics(p)!Det(rows[a], rows[b], rows[c])
<1>1. \A i, j, k \in 1..4 : /\ D(i, j, k) \in Int
                            /\ D(i, j, k) = -D(j, i, k) /\ D(i, j, k) = -D(i, k, j)
  BY DetFacts
<1>2. D(1, 2, 3) = 0 /\ D(1, 2, 4) = 0 /\ D(1, 3, 4) = 0 /\ D(2, 3, 4) = 0
  <2>1. CASE \E i \in 1..4 : rows[i][3] # 0
    <3>1. \A a \in 1..2 : \A b \in a + 1 .. 3 : \A c \in b + 1 .. 4 : D(a, b, c) = 0
      BY <2>1 DEF Kinematics!has_three_dof, Kinematics!Slots
    <3> HIDE DEF D
    <3>2. QED BY <3>1
  <2>2. CASE \A i \in 1..4 : rows[i][3] = 0
    <3>1. ASSUME NEW i \in 1..4, NEW j \in 1..4, NEW k \in 1..4
          PROVE  D(i, j, k) = 0
      <4>1. /\ rows[i][3] = 0 /\ rows[j][3] = 0 /\ rows[k][3] = 0
            /\ rows[i][1] \in Int /\ rows[j][1] \in Int /\ rows[k][1] \in Int
            /\ rows[i][2] \in Int /\ rows[j][2] \in Int /\ rows[k][2] \in Int
        BY <2>2, RowFacts
      <4>2. \A a, b, c, d, e, f \in Int :
               a * (b * 0 - 0 * c) - d * (e * 0 - 0 * f) + 0 * (e * c - b * f) = 0
        OBVIOUS
      <4>3. QED BY <4>1, <4>2 DEF Kinematics!Det
    <3> HIDE DEF D
    <3>2. QED BY <3>1
  <2>3. QED BY <2>1, <2>2
<1> HIDE DEF D
<1>3. \A i, k \in 1..4 : D(i, i, k) = 0 /\ D(i, k, k) = 0
  BY <1>1
<1>4. \A k \in 1..4 : D(1, 2, k) = 0 /\ D(1, 3, k) = 0 /\ D(1, 4, k) = 0
  <2>1. D(1, 3, 2) = 0 /\ D(1, 4, 2) = 0 /\ D(1, 4, 3) = 0
    BY <1>1, <1>2
  <2>2. D(1, 2, 1) = 0 /\ D(1, 3, 1) = 0 /\ D(1, 4, 1) = 0
    BY <1>1, <1>3
  <2>3. QED BY <1>2, <1>3, <2>1, <2>2
<1>5. \A k \in 1..4 : D(2, 3, k) = 0 /\ D(2, 4, k) = 0 /\ D(3, 4, k) = 0
  <2>1. D(2, 4, 3) = 0 /\ D(2, 3, 2) = 0 /\ D(2, 4, 2) = 0 /\ D(3, 4, 3) = 0
    BY <1>1, <1>2, <1>3
  <2>2. D(2, 1, 3) = 0 /\ D(2, 1, 4) = 0 /\ D(3, 1, 4) = 0
    BY <1>1, <1>2
  <2>3. D(2, 3, 1) = 0 /\ D(2, 4, 1) = 0 /\ D(3, 4, 1) = 0
    BY <1>1, <2>2
  <2>4. D(3, 2, 4) = 0
    BY <1>1, <1>2
  <2>5. D(3, 4, 2) = 0
    BY <1>1, <2>4
  <2>6. QED BY <1>2, <1>3, <2>1, <2>3, <2>5
<1>6. \A i, j, k \in 1..4 : D(i, j, k) = 0
  BY <1>1, <1>3, <1>4, <1>5
<1>7. QED BY <1>6 DEF D

(* A layout that is not accepted cannot do one of Motions. *)
LEMMA SomeMotionIsLost ==
    ASSUME NEW p \in DOMAIN OmniConf, NEW rows \in RowSet,
           ~Kinematics(p)!has_three_dof(rows)
    PROVE  \E q \in Kinematics(p)!Motions(rows) :
              \A i \in 1..4 : Kinematics(p)!Dot(rows[i], q) = 0
<1> DEFINE X(a, b) == Kinematics(p)!Cross(a, b)
           None == <<0, 0, 0>>
<1>1. \A i, j, k \in 1..4 : Kinematics(p)!Dot(rows[k], X(rows[i], rows[j])) = 0
  BY AllFlat, DetFacts
<1>2. CASE \E i, j \in 1..4 : X(rows[i], rows[j]) # None
  <2>1. PICK i \in 1..4, j \in 1..4 : X(rows[i], rows[j]) # None
    BY <1>2
  <2>2. X(rows[i], rows[j]) \in Kinematics(p)!Motions(rows)
    BY <2>1 DEF Kinematics!Motions, Kinematics!Slots, Kinematics!NoMotion
  <2>3. QED BY <1>1, <2>2
<1>3. CASE /\ \A i, j \in 1..4 : X(rows[i], rows[j]) = None
           /\ \E i \in 1..4 : rows[i] # None
  <2>1. PICK i \in 1..4 : rows[i] # None
    BY <1>3
  <2>2. PICK r1 \in Int, r2 \in Int, r3 \in Int : rows[i] = <<r1, r2, r3>>
    BY RowFacts
  <2>3. r1 # 0 \/ r2 # 0 \/ r3 # 0
    BY <2>1, <2>2
  <2>4. /\ X(rows[i], <<1, 0, 0>>) = <<0, r3, -r2>>
        /\ X(rows[i], <<0, 1, 0>>) = <<-r3, 0, r1>>
        /\ X(rows[i], <<0, 0, 1>>) = <<r2, -r1, 0>>
    BY <2>2 DEF Kinematics!Cross
  <2>5. PICK e \in Kinematics(p)!Axes : X(rows[i], e) # None
    <3>1. \/ <<0, r3, -r2>> # None \/ <<-r3, 0, r1>> # None \/ <<r2, -r1, 0>> # None
      BY <2>3
    <3> HIDE DEF X, None
    <3>2. QED BY <2>4, <3>1 DEF Kinematics!Axes
  <2>6. X(rows[i], e) \in Kinematics(p)!Motions(rows)
    BY <2>5 DEF Kinematics!Motions, Kinematics!Slots, Kinematics!NoMotion
  <2>7. ASSUME NEW k \in 1..4 PROVE Kinematics(p)!Dot(rows[k], X(rows[i], e)) = 0
    <3>1. PICK s1 \in Int, s2 \in Int, s3 \in Int : rows[k] = <<s1, s2, s3>>
      BY RowFacts
    <3>2. X(rows[i], rows[k]) = <<r2 * s3 - r3 * s2, r3 * s1 - r1 * s3, r1 * s2 - r2 * s1>>
      BY <2>2, <3>1 DEF Kinematics!Cross
    <3>3. r2 * s3 - r3 * s2 = 0 /\ r3 * s1 - r1 * s3 = 0 /\ r1 * s2 - r2 * s1 = 0
      BY <1>3, <3>2
    <3>4. /\ Kinematics(p)!Dot(rows[k], <<0, r3, -r2>>) = 0
          /\ Kinematics(p)!Dot(rows[k], <<-r3, 0, r1>>) = 0
          /\ Kinematics(p)!Dot(rows[k], <<r2, -r1, 0>>) = 0
      BY <3>1, <3>3 DEF Kinematics!Dot
    <3>5. X(rows[i], e) \in {<<0, r3, -r2>>, <<-r3, 0, r1>>, <<r2, -r1, 0>>}
      <4> HIDE DEF X
      <4>1. QED BY <2>4 DEF Kinematics!Axes
    <3> HIDE DEF X
    <3>6. QED BY <3>4, <3>5
  <2>8. QED BY <2>6, <2>7
<1>4. CASE \A i \in 1..4 : rows[i] = None
  <2>1. <<1, 0, 0>> \in Kinematics(p)!Motions(rows)
    BY DEF Kinematics!Motions, Kinematics!Axes, Kinematics!NoMotion
  <2>2. \A i \in 1..4 : Kinematics(p)!Dot(rows[i], <<1, 0, 0>>) = 0
    BY <1>4 DEF Kinematics!Dot
  <2>3. QED BY <2>1, <2>2
<1>5. QED BY <1>2, <1>3, <1>4

(* The test on four determinants accepts exactly the rows with which every *)
(* motion turns a wheel; Motions is enough to find one that does not.      *)
THEOREM RankIsKnown ==
    ASSUME NEW p \in DOMAIN OmniConf, NEW rows \in RowSet
    PROVE  Kinematics(p)!has_three_dof(rows) <=> Kinematics(p)!Controllable(rows)
<1>1. ASSUME ~Kinematics(p)!has_three_dof(rows)
      PROVE  ~Kinematics(p)!Controllable(rows)
  BY <1>1, SomeMotionIsLost DEF Kinematics!Controllable, Kinematics!Slots
<1>2. ASSUME Kinematics(p)!has_three_dof(rows)
      PROVE  Kinematics(p)!Controllable(rows)
  <2> SUFFICES ASSUME NEW q \in Kinematics(p)!Motions(rows)
               PROVE  \E i \in 1..4 : Kinematics(p)!Dot(rows[i], q) # 0
    BY DEF Kinematics!Controllable, Kinematics!Slots
  <2>1. q # <<0, 0, 0>>
    BY DEF Kinematics!Motions, Kinematics!NoMotion
  <2>2. ASSUME NEW r \in Int \X Int \X Int, NEW s \in Int \X Int \X Int
        PROVE  Kinematics(p)!Cross(r, s) \in Int \X Int \X Int
    <3>1. /\ r[1] \in Int /\ r[2] \in Int /\ r[3] \in Int
          /\ s[1] \in Int /\ s[2] \in Int /\ s[3] \in Int
      OBVIOUS
    <3>2. QED BY <3>1 DEF Kinematics!Cross
  <2>3. Kinematics(p)!Axes \subseteq Int \X Int \X Int
    BY DEF Kinematics!Axes
  <2>4. \A i \in 1..4 : rows[i] \in Int \X Int \X Int
    BY DEF RowSet
  <2>5. q \in Int \X Int \X Int
    BY <2>2, <2>3, <2>4 DEF Kinematics!Motions, Kinematics!Slots
  <2>6. QED BY <1>2, <2>1, <2>5, NoMotionIsLost
<1>3. QED BY <1>1, <1>2

(***************************************************************************)
(* What the strategy makes of a command.                                   *)
(***************************************************************************)
LEMMA OmniNumbers ==
    ASSUME NEW p \in DOMAIN OmniConf
    PROVE  LET K == OmniConf[p]
           IN  /\ K.One \in Nat \ {0} /\ K.DriveSquare \in Nat \ {0}
               /\ K.MaxTranslation \in Nat \ {0} /\ K.MaxRotation \in Nat \ {0}
               /\ K.MaxDriveSpeed \in Nat /\ K.Rotations \subseteq Int
               /\ \A w \in K.Wheels : /\ w.x \in Int /\ w.y \in Int /\ w.tx \in Int
                                      /\ w.ty \in Int /\ w.gear \in Int
               /\ K.Translations \subseteq Int \X Int
               /\ \A v \in K.Translations :
                     \E n \in 0 .. Kinematics(p)!Longest :
                        n * n = Kinematics(p)!Square(v)
<1>1. Kinematics(p)!OmniAssumption
  BY OmnisOK
<1>2. QED BY <1>1 DEF Kinematics!OmniAssumption

LEMMA OmniMinOfTwo ==
    ASSUME NEW p \in DOMAIN OmniConf, NEW a \in Int, NEW b \in Int
    PROVE  Kinematics(p)!Min({a, b}) = IF a <= b THEN a ELSE b
  BY DEF Kinematics!Min

LEMMA OmniMaxOfTwo ==
    ASSUME NEW p \in DOMAIN OmniConf, NEW a \in Int, NEW b \in Int
    PROVE  Kinematics(p)!Max({a, b}) = IF a >= b THEN a ELSE b
  BY DEF Kinematics!Max

(* The fastest of the four wheels. *)
LEMMA LargestIs ==
    ASSUME NEW p \in DOMAIN OmniConf, NEW f \in [1..4 -> Int]
    PROVE  /\ Kinematics(p)!Largest(f) \in Nat
           /\ \A i \in 1..4 : /\ f[i] <= Kinematics(p)!Largest(f)
                              /\ -f[i] <= Kinematics(p)!Largest(f)
<1> DEFINE g(i) == Kinematics(p)!AbsOf(f[i])
           S == {g(i) : i \in 1..4}
<1>1. \A i \in 1..4 : g(i) \in Nat /\ f[i] <= g(i) /\ -f[i] <= g(i)
  BY DEF Kinematics!AbsOf
<1>2. S = {g(1), g(2), g(3), g(4)}
  <2> HIDE DEF g
  <2>1. QED OBVIOUS
<1>3. \E m \in S : \A y \in S : m >= y
  <2>1. g(1) \in Nat /\ g(2) \in Nat /\ g(3) \in Nat /\ g(4) \in Nat
    BY <1>1
  <2> HIDE DEF g, S
  <2>2. \E a \in {g(1), g(2)} : a >= g(1) /\ a >= g(2)
    BY <2>1
  <2>3. \E b \in {g(3), g(4)} : b >= g(3) /\ b >= g(4)
    BY <2>1
  <2>4. PICK a \in {g(1), g(2)}, b \in {g(3), g(4)} :
           a >= g(1) /\ a >= g(2) /\ b >= g(3) /\ b >= g(4)
    BY <2>2, <2>3
  <2>5. CASE a >= b
    <3>1. a \in S /\ \A y \in S : a >= y
      BY <1>2, <2>1, <2>4, <2>5
    <3>2. QED BY <3>1
  <2>6. CASE b >= a
    <3>1. b \in S /\ \A y \in S : b >= y
      BY <1>2, <2>1, <2>4, <2>6
    <3>2. QED BY <3>1
  <2>7. QED BY <2>1, <2>4, <2>5, <2>6
<1>4. Kinematics(p)!Largest(f) = CHOOSE m \in S : \A y \in S : m >= y
  BY DEF Kinematics!Largest, Kinematics!Max, Kinematics!Slots
<1> DEFINE L == Kinematics(p)!Largest(f)
<1>5. L \in S /\ \A y \in S : L >= y
  <2> HIDE DEF S, g
  <2>1. QED BY <1>3, <1>4
<1>6. \A i \in 1..4 : g(i) \in S /\ g(i) <= L
  <2>1. \A i \in 1..4 : g(i) \in S
    OBVIOUS
  <2>2. L \in Nat
    BY <1>1, <1>5
  <2> HIDE DEF S, g, L
  <2>3. QED BY <1>1, <1>5, <2>1, <2>2
<1>7. QED
  <2>1. L \in Nat
    BY <1>1, <1>5
  <2> HIDE DEF S, g, L
  <2>2. \A i \in 1..4 : f[i] <= L /\ -f[i] <= L
    BY <1>1, <1>6, <2>1
  <2>3. QED BY <2>1, <2>2 DEF L

(* The speeds f, all times the same number. *)
SlowedTo(f, h) == \E c \in Nat : \A i \in 1..4 : h[i] = f[i] * c

(* Slowing all wheels down keeps them within the speed of their motors. *)
LEMMA ScaledIsWithin ==
    ASSUME NEW p \in DOMAIN OmniConf, NEW speeds \in [1..4 -> Int],
           NEW den \in Nat \ {0}
    PROVE  LET out == Kinematics(p)!Scaled(speeds, den)
               M == OmniConf[p].MaxDriveSpeed
           IN  /\ out.num \in [1..4 -> Int] /\ out.den \in Nat \ {0}
               /\ \A i \in 1..4 : Kinematics(p)!AbsOf(out.num[i]) <= M * out.den
               /\ SlowedTo(speeds, out.num)
<1> DEFINE out == Kinematics(p)!Scaled(speeds, den)
           M == OmniConf[p].MaxDriveSpeed
           L == Kinematics(p)!Largest(speeds)
<1>1. /\ L \in Nat /\ M \in Nat /\ M * den \in Nat
      /\ \A i \in 1..4 : speeds[i] \in Int /\ speeds[i] <= L /\ -speeds[i] <= L
  <2>1. M \in Nat
    BY OmniNumbers
  <2>2. M * den \in Nat
    <3> HIDE DEF M
    <3>1. QED BY <2>1
  <2>3. QED BY <2>1, <2>2, LargestIs
<1>2. out = IF L > M * den
            THEN [num |-> [i \in 1..4 |-> speeds[i] * M], den |-> L]
            ELSE [num |-> speeds, den |-> den]
  BY DEF Kinematics!Scaled, Kinematics!Slots
<1> HIDE DEF M, L, out
<1>3. CASE L > M * den
  <2>1. /\ out.num = [i \in 1..4 |-> speeds[i] * M] /\ out.den = L
    BY <1>2, <1>3
  <2>2. \A i \in 1..4 : speeds[i] * M \in Int
    BY <1>1
  <2>3. L \in Nat \ {0}
    BY <1>1, <1>3
  <2>4. ASSUME NEW s \in Int, s <= L, -s <= L
        PROVE  s * M <= M * L /\ -(s * M) <= M * L
    <3>1. PICK e \in Nat : L = s + e
      <4>1. L - s \in Nat /\ L = s + (L - s)
        BY <1>1, <2>4
      <4>2. QED BY <4>1
    <3>2. PICK f \in Nat : L = -s + f
      <4>1. L + s \in Nat /\ L = -s + (L + s)
        BY <1>1, <2>4
      <4>2. QED BY <4>1
    <3>3. M * L = s * M + M * e /\ M * e >= 0
      BY <1>1, <3>1
    <3>4. M * L = -(s * M) + M * f /\ M * f >= 0
      BY <1>1, <3>2
    <3>5. s * M \in Int /\ M * e \in Int /\ M * f \in Int
      BY <1>1
    <3>6. QED BY <3>3, <3>4, <3>5
  <2>5. ASSUME NEW i \in 1..4
        PROVE  Kinematics(p)!AbsOf(out.num[i]) <= M * out.den
    <3> DEFINE a == speeds[i] * M
               b == M * L
    <3>1. a \in Int /\ b \in Int /\ a <= b /\ -a <= b
      BY <1>1, <2>4
    <3>2. out.num[i] = a
      BY <2>1
    <3> HIDE DEF a, b
    <3>3. Kinematics(p)!AbsOf(a) <= b
      BY <3>1 DEF Kinematics!AbsOf
    <3>4. QED BY <2>1, <3>2, <3>3 DEF b
  <2>6. SlowedTo(speeds, out.num)
    <3> SUFFICES \E c \in Nat : \A i \in 1..4 : out.num[i] = speeds[i] * c
      BY DEF SlowedTo
    <3> M \in Nat
      BY <1>1
    <3> WITNESS M \in Nat
    <3>1. QED BY <2>1
  <2>7. out.num \in [1..4 -> Int] /\ out.den \in Nat \ {0}
    BY <2>1, <2>2, <2>3
  <2>8. QED BY <2>5, <2>6, <2>7 DEF out, M
<1>4. CASE ~(L > M * den)
  <2>1. out.num = speeds /\ out.den = den
    BY <1>2, <1>4
  <2>2. ASSUME NEW i \in 1..4
        PROVE  Kinematics(p)!AbsOf(out.num[i]) <= M * out.den
    <3> DEFINE b == M * den
    <3>1. b \in Int /\ ~(L > b)
      BY <1>1, <1>4
    <3> HIDE DEF b
    <3>2. Kinematics(p)!AbsOf(speeds[i]) <= b
      BY <1>1, <3>1 DEF Kinematics!AbsOf
    <3>3. QED BY <2>1, <3>2 DEF b
  <2>3. SlowedTo(speeds, out.num)
    <3> SUFFICES \E c \in Nat : \A i \in 1..4 : out.num[i] = speeds[i] * c
      BY DEF SlowedTo
    <3> WITNESS 1 \in Nat
    <3> TAKE i \in 1..4
    <3>1. speeds[i] \in Int
      OBVIOUS
    <3>2. QED BY <2>1, <3>1
  <2>4. QED BY <2>1, <2>2, <2>3 DEF out, M
<1>5. QED BY <1>3, <1>4

(* A command as the next-state relation makes it. *)
IsCommand(p, in) ==
    /\ in.vx \in Int /\ in.vy \in Int /\ in.wz \in Int
    /\ \E n \in 0 .. Kinematics(p)!Longest :
          n * n = Kinematics(p)!Square(<<in.vx, in.vy>>)

LEMMA ShorteningIs ==
    ASSUME NEW p \in DOMAIN OmniConf, NEW in, IsCommand(p, in)
    PROVE  LET s == Kinematics(p)!Shortening(in)
           IN  s \in Nat \ {0} /\ OmniConf[p].One * s \in Nat \ {0}
<1> DEFINE o == OmniConf[p].One
           l == Kinematics(p)!Length(<<in.vx, in.vy>>)
           s == Kinematics(p)!Shortening(in)
<1>1. o \in Nat \ {0}
  BY OmniNumbers
<1>2. l \in 0 .. Kinematics(p)!Longest
  BY DEF IsCommand, Kinematics!Length
<1>3. l \in Int
  BY <1>2
<1>4. s = Kinematics(p)!Max({o, l})
  BY DEF Kinematics!Shortening
<1> HIDE DEF o, l, s
<1>5. s = IF o >= l THEN o ELSE l
  BY <1>1, <1>3, <1>4, OmniMaxOfTwo
<1>6. s \in Nat \ {0}
  BY <1>1, <1>3, <1>5
<1>7. o * s \in Nat \ {0}
  BY <1>1, <1>6
<1>8. QED BY <1>6, <1>7 DEF o, s

LEMMA ClampedIs ==
    ASSUME NEW p \in DOMAIN OmniConf, NEW wz \in Int
    PROVE  /\ Kinematics(p)!Clamped(wz) \in Int
           /\ wz = 0 => Kinematics(p)!Clamped(wz) = 0
<1> DEFINE a == 5 * OmniConf[p].One
           m == Kinematics(p)!Min({a, wz})
<1>1. a \in Nat /\ -a \in Int
  BY OmniNumbers
<1>2. Kinematics(p)!Clamped(wz) = Kinematics(p)!Max({-5 * OmniConf[p].One, m})
  BY DEF Kinematics!Clamped
<1>3. -5 * OmniConf[p].One = -a
  BY OmniNumbers
<1> HIDE DEF a
<1>4. m = IF a <= wz THEN a ELSE wz
  BY <1>1, OmniMinOfTwo
<1>5. m \in Int
  BY <1>1, <1>4
<1> HIDE DEF m
<1>6. Kinematics(p)!Clamped(wz) = IF -a >= m THEN -a ELSE m
  BY <1>1, <1>2, <1>3, <1>5, OmniMaxOfTwo
<1>7. QED BY <1>1, <1>4, <1>5, <1>6

(* What a wheel must turn. *)
LEMMA OneProjection ==
    ASSUME NEW g \in Int, NEW tx \in Int, NEW ty \in Int, NEW vx \in Int,
           NEW vy \in Int, NEW m \in Int, NEW o \in Int, NEW rest \in Int
    PROVE  /\ g * ((tx * vx + ty * vy) * m * o + rest) \in Int
           /\ g * (tx * vx + ty * vy) \in Int
           /\ rest = 0 => g * ((tx * vx + ty * vy) * m * o + rest)
                            = (g * (tx * vx + ty * vy)) * (m * o)
<1> DEFINE a == tx * vx + ty * vy
<1>1. a \in Int
  OBVIOUS
<1> HIDE DEF a
<1>2. /\ g * (a * m * o + rest) \in Int /\ g * a \in Int
      /\ rest = 0 => g * (a * m * o + rest) = (g * a) * (m * o)
  <2>1. a * m \in Int /\ g * a \in Int /\ m * o \in Int
    BY <1>1
  <2>2. a * m * o \in Int
    BY <2>1
  <2>3. g * (a * m * o + rest) \in Int
    BY <2>2
  <2>4. g * (a * m * o) = (g * a) * (m * o)
    BY <1>1
  <2>5. QED BY <2>1, <2>2, <2>3, <2>4
<1>3. QED BY <1>2 DEF a

(* The speed of a wheel that the translation alone asks for. *)
Asked(in, g, i) == g[i].gear * (g[i].tx * in.vx + g[i].ty * in.vy)

LEMMA ProjectedIs ==
    ASSUME NEW p \in DOMAIN OmniConf, NEW g \in [1..4 -> OmniConf[p].Wheels],
           NEW in, IsCommand(p, in)
    PROVE  LET speeds == Kinematics(p)!Projected(g, in)
           IN  /\ speeds \in [1..4 -> Int]
               /\ \A i \in 1..4 : Asked(in, g, i) \in Int
               /\ in.wz = 0 => \A i \in 1..4 :
                     speeds[i] = Asked(in, g, i)
                                   * (OmniConf[p].MaxTranslation * OmniConf[p].One)
<1> DEFINE m == OmniConf[p].MaxTranslation
           o == OmniConf[p].One
           r == OmniConf[p].MaxRotation
           s == Kinematics(p)!Shortening(in)
           c == Kinematics(p)!Clamped(in.wz)
           lever(i) == Kinematics(p)!Lever(g[i])
           rest(i) == lever(i) * c * r * s
           speed(i) == g[i].gear * ((g[i].tx * in.vx + g[i].ty * in.vy) * m * o
                                      + rest(i))
<1>1. /\ m \in Int /\ o \in Int /\ r \in Int /\ s \in Int /\ c \in Int
      /\ in.vx \in Int /\ in.vy \in Int /\ in.wz \in Int
      /\ in.wz = 0 => c = 0
  <2>1. m \in Int /\ o \in Int /\ r \in Int
    BY OmniNumbers
  <2>2. in.vx \in Int /\ in.vy \in Int /\ in.wz \in Int
    BY DEF IsCommand
  <2>3. s \in Int
    BY ShorteningIs
  <2>4. QED BY <2>1, <2>2, <2>3, ClampedIs
<1>2. ASSUME NEW i \in 1..4
      PROVE  /\ g[i].x \in Int /\ g[i].y \in Int /\ g[i].tx \in Int
             /\ g[i].ty \in Int /\ g[i].gear \in Int
  <2>1. g[i] \in OmniConf[p].Wheels
    OBVIOUS
  <2>2. QED BY <2>1, OmniNumbers
<1>3. ASSUME NEW i \in 1..4
      PROVE  rest(i) \in Int /\ (in.wz = 0 => rest(i) = 0)
  <2>1. lever(i) \in Int
    <3>1. g[i].x * g[i].ty \in Int /\ g[i].y * g[i].tx \in Int
      BY <1>2
    <3>2. QED BY <3>1 DEF Kinematics!Lever
  <2> HIDE DEF lever, c, r, s
  <2>2. lever(i) * c \in Int
    BY <1>1, <2>1
  <2>3. lever(i) * c * r \in Int
    BY <1>1, <2>2
  <2>4. rest(i) \in Int
    BY <1>1, <2>3
  <2>5. ASSUME in.wz = 0 PROVE rest(i) = 0
    <3>1. lever(i) * c = 0
      BY <1>1, <2>1, <2>5
    <3>2. lever(i) * c * r = 0
      BY <1>1, <3>1
    <3>3. QED BY <1>1, <3>2
  <2>6. QED BY <2>4, <2>5
<1>4. Kinematics(p)!Projected(g, in) = [i \in 1..4 |-> speed(i)]
  BY DEF Kinematics!Projected, Kinematics!Slots
<1>5. ASSUME NEW i \in 1..4
      PROVE  /\ speed(i) \in Int /\ Asked(in, g, i) \in Int
             /\ in.wz = 0 => speed(i) = Asked(in, g, i) * (m * o)
  <2> HIDE DEF m, o, rest
  <2>1. QED BY <1>1, <1>2, <1>3, OneProjection DEF Asked
<1> HIDE DEF m, o, speed
<1>6. QED BY <1>4, <1>5 DEF m, o

(***************************************************************************)
(* The strategy in any configuration: its output is that of the command it *)
(* keeps, and of the layout.                                               *)
(***************************************************************************)
Answer(p) ==
    IF ~o_configured THEN "NOT_READY"
    ELSE IF /\ Kinematics(p)!WheelsValid(o_geometry)
            /\ Kinematics(p)!has_three_dof(Kinematics(p)!Rows(o_geometry))
         THEN "OK" ELSE "INVALID_ARGUMENT"

Served(p) ==
    /\ IsCommand(p, o_input)
    /\ o_status = Answer(p)
    /\ o_output =
          IF o_status = "OK"
          THEN Kinematics(p)!Scaled(Kinematics(p)!Projected(o_geometry, o_input),
                   OmniConf[p].One * Kinematics(p)!Shortening(o_input))
          ELSE Kinematics(p)!Standing

Unserved(p) ==
    /\ o_input = Kinematics(p)!Still
    /\ o_status = "NOT_READY"
    /\ o_output = Kinematics(p)!Standing

OmniIInv(p) ==
    /\ o_geometry \in [1..4 -> OmniConf[p].Wheels]
    /\ o_configured \in BOOLEAN
    /\ Served(p) \/ Unserved(p)

LEMMA OmniStarts ==
    ASSUME NEW p \in DOMAIN OmniConf, Kinematics(p)!Init
    PROVE  OmniIInv(p)
  BY DEF Kinematics!Init, OmniIInv, Unserved, Kinematics!Slots

LEMMA OmniNext ==
    ASSUME NEW p \in DOMAIN OmniConf, OmniIInv(p), Kinematics(p)!Next
    PROVE  OmniIInv(p)'
<1>1. PICK v \in OmniConf[p].Translations, wz \in OmniConf[p].Rotations :
         Kinematics(p)!omni_compute([vx |-> v[1], vy |-> v[2], wz |-> wz])
  BY DEF Kinematics!Next
<1> DEFINE in == [vx |-> v[1], vy |-> v[2], wz |-> wz]
<1>2. v \in Int \X Int /\ v = <<v[1], v[2]>> /\ wz \in Int
  BY OmniNumbers
<1>3. \E n \in 0 .. Kinematics(p)!Longest : n * n = Kinematics(p)!Square(v)
  BY OmniNumbers
<1>4. IsCommand(p, in)
  <2>1. in.vx = v[1] /\ in.vy = v[2] /\ in.wz = wz
    OBVIOUS
  <2> HIDE DEF in
  <2>2. QED BY <1>2, <1>3, <2>1 DEF IsCommand
<1> HIDE DEF in
<1>5. /\ o_input' = in /\ o_geometry' = o_geometry /\ o_configured' = o_configured
      /\ o_status' = Answer(p)
      /\ o_output' =
            IF o_status' = "OK"
            THEN Kinematics(p)!Scaled(Kinematics(p)!Projected(o_geometry, in),
                     OmniConf[p].One * Kinematics(p)!Shortening(in))
            ELSE Kinematics(p)!Standing
  BY <1>1 DEF Kinematics!omni_compute, Answer, in
<1>6. IsCommand(p, o_input)'
  BY <1>4, <1>5 DEF IsCommand
<1>7. Answer(p)' = Answer(p)
  BY <1>5 DEF Answer
<1>8. Served(p)'
  BY <1>5, <1>6, <1>7 DEF Served
<1>9. QED BY <1>5, <1>8 DEF OmniIInv

LEMMA OmniRests ==
    ASSUME NEW p \in DOMAIN OmniConf, OmniIInv(p), UNCHANGED omni
    PROVE  OmniIInv(p)'
<1>1. Answer(p)' = Answer(p)
  BY DEF Answer, omni
<1>2. (Served(p) <=> Served(p)') /\ (Unserved(p) <=> Unserved(p)')
  BY <1>1 DEF Served, Unserved, IsCommand, omni
<1>3. QED BY <1>2 DEF OmniIInv, omni

LEMMA RowsOfLayout ==
    ASSUME NEW p \in DOMAIN OmniConf, NEW g \in [1..4 -> OmniConf[p].Wheels]
    PROVE  Kinematics(p)!Rows(g) \in RowSet
<1> SUFFICES ASSUME NEW i \in 1..4
             PROVE  <<g[i].tx, g[i].ty, Kinematics(p)!Lever(g[i])>> \in Int \X Int \X Int
  BY DEF Kinematics!Rows, Kinematics!Slots, RowSet
<1>1. g[i] \in OmniConf[p].Wheels
  OBVIOUS
<1>2. /\ g[i].x \in Int /\ g[i].y \in Int /\ g[i].tx \in Int /\ g[i].ty \in Int
  BY <1>1, OmniNumbers
<1>3. g[i].x * g[i].ty \in Int /\ g[i].y * g[i].tx \in Int
  BY <1>2
<1>4. Kinematics(p)!Lever(g[i]) \in Int
  BY <1>3 DEF Kinematics!Lever
<1>5. QED BY <1>2, <1>4

(* The same factor for all speeds turns none of them another way. *)
LEMMA SameDirection ==
    ASSUME NEW a \in Int, NEW b \in Int, NEW k \in Nat
    PROVE  (a * k) * b = (b * k) * a /\ (a * k) * a >= 0
<1>1. (a * k) * b = (b * k) * a
  OBVIOUS
<1>2. a * a >= 0
  OBVIOUS
<1> DEFINE q == a * a
<1>3. q \in Int /\ (a * k) * a = q * k
  OBVIOUS
<1> HIDE DEF q
<1>4. q >= 0 => q * k >= 0
  BY <1>3
<1>5. QED BY <1>1, <1>2, <1>3, <1>4 DEF q

LEMMA OmniIsSound ==
    ASSUME NEW p \in DOMAIN OmniConf, OmniIInv(p)
    PROVE  Kinematics(p)!OmniInv
<1> DEFINE speeds == Kinematics(p)!Projected(o_geometry, o_input)
           den == OmniConf[p].One * Kinematics(p)!Shortening(o_input)
           standing == Kinematics(p)!Standing
<1>1. o_geometry \in [1..4 -> OmniConf[p].Wheels] /\ o_configured \in BOOLEAN
  BY DEF OmniIInv
<1>2. /\ standing.num \in [1..4 -> Int] /\ standing.den = 1
      /\ \A i \in 1..4 : standing.num[i] = 0
  BY DEF Kinematics!Standing, Kinematics!Slots
<1>3. ASSUME o_status = "OK"
      PROVE  /\ Served(p) /\ speeds \in [1..4 -> Int] /\ den \in Nat \ {0}
             /\ o_output = Kinematics(p)!Scaled(speeds, den)
  <2>1. Served(p)
    BY <1>3 DEF OmniIInv, Unserved
  <2>2. QED BY <1>1, <1>3, <2>1, ProjectedIs, ShorteningIs DEF Served
<1>4. o_status # "OK" => o_output = standing
  BY DEF OmniIInv, Served, Unserved
<1>5. o_status \in {"OK", "NOT_READY", "INVALID_ARGUMENT"}
  BY DEF OmniIInv, Served, Unserved, Answer
<1>6. /\ o_output.num \in [1..4 -> Int] /\ o_output.den \in Nat \ {0}
      /\ \A i \in 1..4 : Kinematics(p)!AbsOf(o_output.num[i])
                            <= OmniConf[p].MaxDriveSpeed * o_output.den
  <2>1. CASE o_status = "OK"
    BY <1>3, <2>1, ScaledIsWithin
  <2>2. CASE o_status # "OK"
    <3>1. Kinematics(p)!AbsOf(0) = 0
      BY DEF Kinematics!AbsOf
    <3>2. OmniConf[p].MaxDriveSpeed * 1 >= 0
      BY OmniNumbers
    <3>3. QED BY <1>2, <1>4, <2>2, <3>1, <3>2
  <2>3. QED BY <2>1, <2>2
<1>7. Kinematics(p)!TypeOK
  <2>1. o_input.vx \in Int /\ o_input.vy \in Int /\ o_input.wz \in Int
    BY DEF OmniIInv, Served, Unserved, IsCommand, Kinematics!Still
  <2>2. QED BY <1>1, <1>5, <1>6, <2>1 DEF Kinematics!TypeOK, Kinematics!Slots
<1>8. Kinematics(p)!RankIsRight
  <2> SUFFICES ASSUME o_input # Kinematics(p)!Still, o_configured,
                      Kinematics(p)!WheelsValid(o_geometry)
               PROVE  o_status = "OK"
                        <=> Kinematics(p)!Controllable(Kinematics(p)!Rows(o_geometry))
    BY DEF Kinematics!RankIsRight
  <2>1. o_status = Answer(p)
    BY DEF OmniIInv, Unserved, Served
  <2>2. o_status = "OK"
          <=> Kinematics(p)!has_three_dof(Kinematics(p)!Rows(o_geometry))
    BY <2>1 DEF Answer
  <2>3. QED BY <1>1, <2>2, RowsOfLayout, RankIsKnown
<1>9. Kinematics(p)!KeepsDirection
  <2> DEFINE asked(i) == Asked(o_input, o_geometry, i)
             m == OmniConf[p].MaxTranslation * OmniConf[p].One
  <2> SUFFICES ASSUME o_status = "OK", o_input.wz = 0, NEW i \in 1..4, NEW j \in 1..4
               PROVE  /\ o_output.num[i] * asked(j) = o_output.num[j] * asked(i)
                      /\ o_output.num[i] * asked(i) >= 0
    BY DEF Kinematics!KeepsDirection, Kinematics!Slots, Asked
  <2>1. PICK c \in Nat : \A k \in 1..4 : o_output.num[k] = speeds[k] * c
    <3>1. /\ speeds \in [1..4 -> Int] /\ den \in Nat \ {0}
          /\ o_output = Kinematics(p)!Scaled(speeds, den)
      BY <1>3
    <3> HIDE DEF speeds, den
    <3>2. SlowedTo(speeds, o_output.num)
      BY <3>1, ScaledIsWithin
    <3>3. QED BY <3>2 DEF SlowedTo
  <2>2. IsCommand(p, o_input)
    BY <1>3 DEF Served
  <2>3. asked(i) \in Int /\ asked(j) \in Int
        /\ speeds[i] = asked(i) * m /\ speeds[j] = asked(j) * m
    BY <1>1, <2>2, ProjectedIs
  <2>4. m \in Nat
    BY OmniNumbers
  <2> HIDE DEF asked, m
  <2>5. m * c \in Nat
    BY <2>4
  <2>6. /\ o_output.num[i] = asked(i) * (m * c)
        /\ o_output.num[j] = asked(j) * (m * c)
    <3>1. (asked(i) * m) * c = asked(i) * (m * c)
      BY <2>3, <2>4
    <3>2. (asked(j) * m) * c = asked(j) * (m * c)
      BY <2>3, <2>4
    <3>3. QED BY <2>1, <2>3, <3>1, <3>2
  <2>7. QED BY <2>3, <2>5, <2>6, SameDirection
<1>10. QED BY <1>6, <1>7, <1>8, <1>9
        DEF Kinematics!OmniInv, Kinematics!WithinSpeed, Kinematics!Slots

(* The strategy, whichever part runs. *)
OmnisSound == \A p \in DOMAIN OmniConf : part = p => OmniIInv(p)

LEMMA OmnisStart == AllInit => OmnisSound
<1> SUFFICES ASSUME AllInit, NEW p \in DOMAIN OmniConf, part = p
             PROVE  OmniIInv(p)
  BY DEF OmnisSound
<1>1. Kinematics(p)!Init
  BY DEF AllInit, OmniInit
<1>2. QED BY <1>1, OmniStarts

LEMMA OmnisGoOn == OmnisSound /\ [AllNext]_allVars => OmnisSound'
<1> SUFFICES ASSUME OmnisSound, [AllNext]_allVars,
                    NEW p \in DOMAIN OmniConf, part' = p
             PROVE  OmniIInv(p)'
  BY DEF OmnisSound
<1>1. part = p
  BY DEF AllNext, allVars
<1>2. OmniIInv(p)
  BY <1>1 DEF OmnisSound
<1>3. Kinematics(p)!Next \/ UNCHANGED omni
  BY <1>1 DEF AllNext, allVars
<1>4. QED BY <1>2, <1>3, OmniNext, OmniRests

(* The strategy takes exactly the layouts that can do every motion, and    *)
(* turns the wheels the way they were asked to, none too fast, for every   *)
(* layout and every command.                                               *)
THEOREM OmniHolds == AllSpec => []OmniInv
<1>1. OmnisSound => OmniInv
  BY OmniIsSound DEF OmnisSound, OmniInv
<1>2. QED BY <1>1, OmnisStart, OmnisGoOn, PTL DEF AllSpec

(***************************************************************************)
(* The bytes of an event.  What the parser makes of them is defined byte   *)
(* by byte (Processed); it is followed here without an induction over data *)
(* that the provers would have to instantiate: a smallest counterexample   *)
(* is looked at instead (LeastNatural).                                    *)
(***************************************************************************)
LEMMA LeastNatural ==
    ASSUME NEW S \in SUBSET Nat, S # {}
    PROVE  \E x \in S : \A y \in S : x <= y
<1>1. PICK x \in S : \A y \in S : <<y, x>> \notin OpToRel(<, Nat)
  BY NatLessThanWellFounded, WFMin, Zenon
<1>2. \A y \in S : ~(y < x)
  BY <1>1 DEF OpToRel
<1>3. QED BY <1>2

(* g holds what was made of the first bytes of s. *)
Follows(g, d, s, n) ==
    g = [i \in 0..n |->
            IF i = 0 THEN d
            ELSE CHOOSE r \in {Line!WT61C_ProcessByte(e, s[i]) : e \in {g[i - 1]}} : TRUE]

IsOn(g, n) == g = [i \in 0..n |-> g[i]]

LEMMA FollowsByStep ==
    ASSUME NEW g, NEW d, NEW s, NEW n \in Nat
    PROVE  Follows(g, d, s, n) <=>
             /\ IsOn(g, n) /\ g[0] = d
             /\ \A i \in 1..n : g[i] = Line!WT61C_ProcessByte(g[i - 1], s[i])
<1> DEFINE Next1(e, b) == Line!WT61C_ProcessByte(e, b)
           H(i) == IF i = 0 THEN d ELSE CHOOSE r \in {Next1(e, s[i]) : e \in {g[i - 1]}} : TRUE
<1>1. \A i \in 1..n : H(i) = Next1(g[i - 1], s[i])
  <2> HIDE DEF Next1
  <2>1. QED OBVIOUS
<1>2. H(0) = d
  OBVIOUS
<1>3. Follows(g, d, s, n) <=> g = [i \in 0..n |-> H(i)]
  BY DEF Follows
<1> HIDE DEF H
<1>4. (g = [i \in 0..n |-> H(i)]) <=> (g = [i \in 0..n |-> g[i]] /\ \A i \in 0..n : g[i] = H(i))
  OBVIOUS
<1>5. (\A i \in 0..n : g[i] = H(i)) <=> (g[0] = H(0) /\ \A i \in 1..n : g[i] = H(i))
  <2>1. \A i \in 0..n : i = 0 \/ i \in 1..n
    OBVIOUS
  <2>2. 0 \in 0..n /\ \A i \in 1..n : i \in 0..n
    OBVIOUS
  <2>3. QED BY <2>1, <2>2
<1>6. QED BY <1>1, <1>2, <1>3, <1>4, <1>5 DEF Next1, IsOn

(* Two that follow the same bytes agree as far as both go. *)
LEMMA FollowersAgree ==
    ASSUME NEW g, NEW h, NEW d, NEW s, NEW t, NEW n \in Nat, NEW m \in Nat, n <= m,
           Follows(g, d, s, n), Follows(h, d, t, m), \A i \in 1..n : t[i] = s[i]
    PROVE  \A i \in 0..n : g[i] = h[i]
<1> DEFINE S == {i \in 0..n : g[i] # h[i]}
<1>1. SUFFICES ASSUME S # {} PROVE FALSE
  OBVIOUS
<1>2. PICK x \in S : \A y \in S : x <= y
  <2>1. S \in SUBSET Nat
    OBVIOUS
  <2> HIDE DEF S
  <2>2. QED BY <1>1, <2>1, LeastNatural
<1>3. /\ g[0] = d /\ \A i \in 1..n : g[i] = Line!WT61C_ProcessByte(g[i - 1], s[i])
      /\ h[0] = d /\ \A i \in 1..m : h[i] = Line!WT61C_ProcessByte(h[i - 1], t[i])
  BY FollowsByStep
<1>4. x # 0
  BY <1>2, <1>3
<1>5. x \in 1..n /\ x \in 1..m /\ x - 1 \in 0..n /\ x - 1 < x
  BY <1>2, <1>4
<1>6. g[x - 1] = h[x - 1]
  <2>1. x - 1 \notin S
    BY <1>2, <1>5
  <2>2. QED BY <1>5, <2>1
<1>7. g[x] = h[x]
  BY <1>3, <1>5, <1>6, Zenon
<1>8. QED BY <1>2, <1>7

LEMMA FollowerExists ==
    ASSUME NEW d, NEW s, NEW n \in Nat
    PROVE  \E g : Follows(g, d, s, n)
<1> DEFINE S == {k \in Nat : ~\E g : Follows(g, d, s, k)}
<1>1. SUFFICES ASSUME S # {} PROVE FALSE
  OBVIOUS
<1>2. PICK x \in S : \A y \in S : x <= y
  BY <1>1, LeastNatural
<1>3. x # 0
  <2> DEFINE g == [i \in 0..0 |-> d]
  <2>1. IsOn(g, 0) /\ g[0] = d /\ 1..0 = {} /\ 0 \in Nat
    BY DEF IsOn
  <2> HIDE DEF g
  <2>2. Follows(g, d, s, 0)
    BY <2>1, FollowsByStep, Zenon
  <2>3. QED BY <1>2, <2>2
<1>4. x - 1 \in Nat /\ x - 1 \notin S
  BY <1>2, <1>3
<1>5. PICK g : Follows(g, d, s, x - 1)
  BY <1>4
<1> DEFINE last == Line!WT61C_ProcessByte(g[x - 1], s[x])
           h == [i \in 0..x |-> IF i = x THEN last ELSE g[i]]
<1>6. /\ g[0] = d
      /\ \A i \in 1..x - 1 : g[i] = Line!WT61C_ProcessByte(g[i - 1], s[i])
  BY <1>4, <1>5, FollowsByStep
<1>7. x \in Nat /\ h[0] = d /\ h[x] = last /\ h[x - 1] = g[x - 1]
      /\ \A i \in 1..x - 1 : h[i] = g[i] /\ h[i - 1] = g[i - 1]
  <2> HIDE DEF last
  <2>1. x \in Nat /\ 0 \in 0..x /\ x - 1 \in 0..x /\ x - 1 # x
    BY <1>2, <1>3
  <2>2. \A i \in 1..x - 1 : i \in 0..x /\ i - 1 \in 0..x /\ i # x /\ i - 1 # x
    BY <2>1
  <2>3. QED BY <1>3, <1>6, <2>1, <2>2
<1>8. \A i \in 1..x : h[i] = Line!WT61C_ProcessByte(h[i - 1], s[i])
  <2> HIDE DEF h
  <2> SUFFICES ASSUME NEW i \in 1..x
               PROVE  h[i] = Line!WT61C_ProcessByte(h[i - 1], s[i])
    OBVIOUS
  <2>1. CASE i = x
    BY <1>7, <2>1, Zenon
  <2>2. CASE i # x
    <3>1. i \in 1..x - 1
      BY <1>7, <2>2
    <3>2. QED BY <1>6, <1>7, <3>1, Zenon
  <2>3. QED BY <2>1, <2>2
<1>9. IsOn(h, x)
  BY DEF IsOn
<1>10. Follows(h, d, s, x)
  <2> HIDE DEF h
  <2>1. QED BY <1>7, <1>8, <1>9, FollowsByStep
<1>11. QED BY <1>2, <1>10

LEMMA ProcessedFollows ==
    ASSUME NEW d, NEW s, Len(s) \in Nat
    PROVE  \E g : Follows(g, d, s, Len(s)) /\ Line!Processed(d, s) = g[Len(s)]
<1> DEFINE g == CHOOSE f : Follows(f, d, s, Len(s))
<1>1. Follows(g, d, s, Len(s))
  BY FollowerExists
<1>2. Line!Processed(d, s) = g[Len(s)]
  BY DEF Line!Processed, Follows
<1>3. QED BY <1>1, <1>2

(* Without bytes nothing changes. *)
LEMMA NothingProcessed ==
    ASSUME NEW d
    PROVE  Line!Processed(d, <<>>) = d
<1>1. PICK g : Follows(g, d, <<>>, 0) /\ Line!Processed(d, <<>>) = g[0]
  BY ProcessedFollows
<1>2. QED BY <1>1, FollowsByStep

(* The last byte comes after the others. *)
LEMMA OneMoreProcessed ==
    ASSUME NEW d, NEW T, NEW s \in Seq(T), NEW b \in T
    PROVE  Line!Processed(d, Append(s, b))
             = Line!WT61C_ProcessByte(Line!Processed(d, s), b)
<1> DEFINE n == Len(s)
           t == Append(s, b)
<1>1. /\ n \in Nat /\ Len(t) = n + 1 /\ t[n + 1] = b /\ \A i \in 1..n : t[i] = s[i]
  OBVIOUS
<1>2. PICK g : Follows(g, d, s, n) /\ Line!Processed(d, s) = g[n]
  BY <1>1, ProcessedFollows
<1>3. PICK h : Follows(h, d, t, n + 1) /\ Line!Processed(d, t) = h[n + 1]
  <2> HIDE DEF n, t
  <2>1. Len(t) \in Nat
    BY <1>1
  <2>2. \E h : Follows(h, d, t, Len(t)) /\ Line!Processed(d, t) = h[Len(t)]
    BY <2>1, ProcessedFollows, Zenon
  <2>3. QED BY <1>1, <2>2
<1> HIDE DEF n, t
<1>4. n + 1 \in Nat /\ n <= n + 1 /\ n \in 0..n /\ n + 1 \in 1..n + 1 /\ n + 1 - 1 = n
  BY <1>1
<1>5. g[n] = h[n]
  BY <1>1, <1>2, <1>3, <1>4, FollowersAgree
<1>6. h[n + 1] = Line!WT61C_ProcessByte(h[n + 1 - 1], t[n + 1])
  BY <1>3, <1>4, FollowsByStep
<1>7. QED BY <1>1, <1>2, <1>3, <1>4, <1>5, <1>6 DEF t

(***************************************************************************)
(* The parser, byte by byte.                                               *)
(***************************************************************************)
FrameLength == LineConf.FrameLen
FrameCount == Len(LineConf.Kinds)
BurstCount == LineConf.Bursts

ByteSet == [burst : 0..BurstCount, frame : 0..FrameCount,
            place : 0..FrameLength, look : BOOLEAN]

LineSet == [burst : 1..BurstCount, frame : 1..FrameCount, place : 1..FrameLength]

ParserSound(q) ==
    /\ q = [st |-> q.st, buf |-> q.buf]
    /\ q.buf \in Seq(ByteSet) /\ Len(q.buf) < FrameLength
    /\ \/ q.st = "wait55" /\ q.buf = <<>>
       \/ q.st = "id" /\ Len(q.buf) = 1
       \/ q.st = "payload" /\ Len(q.buf) >= 2

DoneSound(d) ==
    /\ ParserSound(d.p)
    /\ d.data \in [Line!KindSet -> 0..BurstCount]

LEMMA LineNumbers ==
    /\ FrameLength \in Nat /\ FrameLength > 2
    /\ BurstCount \in Nat /\ BurstCount > 1
    /\ FrameCount \in Nat \ {0} /\ Line!Frames = 1..FrameCount
    /\ Line!Numbers = 0..BurstCount
    /\ \A k \in 1..FrameCount : LineConf.Kinds[k] \in Line!KindSet
    /\ LineConf.MaxDamage \in Nat /\ LineConf.MaxErrors \in Nat
<1> DEFINE S == {LineConf.Kinds[k] : k \in 1..Len(LineConf.Kinds)}
           F == LineConf.Kinds
<1>1. /\ F \in Seq(S) /\ F # <<>>
      /\ {FrameLength, BurstCount} \subseteq Nat /\ FrameLength > 2 /\ BurstCount > 1
      /\ {LineConf.MaxDamage, LineConf.MaxErrors} \subseteq Nat
  BY LineOK DEF Line!LinkAssumption, FrameLength, BurstCount
<1>2. Line!KindSet = S /\ Line!Frames = 1..Len(F) /\ Line!Numbers = 0..BurstCount
  BY DEF Line!KindSet, Line!Frames, Line!Numbers, BurstCount
<1> HIDE DEF S, F
<1>3. Len(F) \in Nat \ {0} /\ \A k \in 1..Len(F) : F[k] \in S
  BY <1>1
<1>4. QED BY <1>1, <1>2, <1>3 DEF F, FrameCount

LEMMA FrameIsParsed ==
    ASSUME NEW data \in [Line!KindSet -> 0..BurstCount], NEW f
    PROVE  /\ Line!parse_one_frame(data, f) \in [Line!KindSet -> 0..BurstCount]
           /\ \A n \in 1..BurstCount, k \in 1..FrameCount :
                 (\A i \in 1..FrameLength :
                     f[i].burst = n /\ f[i].frame = k /\ f[i].place = i)
                   => Line!parse_one_frame(data, f)[LineConf.Kinds[k]] = n
<1> DEFINE E == [data EXCEPT ![LineConf.Kinds[f[1].frame]] = f[1].burst]
<1>1. Line!parse_one_frame(data, f) = IF Line!SumIsRight(f) THEN E ELSE data
  BY DEF Line!parse_one_frame
<1>2. Line!SumIsRight(f) <=>
        \E n \in 1..BurstCount, k \in 1..FrameCount : \A i \in 1..FrameLength :
            f[i].burst = n /\ f[i].frame = k /\ f[i].place = i
  BY LineNumbers DEF Line!SumIsRight, BurstCount, FrameLength
<1>3. 1 \in 1..FrameLength
  BY LineNumbers
<1>4. ASSUME NEW n \in 1..BurstCount, NEW k \in 1..FrameCount,
             \A i \in 1..FrameLength :
                f[i].burst = n /\ f[i].frame = k /\ f[i].place = i
      PROVE  /\ Line!SumIsRight(f)
             /\ E \in [Line!KindSet -> 0..BurstCount] /\ E[LineConf.Kinds[k]] = n
  <2>1. f[1].burst = n /\ f[1].frame = k
    BY <1>3, <1>4
  <2>2. LineConf.Kinds[k] \in Line!KindSet /\ n \in 0..BurstCount
    BY LineNumbers
  <2>3. E = [data EXCEPT ![LineConf.Kinds[k]] = n]
    BY <2>1
  <2>4. QED BY <1>2, <1>4, <2>2, <2>3
<1>5. Line!SumIsRight(f) => E \in [Line!KindSet -> 0..BurstCount]
  BY <1>2, <1>4
<1> HIDE DEF E
<1>6. QED BY <1>1, <1>4, <1>5

LEMMA SoundParser ==
    ASSUME NEW st, NEW buf \in Seq(ByteSet), Len(buf) < FrameLength,
           \/ st = "wait55" /\ buf = <<>>
           \/ st = "id" /\ Len(buf) = 1
           \/ st = "payload" /\ Len(buf) >= 2
    PROVE  ParserSound([st |-> st, buf |-> buf])
  BY DEF ParserSound

(* What one byte does, by the state of the parser. *)
LEMMA ByteIsParsed ==
    ASSUME NEW d, DoneSound(d), NEW b \in ByteSet
    PROVE  LET e == Line!WT61C_ProcessByte(d, b)
               full == d.p.st = "payload" /\ Len(d.p.buf) + 1 >= FrameLength
           IN  /\ DoneSound(e)
               /\ d.p.st = "wait55" =>
                     e.p = IF b.look THEN [st |-> "id", buf |-> <<b>>] ELSE d.p
               /\ d.p.st # "wait55" /\ ~full =>
                     e.p = [st |-> "payload", buf |-> Append(d.p.buf, b)]
               /\ full => /\ e.p = Line!Waiting
                          /\ e.data = Line!parse_one_frame(d.data, Append(d.p.buf, b))
<1> DEFINE e == Line!WT61C_ProcessByte(d, b)
           q == d.p
           full == q.st = "payload" /\ Len(q.buf) + 1 >= FrameLength
           more == Append(q.buf, b)
<1>1. /\ e.p = Line!Step(q, b)
      /\ e.data = IF full THEN Line!parse_one_frame(d.data, more) ELSE d.data
  BY DEF Line!WT61C_ProcessByte, FrameLength
<1>2. e.data \in [Line!KindSet -> 0..BurstCount]
  <2>1. d.data \in [Line!KindSet -> 0..BurstCount]
    BY DEF DoneSound
  <2>2. Line!parse_one_frame(d.data, more) \in [Line!KindSet -> 0..BurstCount]
    BY <2>1, FrameIsParsed
  <2>3. QED BY <1>1, <2>1, <2>2
<1> HIDE DEF e
<1>3. /\ q = [st |-> q.st, buf |-> q.buf] /\ q.buf \in Seq(ByteSet)
      /\ Len(q.buf) \in Nat /\ Len(q.buf) < FrameLength
      /\ \/ q.st = "wait55" /\ q.buf = <<>>
         \/ q.st = "id" /\ Len(q.buf) = 1
         \/ q.st = "payload" /\ Len(q.buf) >= 2
  BY DEF DoneSound, ParserSound
<1>4. more \in Seq(ByteSet) /\ Len(more) = Len(q.buf) + 1
  BY <1>3
<1>5. CASE q.st = "wait55"
  <2>1. e.p = IF b.look THEN [st |-> "id", buf |-> <<b>>] ELSE q
    BY <1>1, <1>5 DEF Line!Step
  <2>2. <<b>> \in Seq(ByteSet) /\ Len(<<b>>) = 1
    OBVIOUS
  <2>3. ParserSound(e.p)
    BY <1>3, <1>5, <2>1, <2>2, LineNumbers DEF ParserSound
  <2>4. QED BY <1>2, <1>5, <2>1, <2>3 DEF DoneSound, e
<1>6. CASE q.st = "id"
  <2>1. e.p = [st |-> "payload", buf |-> more]
    BY <1>1, <1>6 DEF Line!Step
  <2>2. ParserSound(e.p)
    <3>1. Len(q.buf) = 1
      BY <1>3, <1>6
    <3>2. FrameLength \in Nat /\ 2 < FrameLength
      BY LineNumbers
    <3>3. more \in Seq(ByteSet) /\ Len(more) = 2
      BY <1>4, <3>1
    <3> HIDE DEF more
    <3>4. Len(more) < FrameLength /\ Len(more) >= 2
      BY <3>2, <3>3
    <3>5. QED BY <2>1, <3>3, <3>4, SoundParser
  <2>3. QED BY <1>2, <1>6, <2>1, <2>2 DEF DoneSound, e
<1>7. CASE q.st = "payload" /\ ~full
  <2>1. e.p = [q EXCEPT !.buf = more]
    BY <1>1, <1>7 DEF Line!Step, FrameLength
  <2>2. e.p = [st |-> "payload", buf |-> more]
    BY <1>3, <1>7, <2>1
  <2>3. ParserSound(e.p)
    BY <1>3, <1>4, <1>7, <2>2, LineNumbers DEF ParserSound
  <2>4. QED BY <1>2, <1>7, <2>2, <2>3 DEF DoneSound, e
<1>8. CASE full
  <2>1. e.p = Line!Waiting
    BY <1>1, <1>8 DEF Line!Step, FrameLength
  <2>2. <<>> \in Seq(ByteSet) /\ Len(<<>>) = 0
    OBVIOUS
  <2>3. ParserSound(e.p)
    BY <2>1, <2>2, LineNumbers DEF ParserSound, Line!Waiting
  <2>4. QED BY <1>1, <1>2, <1>8, <2>1, <2>3 DEF DoneSound, e
<1>9. QED BY <1>3, <1>5, <1>6, <1>7, <1>8

(* The bytes of a frame as the unit sends them. *)
ByteOf(n, k, i) == [burst |-> n, frame |-> k, place |-> i, look |-> i = 1]

FrameStart(l, m) == [i \in 1..m |-> ByteOf(l.burst, l.frame, i)]

(* The parser holds the bytes of this frame that were sent. *)
InStep(d, l) ==
    IF l.place = 1 THEN d.p = Line!Waiting
    ELSE d.p = [st |-> IF l.place = 2 THEN "id" ELSE "payload",
                buf |-> FrameStart(l, l.place - 1)]

(* After one frame without damage the parser is in step, or will be with   *)
(* the next: it waits for a header, or will be full before the frame ends. *)
(* After three it has taken the last one.                                  *)
Found(d, l, frames) ==
    /\ frames >= 1 => \/ d.p.st = "wait55"
                      \/ InStep(d, l)
                      \/ Len(d.p.buf) >= l.place
    /\ frames >= 2 => InStep(d, l)
    /\ frames = 3 /\ l.place = 1 =>
          d.data[LineConf.Kinds[Line!Before(l).frame]] = Line!Before(l).burst

LEMMA SentIs ==
    ASSUME NEW l \in LineSet
    PROVE  /\ Line!Sent(l) = ByteOf(l.burst, l.frame, l.place)
           /\ Line!Sent(l) \in ByteSet
<1>1. /\ l.burst \in 0..BurstCount /\ l.frame \in 0..FrameCount
      /\ l.place \in 0..FrameLength
  BY LineNumbers DEF LineSet
<1>2. Line!Sent(l) = ByteOf(l.burst, l.frame, l.place)
  BY DEF Line!Sent, ByteOf
<1>3. ByteOf(l.burst, l.frame, l.place) \in ByteSet
  BY <1>1 DEF ByteOf, ByteSet
<1>4. QED BY <1>2, <1>3

(* The next byte of the unit. *)
LEMMA AfterIs ==
    ASSUME NEW l \in LineSet
    PROVE  /\ Line!After(l) \in LineSet
           /\ l.place < FrameLength =>
                 /\ Line!After(l).burst = l.burst /\ Line!After(l).frame = l.frame
                 /\ Line!After(l).place = l.place + 1
           /\ l.place = FrameLength =>
                 /\ Line!After(l).place = 1
                 /\ Line!After(l).frame = IF l.frame < FrameCount THEN l.frame + 1 ELSE 1
                 /\ Line!Before(Line!After(l)).frame = l.frame
                 /\ Line!Before(Line!After(l)).burst = l.burst
<1>1. /\ l = [burst |-> l.burst, frame |-> l.frame, place |-> l.place]
      /\ l.burst \in 1..BurstCount /\ l.frame \in 1..FrameCount
      /\ l.place \in 1..FrameLength
  BY DEF LineSet
<1> USE DEF FrameLength, FrameCount, BurstCount
<1>2. CASE l.place < FrameLength
  <2>1. Line!After(l) = [l EXCEPT !.place = l.place + 1]
    BY <1>2 DEF Line!After
  <2>2. Line!After(l) = [burst |-> l.burst, frame |-> l.frame, place |-> l.place + 1]
    BY <1>1, <2>1
  <2>3. l.place + 1 \in 1..FrameLength
    BY <1>1, <1>2, LineNumbers
  <2>4. QED BY <1>1, <1>2, <2>2, <2>3, LineNumbers DEF LineSet
<1>3. CASE l.place = FrameLength /\ l.frame < FrameCount
  <2>1. Line!After(l) = [l EXCEPT !.frame = l.frame + 1, !.place = 1]
    BY <1>1, <1>3, LineNumbers DEF Line!After
  <2>2. Line!After(l) = [burst |-> l.burst, frame |-> l.frame + 1, place |-> 1]
    BY <1>1, <2>1
  <2>3. l.frame + 1 \in 1..FrameCount /\ 1 \in 1..FrameLength /\ l.frame + 1 > 1
        /\ l.frame + 1 - 1 = l.frame
    BY <1>1, <1>3, LineNumbers
  <2>4. Line!After(l) \in LineSet
    BY <1>1, <2>2, <2>3 DEF LineSet
  <2>5. Line!Before(Line!After(l)) = [burst |-> l.burst, frame |-> l.frame, place |-> 1]
    <3> DEFINE r == [burst |-> l.burst, frame |-> l.frame + 1, place |-> 1]
    <3>0. r.frame - 1 = l.frame
      <4>1. l.frame \in Int
        BY <1>1
      <4>2. QED BY <4>1
    <3>1. [r EXCEPT !.frame = l.frame]
            = [burst |-> l.burst, frame |-> l.frame, place |-> 1]
      OBVIOUS
    <3>2. Line!Before(r) = [r EXCEPT !.frame = r.frame - 1]
      BY <2>3 DEF Line!Before
    <3>3. QED BY <2>2, <3>0, <3>1, <3>2
  <2>6. QED BY <1>3, <2>2, <2>4, <2>5, LineNumbers
<1>4. CASE l.place = FrameLength /\ l.frame = FrameCount
  <2> DEFINE n == l.burst % BurstCount
             u == n + 1
  <2>1. n = (IF l.burst = BurstCount THEN 0 ELSE l.burst) /\ u \in 1..BurstCount
    <3> DEFINE b == l.burst
               B == BurstCount
    <3>1. b \in 1..B /\ B \in Nat \ {0}
      BY <1>1, LineNumbers
    <3> HIDE DEF b, B
    <3>2. b \in -B .. 2 * B - 1
      BY <3>1
    <3>3. b % B = IF b < 0 THEN b + B ELSE IF b >= B THEN b - B ELSE b
      BY <3>1, <3>2, Wraps
    <3>4. b % B = (IF b = B THEN 0 ELSE b) /\ (b % B) + 1 \in 1..B
      BY <3>1, <3>3
    <3>5. QED BY <3>4 DEF b, B
  <2>2. Line!After(l) = [burst |-> u, frame |-> 1, place |-> 1]
    BY <1>4, LineNumbers DEF Line!After, Line!Burst
  <2>3. Line!After(l) \in LineSet
    BY <2>1, <2>2, LineNumbers DEF LineSet
  <2>4. Line!Before(Line!After(l))
          = [burst |-> IF u = 1 THEN BurstCount ELSE u - 1, frame |-> FrameCount, place |-> 1]
    <3> DEFINE r == [burst |-> u, frame |-> 1, place |-> 1]
    <3> HIDE DEF u
    <3>1. Line!Before(r) = [r EXCEPT !.frame = FrameCount,
                                     !.burst = IF r.burst = 1 THEN BurstCount ELSE r.burst - 1]
      BY DEF Line!Before
    <3>2. QED BY <2>2, <3>1
  <2>5. (IF u = 1 THEN BurstCount ELSE u - 1) = l.burst
    BY <1>1, <2>1, LineNumbers
  <2>6. QED BY <1>4, <2>2, <2>3, <2>4, <2>5, LineNumbers
<1>5. QED BY <1>1, <1>2, <1>3, <1>4, LineNumbers

(* The bytes of a frame go on. *)
LEMMA FrameGoesOn ==
    ASSUME NEW l \in LineSet
    PROVE  /\ l.place = 1 => FrameStart(l, 1) = <<Line!Sent(l)>>
           /\ l.place > 1 => Append(FrameStart(l, l.place - 1), Line!Sent(l))
                               = FrameStart(l, l.place)
           /\ \A m \in 0..FrameLength : /\ FrameStart(l, m) \in Seq(ByteSet)
                                        /\ Len(FrameStart(l, m)) = m
<1>1. /\ l.burst \in 1..BurstCount /\ l.frame \in 1..FrameCount
      /\ l.place \in 1..FrameLength /\ FrameLength \in Nat
  BY LineNumbers DEF LineSet
<1>2. \A i \in 1..FrameLength : ByteOf(l.burst, l.frame, i) \in ByteSet
  BY <1>1, LineNumbers DEF ByteOf, ByteSet
<1> DEFINE F(i) == ByteOf(l.burst, l.frame, i)
<1>3. Line!Sent(l) = F(l.place)
  BY SentIs
<1>4. \A m : FrameStart(l, m) = [i \in 1..m |-> F(i)]
  BY DEF FrameStart
<1> HIDE DEF F
<1>5. ASSUME NEW m \in 0..FrameLength
      PROVE  FrameStart(l, m) \in Seq(ByteSet) /\ Len(FrameStart(l, m)) = m
  <2>1. \A i \in 1..m : F(i) \in ByteSet
    BY <1>1, <1>2 DEF F
  <2>2. m \in Nat
    BY <1>1
  <2>3. [i \in 1..m |-> F(i)] \in [1..m -> ByteSet]
    BY <2>1
  <2>4. QED BY <1>4, <2>2, <2>3
<1>6. ASSUME l.place = 1
      PROVE  FrameStart(l, 1) = <<Line!Sent(l)>>
  <2>1. FrameStart(l, 1) = [i \in 1..1 |-> F(1)]
    <3>1. \A i \in 1..1 : i = 1
      OBVIOUS
    <3>2. QED BY <1>4, <3>1
  <2>2. [i \in 1..1 |-> F(1)] = <<F(1)>>
    OBVIOUS
  <2>3. QED BY <1>3, <1>6, <2>1, <2>2
<1>7. ASSUME l.place > 1
      PROVE  Append(FrameStart(l, l.place - 1), Line!Sent(l)) = FrameStart(l, l.place)
  <2> DEFINE m == l.place - 1
             s == FrameStart(l, m)
             t == FrameStart(l, l.place)
  <2>1. m \in 0..FrameLength /\ l.place = m + 1 /\ l.place \in 0..FrameLength /\ m \in Nat
    BY <1>1, <1>7
  <2>2. /\ s \in Seq(ByteSet) /\ Len(s) = m
        /\ t \in Seq(ByteSet) /\ Len(t) = m + 1
    BY <1>5, <2>1
  <2>3. /\ \A i \in 1..m : s[i] = F(i)
        /\ \A i \in 1..m + 1 : t[i] = F(i)
    BY <1>4, <2>1
  <2>4. Line!Sent(l) = F(m + 1) /\ Line!Sent(l) \in ByteSet
    BY <1>3, <2>1, SentIs
  <2> DEFINE a == Append(s, Line!Sent(l))
  <2> HIDE DEF m, s, t
  <2>5. a \in Seq(ByteSet) /\ Len(a) = m + 1
        /\ \A i \in 1..m + 1 : a[i] = IF i = m + 1 THEN Line!Sent(l) ELSE s[i]
    BY <2>1, <2>2, <2>4
  <2>6. \A i \in 1..m + 1 : a[i] = t[i]
    <3> SUFFICES ASSUME NEW i \in 1..m + 1 PROVE a[i] = t[i]
      OBVIOUS
    <3>1. CASE i = m + 1
      BY <2>3, <2>4, <2>5, <3>1
    <3>2. CASE i # m + 1
      <4>1. i \in 1..m
        BY <2>1, <3>2
      <4>2. QED BY <2>3, <2>5, <3>2, <4>1
    <3>3. QED BY <3>1, <3>2
  <2> HIDE DEF a
  <2>7. a = t
    BY <2>1, <2>2, <2>5, <2>6, SeqEqual
  <2>8. QED BY <2>7 DEF a, m, s, t
<1>8. QED BY <1>5, <1>6, <1>7

(* One more byte, not damaged. *)
LEMMA FoundGoesOn ==
    ASSUME NEW l \in LineSet, NEW frames \in 0..3, NEW d, DoneSound(d),
           Found(d, l, frames)
    PROVE  Found(Line!WT61C_ProcessByte(d, Line!Sent(l)), Line!After(l),
                 IF l.place = FrameLength /\ frames < 3 THEN frames + 1 ELSE frames)
<1> DEFINE b == Line!Sent(l)
           e == Line!WT61C_ProcessByte(d, b)
           next == Line!After(l)
           q == d.p
           L == FrameLength
<1>1. /\ L \in Nat /\ L > 2 /\ l.place \in 1..L
      /\ l.burst \in 1..BurstCount /\ l.frame \in 1..FrameCount
  BY LineNumbers DEF LineSet
<1>2. /\ b \in ByteSet /\ b = ByteOf(l.burst, l.frame, l.place)
      /\ (l.place = 1 => b.look) /\ (l.place # 1 => ~b.look)
  <2>1. b \in ByteSet /\ b = ByteOf(l.burst, l.frame, l.place)
    BY SentIs
  <2> HIDE DEF b
  <2>2. b = [burst |-> l.burst, frame |-> l.frame, place |-> l.place, look |-> l.place = 1]
    BY <2>1 DEF ByteOf
  <2>3. b.look = (l.place = 1)
    BY <2>2, Zenon
  <2>4. QED BY <2>1, <2>3
<1>3. /\ DoneSound(e)
      /\ q.st = "wait55" => e.p = IF b.look THEN [st |-> "id", buf |-> <<b>>] ELSE q
      /\ q.st # "wait55" /\ ~(q.st = "payload" /\ Len(q.buf) + 1 >= L) =>
            e.p = [st |-> "payload", buf |-> Append(q.buf, b)]
      /\ q.st = "payload" /\ Len(q.buf) + 1 >= L =>
            /\ e.p = Line!Waiting
            /\ e.data = Line!parse_one_frame(d.data, Append(q.buf, b))
  BY <1>2, ByteIsParsed
<1>4. /\ q = [st |-> q.st, buf |-> q.buf] /\ q.buf \in Seq(ByteSet)
      /\ Len(q.buf) \in Nat /\ Len(q.buf) < L
      /\ \/ q.st = "wait55" /\ q.buf = <<>>
         \/ q.st = "id" /\ Len(q.buf) = 1
         \/ q.st = "payload" /\ Len(q.buf) >= 2
      /\ d.data \in [Line!KindSet -> 0..BurstCount]
  BY DEF DoneSound, ParserSound
<1>5. q.st = "wait55" <=> q = Line!Waiting
  BY <1>4 DEF Line!Waiting
<1>6. Len(Append(q.buf, b)) = Len(q.buf) + 1
  BY <1>2, <1>4
<1>7. /\ next \in LineSet
      /\ l.place < L => /\ next.burst = l.burst /\ next.frame = l.frame
                        /\ next.place = l.place + 1
      /\ l.place = L => /\ next.place = 1
                        /\ Line!Before(next).frame = l.frame
                        /\ Line!Before(next).burst = l.burst
  BY AfterIs
<1>8. /\ l.place = 1 => FrameStart(l, 1) = <<b>>
      /\ l.place > 1 => Append(FrameStart(l, l.place - 1), b) = FrameStart(l, l.place)
      /\ \A m \in 0..L : Len(FrameStart(l, m)) = m
  BY FrameGoesOn
<1> HIDE DEF b, e, next, q, L
(* A parser in step holds what was sent of the frame. *)
<1>9. ASSUME InStep(d, l)
      PROVE  /\ l.place = 1 => q.st = "wait55"
             /\ l.place = 2 => q.st = "id"
             /\ l.place > 2 => q.st = "payload"
             /\ l.place > 1 => /\ q.buf = FrameStart(l, l.place - 1)
                               /\ Len(q.buf) = l.place - 1
  <2>1. CASE l.place = 1
    BY <1>5, <1>9, <2>1 DEF InStep, q
  <2>2. CASE l.place # 1
    <3>1. q = [st |-> IF l.place = 2 THEN "id" ELSE "payload",
               buf |-> FrameStart(l, l.place - 1)]
      BY <1>9, <2>2 DEF InStep, q
    <3>2. l.place - 1 \in 0..L
      BY <1>1
    <3>3. Len(FrameStart(l, l.place - 1)) = l.place - 1
      BY <1>8, <3>2
    <3>4. QED BY <1>1, <2>2, <3>1, <3>3
  <2>3. QED BY <2>1, <2>2
<1>10. ASSUME InStep(d, l), l.place < L
       PROVE  InStep(e, next)
  <2>1. next.place = l.place + 1 /\ next.burst = l.burst /\ next.frame = l.frame
    BY <1>7, <1>10
  <2>2. FrameStart(next, l.place) = FrameStart(l, l.place)
    BY <2>1 DEF FrameStart
  <2>3. e.p = [st |-> IF next.place = 2 THEN "id" ELSE "payload",
               buf |-> FrameStart(l, l.place)]
    <3>1. CASE l.place = 1
      BY <1>2, <1>3, <1>8, <1>9, <1>10, <2>1, <3>1
    <3>2. CASE l.place # 1
      <4>1. l.place > 1 /\ l.place + 1 # 2
        BY <1>1, <3>2
      <4>2. q.st # "wait55" /\ ~(Len(q.buf) + 1 >= L)
        BY <1>1, <1>9, <1>10, <4>1
      <4>3. e.p = [st |-> "payload", buf |-> Append(q.buf, b)]
        BY <1>3, <4>2
      <4>4. QED BY <1>8, <1>9, <1>10, <2>1, <4>1, <4>3
    <3>3. QED BY <3>1, <3>2
  <2>4. next.place # 1 /\ next.place - 1 = l.place
    BY <1>1, <2>1
  <2>5. QED BY <2>2, <2>3, <2>4 DEF InStep
(* At the end of a frame the parser waits, unless it knew nothing before. *)
<1>11. ASSUME l.place = L, frames >= 1
       PROVE  InStep(e, next)
  <2>1. e.p = Line!Waiting
    <3>1. CASE q.st = "wait55"
      <4>1. ~b.look
        BY <1>1, <1>2, <1>11
      <4>2. QED BY <1>3, <1>5, <3>1, <4>1
    <3>2. CASE InStep(d, l)
      <4>1. q.st = "payload" /\ Len(q.buf) + 1 >= L
        BY <1>1, <1>9, <1>11, <3>2
      <4>2. QED BY <1>3, <4>1
    <3>3. QED BY <1>1, <1>4, <1>11, <3>1, <3>2 DEF Found, q
  <2>2. QED BY <1>7, <1>11, <2>1 DEF InStep
<1>12. ASSUME l.place < L, frames >= 1
       PROVE  \/ e.p.st = "wait55" \/ InStep(e, next) \/ Len(e.p.buf) >= next.place
  <2>1. CASE q.st = "wait55"
    <3>1. CASE l.place = 1
      <4>1. InStep(d, l)
        BY <1>5, <2>1, <3>1 DEF InStep, q
      <4>2. QED BY <1>10, <1>12, <4>1
    <3>2. CASE l.place # 1
      BY <1>2, <1>3, <2>1, <3>2
    <3>3. QED BY <3>1, <3>2
  <2>2. CASE InStep(d, l)
    BY <1>10, <1>12, <2>2
  <2>3. CASE q.st # "wait55" /\ Len(q.buf) >= l.place
    <3>1. CASE q.st = "payload" /\ Len(q.buf) + 1 >= L
      BY <1>3, <3>1 DEF Line!Waiting
    <3>2. CASE ~(q.st = "payload" /\ Len(q.buf) + 1 >= L)
      <4>1. Len(e.p.buf) = Len(q.buf) + 1
        BY <1>3, <1>6, <2>3, <3>2
      <4>2. QED BY <1>1, <1>4, <1>7, <1>12, <2>3, <4>1
    <3>3. QED BY <3>1, <3>2
  <2>4. QED BY <1>12, <2>1, <2>2, <2>3 DEF Found, q
<1>13. ASSUME l.place = L, frames >= 2
       PROVE  e.data[LineConf.Kinds[l.frame]] = l.burst
  <2>1. InStep(d, l)
    BY <1>13 DEF Found
  <2>2. q.st = "payload" /\ Len(q.buf) + 1 >= L /\ l.place > 1
    BY <1>1, <1>9, <1>13, <2>1
  <2>3. e.data = Line!parse_one_frame(d.data, FrameStart(l, l.place))
    BY <1>3, <1>8, <1>9, <2>1, <2>2
  <2>4. \A i \in 1..L : /\ FrameStart(l, l.place)[i].burst = l.burst
                        /\ FrameStart(l, l.place)[i].frame = l.frame
                        /\ FrameStart(l, l.place)[i].place = i
    BY <1>13 DEF FrameStart, ByteOf
  <2> DEFINE f == FrameStart(l, l.place)
  <2> HIDE DEF f
  <2>5. \A i \in 1..FrameLength :
           f[i].burst = l.burst /\ f[i].frame = l.frame /\ f[i].place = i
    BY <2>4 DEF f, L
  <2>6. Line!parse_one_frame(d.data, f)[LineConf.Kinds[l.frame]] = l.burst
    BY <1>1, <1>4, <2>5, FrameIsParsed
  <2>7. QED BY <2>3, <2>6 DEF f
<1> DEFINE c == IF l.place = L /\ frames < 3 THEN frames + 1 ELSE frames
<1>14. CASE l.place = L
  <2>1. next.place = 1 /\ Line!Before(next).frame = l.frame
        /\ Line!Before(next).burst = l.burst
    BY <1>7, <1>14
  <2>2. \/ e.p.st = "wait55" \/ InStep(e, next) \/ Len(e.p.buf) >= next.place
    <3>1. ParserSound(e.p)
      BY <1>3 DEF DoneSound
    <3>2. Len(e.p.buf) \in Nat
      BY <3>1 DEF ParserSound
    <3>3. e.p.st = "wait55" \/ Len(e.p.buf) = 1 \/ Len(e.p.buf) >= 2
      BY <3>1 DEF ParserSound
    <3>4. e.p.st = "wait55" \/ Len(e.p.buf) >= 1
      <4> DEFINE n == Len(e.p.buf)
      <4> HIDE DEF n
      <4>1. n \in Nat /\ (e.p.st = "wait55" \/ n = 1 \/ n >= 2)
        BY <3>2, <3>3 DEF n
      <4>2. e.p.st = "wait55" \/ n >= 1
        BY <4>1
      <4>3. QED BY <4>2 DEF n
    <3>5. QED BY <2>1, <3>4
  <2>3. /\ c >= 2 => frames >= 1
        /\ c = 3 => frames >= 2
    BY <1>14
  <2>4. c >= 2 => InStep(e, next)
    BY <1>11, <1>14, <2>3
  <2>5. c = 3 => e.data[LineConf.Kinds[Line!Before(next).frame]] = Line!Before(next).burst
    BY <1>13, <1>14, <2>1, <2>3
  <2> HIDE DEF c
  <2>6. Found(e, next, c)
    BY <2>2, <2>4, <2>5 DEF Found
  <2>7. QED BY <2>6 DEF c, e, b, next, L
<1>15. CASE l.place # L
  <2>1. l.place < L /\ c = frames /\ next.place # 1
    BY <1>1, <1>7, <1>15
  <2>2. frames >= 2 => InStep(e, next)
    BY <1>10, <2>1 DEF Found
  <2> HIDE DEF c
  <2>3. Found(e, next, c)
    BY <1>12, <2>1, <2>2 DEF Found
  <2>4. QED BY <2>3 DEF c, e, b, next, L
<1>16. QED BY <1>14, <1>15

(***************************************************************************)
(* The line.  What the parser will have when the bytes of the buffer are   *)
(* processed is followed byte by byte, however they are cut into events.   *)
(***************************************************************************)
Parsed == Line!WT61C_ProcessBytes(w_rxbuf)

(* No burst overflows the buffer. *)
RoomLeft ==
    Len(w_rxbuf) <= IF Line!AtBurst(w_line) THEN FrameCount * FrameLength
                    ELSE (w_line.frame - 1) * FrameLength + w_line.place - 1

LineCounts ==
    /\ w_damage \in 0..LineConf.MaxDamage /\ w_errors \in 0..LineConf.MaxErrors
    /\ w_clean \in 0..3 /\ w_on \in BOOLEAN

LineIInv ==
    /\ LineCounts
    /\ w_line \in LineSet
    /\ w_rxbuf \in Seq(ByteSet)
    /\ RoomLeft
    /\ DoneSound([p |-> w_parser, data |-> w_data])
    /\ DoneSound(Parsed)
    /\ w_on => Found(Parsed, w_line, w_clean)

(* The bytes of the earlier frames of a burst, and of all. *)
LEMMA FrameLengths ==
    ASSUME NEW k \in 1..FrameCount
    PROVE  /\ (k - 1) * FrameLength \in Nat /\ k * FrameLength \in Nat
           /\ k * FrameLength = (k - 1) * FrameLength + FrameLength
           /\ FrameCount * FrameLength \in Nat
           /\ k * FrameLength <= FrameCount * FrameLength
<1> DEFINE L == FrameLength
           K == FrameCount
<1>1. L \in Nat /\ K \in Nat /\ k \in 1..K
  BY LineNumbers
<1> HIDE DEF L, K
<1>2. PICK m \in Nat : k = m + 1
  <2>1. k - 1 \in Nat /\ k = (k - 1) + 1
    BY <1>1
  <2>2. QED BY <2>1
<1>3. PICK e \in Nat : K = k + e
  <2>1. K - k \in Nat /\ K = k + (K - k)
    BY <1>1
  <2>2. QED BY <2>1
<1>4. m * L \in Nat /\ k * L \in Nat /\ e * L \in Nat
  BY <1>1
<1>5. k * L = m * L + L /\ K * L = k * L + e * L
  BY <1>1, <1>2, <1>3
<1>6. k - 1 = m
  BY <1>2
<1>7. QED BY <1>1, <1>4, <1>5, <1>6 DEF L, K

LEMMA LineStarts == Line!Init => LineIInv
<1> SUFFICES ASSUME Line!Init
             PROVE  LineIInv
  OBVIOUS
<1>1. PICK k \in 1..FrameCount, i \in 1..FrameLength :
         w_line = [burst |-> 1, frame |-> k, place |-> i]
  BY LineNumbers DEF Line!Init, FrameLength
<1>2. w_line \in LineSet
  BY <1>1, LineNumbers DEF LineSet
<1>3. LineCounts
  BY LineNumbers DEF Line!Init, LineCounts
<1>4. w_rxbuf = <<>> /\ w_rxbuf \in Seq(ByteSet) /\ Len(w_rxbuf) = 0
  BY DEF Line!Init
<1>5. RoomLeft
  <2>1. (k - 1) * FrameLength \in Nat /\ FrameCount * FrameLength \in Nat
    BY FrameLengths
  <2>2. w_line.frame = k /\ w_line.place = i /\ i \in Nat /\ i >= 1
    BY <1>1, LineNumbers
  <2>3. QED BY <1>4, <2>1, <2>2 DEF RoomLeft
<1> DEFINE start == [p |-> w_parser, data |-> w_data]
<1>6. Parsed = start
  BY <1>4, NothingProcessed DEF Parsed, Line!WT61C_ProcessBytes
<1>7. DoneSound(start)
  <2>1. w_parser = [st |-> "wait55", buf |-> <<>>]
    BY DEF Line!Init, Line!Waiting
  <2>2. <<>> \in Seq(ByteSet) /\ Len(<<>>) = 0 /\ 0 < FrameLength
    BY LineNumbers
  <2>3. ParserSound(w_parser)
    BY <2>1, <2>2, SoundParser
  <2>4. w_data \in [Line!KindSet -> 0..BurstCount]
    BY LineNumbers DEF Line!Init
  <2>5. QED BY <2>3, <2>4 DEF DoneSound
<1>8. Found(Parsed, w_line, w_clean)
  BY DEF Line!Init, Found
<1>9. QED BY <1>2, <1>3, <1>4, <1>5, <1>6, <1>7, <1>8 DEF LineIInv

(* There is room for the byte that the unit sends next. *)
LEMMA RoomForOne ==
    ASSUME LineIInv, Line!Ready, NEW n \in Nat, n <= Len(w_rxbuf) + 1,
           w_line' = Line!After(w_line), Len(w_rxbuf') = n
    PROVE  RoomLeft'
<1> DEFINE L == FrameLength
           l == w_line
           before == (l.frame - 1) * L
<1>1. /\ l \in LineSet /\ Len(w_rxbuf) \in Nat
      /\ l.frame \in 1..FrameCount /\ l.place \in 1..L
  BY DEF LineIInv, LineSet
<1>2. L \in Nat /\ L > 2 /\ FrameCount \in Nat
  BY LineNumbers
<1>3. /\ before \in Nat /\ l.frame * L \in Nat /\ l.frame * L = before + L
      /\ FrameCount * L \in Nat /\ l.frame * L <= FrameCount * L
  BY <1>1, FrameLengths
<1>4. Len(w_rxbuf) <= before + l.place - 1
  <2>1. CASE Line!AtBurst(l)
    <3>1. Len(w_rxbuf) = 0
      BY <2>1 DEF Line!Ready
    <3> HIDE DEF before
    <3>2. QED BY <1>1, <1>2, <1>3, <3>1
  <2>2. CASE ~Line!AtBurst(l)
    BY <2>2 DEF LineIInv, RoomLeft
  <2>3. QED BY <2>1, <2>2
<1>5. n <= before + l.place
  <2> HIDE DEF before
  <2>1. QED BY <1>1, <1>2, <1>3, <1>4
<1>6. CASE l.place < L
  <2>1. w_line'.frame = l.frame /\ w_line'.place = l.place + 1
    BY <1>1, <1>6, AfterIs
  <2>2. ~Line!AtBurst(w_line)'
    BY <1>1, <2>1 DEF Line!AtBurst
  <2>3. (w_line'.frame - 1) * L + w_line'.place - 1 = before + l.place
    <3>1. (w_line'.frame - 1) * L = before
      BY <2>1
    <3> HIDE DEF before
    <3>2. QED BY <1>1, <1>2, <1>3, <2>1, <3>1
  <2>4. QED BY <1>5, <2>2, <2>3 DEF RoomLeft
<1>7. CASE l.place = L /\ l.frame < FrameCount
  <2>1. w_line'.frame = l.frame + 1 /\ w_line'.place = 1
    BY <1>1, <1>7, AfterIs
  <2>2. ~Line!AtBurst(w_line)'
    BY <1>1, <2>1 DEF Line!AtBurst
  <2>3. (w_line'.frame - 1) * L + w_line'.place - 1 = before + l.place
    <3>1. l.frame + 1 - 1 = l.frame
      BY <1>1
    <3>2. (w_line'.frame - 1) * L = before + L
      <4>1. w_line'.frame - 1 = l.frame
        BY <1>1, <2>1
      <4>2. (w_line'.frame - 1) * L = l.frame * L
        BY <4>1
      <4>3. QED BY <1>3, <4>2
    <3> HIDE DEF before
    <3>3. QED BY <1>1, <1>2, <1>3, <1>7, <2>1, <3>2
  <2>4. QED BY <1>5, <2>2, <2>3 DEF RoomLeft
<1>8. CASE l.place = L /\ ~(l.frame < FrameCount)
  <2>1. w_line'.frame = 1 /\ w_line'.place = 1
    BY <1>1, <1>8, AfterIs
  <2>2. Line!AtBurst(w_line)'
    BY <2>1 DEF Line!AtBurst
  <2>3. n <= FrameCount * L
    <3> HIDE DEF before
    <3>1. QED BY <1>2, <1>3, <1>5, <1>8
  <2>4. QED BY <2>2, <2>3 DEF RoomLeft
<1>9. QED BY <1>1, <1>2, <1>6, <1>7, <1>8

LEMMA LineByte == LineIInv /\ Line!Byte => LineIInv'
<1> SUFFICES ASSUME LineIInv, Line!Byte
             PROVE  LineIInv'
  OBVIOUS
<1> DEFINE b == Line!Sent(w_line)
           start == [p |-> w_parser, data |-> w_data]
<1>1. /\ Line!Ready /\ w_line' = Line!After(w_line)
      /\ w_rxbuf' = IF w_on THEN Append(w_rxbuf, b) ELSE <<>>
      /\ w_clean' = IF ~w_on THEN 0
                    ELSE IF w_line.place = FrameLength /\ w_clean < 3 THEN w_clean + 1
                    ELSE w_clean
      /\ UNCHANGED <<w_damage, w_errors, w_on, w_parser, w_data>>
  BY DEF Line!Byte, Line!Counted, FrameLength
<1>2. /\ LineCounts /\ w_line \in LineSet /\ w_rxbuf \in Seq(ByteSet) /\ b \in ByteSet
      /\ DoneSound(start) /\ DoneSound(Parsed)
  BY SentIs DEF LineIInv
<1>3. w_line' \in LineSet
  BY <1>1, <1>2, AfterIs
<1>4. LineCounts'
  BY <1>1, <1>2 DEF LineCounts
<1>5. Parsed = Line!Processed(start, w_rxbuf)
      /\ Parsed' = Line!Processed(start, w_rxbuf')
  BY <1>1 DEF Parsed, Line!WT61C_ProcessBytes
<1>6. DoneSound([p |-> w_parser, data |-> w_data])'
  BY <1>1, <1>2 DEF DoneSound, ParserSound
<1> HIDE DEF b, start
<1>7. CASE w_on
  <2>1. w_rxbuf' = Append(w_rxbuf, b)
    BY <1>1, <1>7
  <2>2. w_rxbuf' \in Seq(ByteSet) /\ Len(w_rxbuf') = Len(w_rxbuf) + 1
        /\ Len(w_rxbuf) \in Nat
    BY <1>2, <2>1
  <2>3. RoomLeft'
    BY <1>1, <2>2, RoomForOne
  <2>4. Parsed' = Line!WT61C_ProcessByte(Parsed, b)
    BY <1>2, <1>5, <2>1, OneMoreProcessed
  <2>5. DoneSound(Line!WT61C_ProcessByte(Parsed, b))
    BY <1>2, ByteIsParsed
  <2>6. DoneSound(Parsed)'
    BY <2>4, <2>5 DEF DoneSound, ParserSound
  <2>7. Found(Parsed, w_line, w_clean) /\ w_clean \in 0..3
    BY <1>2, <1>7 DEF LineIInv, LineCounts
  <2>8. Found(Line!WT61C_ProcessByte(Parsed, b), Line!After(w_line),
              IF w_line.place = FrameLength /\ w_clean < 3 THEN w_clean + 1 ELSE w_clean)
    BY <1>2, <2>7, FoundGoesOn DEF b
  <2>9. Found(Parsed', w_line', w_clean')
    BY <1>1, <1>7, <2>4, <2>8
  <2>10. QED BY <1>3, <1>4, <1>6, <2>2, <2>3, <2>6, <2>9
          DEF LineIInv, Found, InStep, FrameStart
<1>8. CASE ~w_on
  <2>1. w_rxbuf' = <<>> /\ w_rxbuf' \in Seq(ByteSet) /\ Len(w_rxbuf') = 0
    BY <1>1, <1>8
  <2>2. RoomLeft'
    <3>1. Len(w_rxbuf) \in Nat
      BY <1>2
    <3>2. QED BY <1>1, <2>1, <3>1, RoomForOne
  <2>3. Parsed' = start
    BY <1>5, <2>1, NothingProcessed
  <2>4. DoneSound(Parsed)'
    BY <1>2, <2>3 DEF DoneSound, ParserSound
  <2>5. ~w_on'
    BY <1>1, <1>8
  <2>6. QED BY <1>3, <1>4, <1>6, <2>1, <2>2, <2>4, <2>5 DEF LineIInv
<1>9. QED BY <1>7, <1>8

LEMMA LineDamage == LineIInv /\ Line!Damage => LineIInv'
<1> SUFFICES ASSUME LineIInv, Line!Damage
             PROVE  LineIInv'
  OBVIOUS
<1> DEFINE start == [p |-> w_parser, data |-> w_data]
<1>1. /\ Line!Ready /\ w_line' = Line!After(w_line)
      /\ w_damage < LineConf.MaxDamage /\ w_damage' = w_damage + 1 /\ w_clean' = 0
      /\ UNCHANGED <<w_errors, w_on, w_parser, w_data>>
      /\ \/ w_rxbuf' = w_rxbuf
         \/ w_on /\ \E look \in BOOLEAN : w_rxbuf' = Append(w_rxbuf, Line!Changed(look))
  BY DEF Line!Damage, Line!Counted
<1>2. /\ LineCounts /\ w_line \in LineSet /\ w_rxbuf \in Seq(ByteSet)
      /\ DoneSound(start) /\ DoneSound(Parsed)
  BY DEF LineIInv
<1>3. w_line' \in LineSet
  BY <1>1, <1>2, AfterIs
<1>4. LineCounts'
  BY <1>1, <1>2, LineNumbers DEF LineCounts
<1>5. Parsed = Line!Processed(start, w_rxbuf)
      /\ Parsed' = Line!Processed(start, w_rxbuf')
  BY <1>1 DEF Parsed, Line!WT61C_ProcessBytes
<1>6. DoneSound([p |-> w_parser, data |-> w_data])'
  BY <1>1, <1>2 DEF DoneSound, ParserSound
<1>7. Found(Parsed, w_line, w_clean)'
  BY <1>1 DEF Found
<1> HIDE DEF start
<1>8. Len(w_rxbuf) \in Nat
  BY <1>2
<1>9. CASE w_rxbuf' = w_rxbuf
  <2>1. RoomLeft'
    BY <1>1, <1>8, <1>9, RoomForOne
  <2>2. DoneSound(Parsed)'
    BY <1>2, <1>5, <1>9 DEF DoneSound, ParserSound
  <2>3. QED BY <1>2, <1>3, <1>4, <1>6, <1>7, <1>9, <2>1, <2>2 DEF LineIInv
<1>10. CASE w_on /\ \E look \in BOOLEAN : w_rxbuf' = Append(w_rxbuf, Line!Changed(look))
  <2>1. PICK look \in BOOLEAN : w_rxbuf' = Append(w_rxbuf, Line!Changed(look))
    BY <1>10
  <2> DEFINE b == Line!Changed(look)
  <2>2. b \in ByteSet
    BY LineNumbers DEF Line!Changed, ByteSet
  <2> HIDE DEF b
  <2>3. w_rxbuf' \in Seq(ByteSet) /\ Len(w_rxbuf') = Len(w_rxbuf) + 1
    BY <1>2, <2>1, <2>2 DEF b
  <2>4. RoomLeft'
    BY <1>1, <1>8, <2>3, RoomForOne
  <2>5. Parsed' = Line!WT61C_ProcessByte(Parsed, b)
    BY <1>2, <1>5, <2>1, <2>2, OneMoreProcessed DEF b
  <2>6. DoneSound(Line!WT61C_ProcessByte(Parsed, b))
    BY <1>2, <2>2, ByteIsParsed
  <2>7. DoneSound(Parsed)'
    BY <2>5, <2>6 DEF DoneSound, ParserSound
  <2>8. QED BY <1>3, <1>4, <1>6, <1>7, <2>3, <2>4, <2>7 DEF LineIInv
<1>11. QED BY <1>1, <1>9, <1>10

(* An event and an error of the line empty the buffer. *)
LEMMA RoomWhenEmpty ==
    ASSUME w_line' \in LineSet, w_rxbuf' = <<>>
    PROVE  RoomLeft'
<1> DEFINE l == w_line'
           before == (l.frame - 1) * FrameLength
<1>1. /\ l.frame \in 1..FrameCount /\ l.place \in 1..FrameLength
      /\ FrameLength \in Nat
  BY LineNumbers DEF LineSet
<1>2. before \in Nat /\ FrameCount * FrameLength \in Nat
  BY <1>1, FrameLengths
<1>3. Len(w_rxbuf') = 0
  OBVIOUS
<1>4. 0 <= before + l.place - 1
  <2> HIDE DEF before
  <2>1. QED BY <1>1, <1>2
<1>5. QED BY <1>2, <1>3, <1>4 DEF RoomLeft

LEMMA LineErr == LineIInv /\ Line!LineError => LineIInv'
<1> SUFFICES ASSUME LineIInv, Line!LineError
             PROVE  LineIInv'
  OBVIOUS
<1> DEFINE start == [p |-> w_parser, data |-> w_data]
<1>1. /\ w_errors < LineConf.MaxErrors /\ w_errors' = w_errors + 1
      /\ w_on' = FALSE /\ w_rxbuf' = <<>> /\ w_clean' = 0
      /\ UNCHANGED <<w_line, w_damage, w_parser, w_data>>
  BY DEF Line!LineError
<1>2. LineCounts /\ w_line \in LineSet /\ DoneSound(start)
  BY DEF LineIInv
<1>3. LineCounts'
  <2>1. LineConf.MaxErrors \in Nat /\ w_errors \in Nat
    BY <1>2, LineNumbers DEF LineCounts
  <2>2. w_errors + 1 \in 0..LineConf.MaxErrors
    BY <1>1, <2>1
  <2>3. w_damage' \in 0..LineConf.MaxDamage
    BY <1>1, <1>2 DEF LineCounts
  <2>4. w_errors' \in 0..LineConf.MaxErrors
    BY <1>1, <2>2
  <2>5. w_clean' \in 0..3
    BY <1>1
  <2>6. w_on' \in BOOLEAN
    BY <1>1, Zenon
  <2>7. QED BY <2>3, <2>4, <2>5, <2>6 DEF LineCounts
<1>4. Parsed' = start
  BY <1>1, NothingProcessed DEF Parsed, Line!WT61C_ProcessBytes
<1>5. DoneSound([p |-> w_parser, data |-> w_data])' /\ DoneSound(Parsed)'
  BY <1>1, <1>2, <1>4 DEF DoneSound, ParserSound
<1>6. w_line' \in LineSet /\ RoomLeft'
  BY <1>1, <1>2, RoomWhenEmpty
<1>7. w_rxbuf' \in Seq(ByteSet) /\ ~w_on'
  BY <1>1
<1>8. QED BY <1>3, <1>5, <1>6, <1>7 DEF LineIInv

LEMMA LineEvent == LineIInv /\ Line!Event => LineIInv'
<1> SUFFICES ASSUME LineIInv, Line!Event
             PROVE  LineIInv'
  OBVIOUS
<1>1. /\ w_parser' = Parsed.p /\ w_data' = Parsed.data /\ w_rxbuf' = <<>>
      /\ UNCHANGED <<w_line, w_damage, w_errors, w_clean, w_on>>
  BY DEF Line!Event, Line!wire, Parsed
<1> DEFINE d == Parsed
<1>2. LineCounts /\ w_line \in LineSet /\ DoneSound(d) /\ (w_on => Found(d, w_line, w_clean))
  BY DEF LineIInv
<1>3. Parsed' = [p |-> Parsed.p, data |-> Parsed.data]
  BY <1>1, NothingProcessed DEF Parsed, Line!WT61C_ProcessBytes
<1>4. LineCounts'
  BY <1>1, <1>2 DEF LineCounts
<1>5. w_line' \in LineSet /\ w_rxbuf' \in Seq(ByteSet) /\ RoomLeft'
  BY <1>1, <1>2, RoomWhenEmpty
<1> HIDE DEF d
<1>6. DoneSound([p |-> d.p, data |-> d.data])
  BY <1>2 DEF DoneSound
<1>7. w_on => Found([p |-> d.p, data |-> d.data], w_line, w_clean)
  BY <1>2 DEF Found, InStep
<1>8. DoneSound([p |-> w_parser, data |-> w_data])' /\ DoneSound(Parsed)'
  BY <1>1, <1>3, <1>6 DEF DoneSound, ParserSound, d
<1>9. w_on' => Found(Parsed', w_line', w_clean')
  BY <1>1, <1>3, <1>7 DEF d
<1>10. QED BY <1>4, <1>5, <1>8, <1>9 DEF LineIInv, Found, InStep, FrameStart

LEMMA LineRests == LineIInv /\ UNCHANGED link => LineIInv'
<1> SUFFICES ASSUME LineIInv, UNCHANGED link
             PROVE  LineIInv'
  OBVIOUS
<1>1. UNCHANGED <<w_line, w_damage, w_errors, w_clean, w_on, w_rxbuf, w_parser, w_data>>
  BY DEF link
<1>2. Parsed' = Parsed
  BY <1>1 DEF Parsed, Line!WT61C_ProcessBytes
<1>3. QED BY <1>1, <1>2
      DEF LineIInv, LineCounts, RoomLeft, DoneSound, ParserSound, Found, InStep,
          FrameStart, Line!AtBurst

LEMMA LineIsSound == LineIInv => Line!LinkInv
<1> SUFFICES ASSUME LineIInv
             PROVE  Line!LinkInv
  OBVIOUS
<1> DEFINE start == [p |-> w_parser, data |-> w_data]
<1>1. /\ LineCounts /\ w_line \in LineSet /\ w_rxbuf \in Seq(ByteSet) /\ RoomLeft
      /\ DoneSound(start) /\ (w_on => Found(Parsed, w_line, w_clean))
  BY DEF LineIInv
<1>2. /\ w_line.frame \in 1..FrameCount /\ w_line.place \in 1..FrameLength
      /\ FrameLength \in Nat /\ FrameCount \in Nat
  BY <1>1, LineNumbers DEF LineSet
<1>3. Len(w_rxbuf) <= FrameLength * FrameCount
  <2> DEFINE before == (w_line.frame - 1) * FrameLength
             all == FrameCount * FrameLength
  <2>1. /\ before \in Nat /\ all \in Nat /\ Len(w_rxbuf) \in Nat
        /\ before + FrameLength <= all
    BY <1>1, <1>2, FrameLengths
  <2>2. Len(w_rxbuf) <= all \/ Len(w_rxbuf) <= before + w_line.place - 1
    BY <1>1 DEF RoomLeft
  <2>3. FrameLength * FrameCount = all
    BY <1>2
  <2> HIDE DEF before, all
  <2>4. Len(w_rxbuf) <= all
    BY <1>2, <2>1, <2>2
  <2>5. QED BY <2>3, <2>4
<1>4. ParserSound(w_parser) /\ w_data \in [Line!KindSet -> 0..BurstCount]
  BY <1>1 DEF DoneSound
<1>5. Line!TypeOK
  <2>1. w_line \in [burst : 1..LineConf.Bursts, frame : Line!Frames,
                    place : 1..LineConf.FrameLen]
    BY <1>1, LineNumbers DEF LineSet, BurstCount, FrameLength
  <2>2. w_parser.st \in {"wait55", "id", "payload"} /\ Len(w_parser.buf) < FrameLength
    BY <1>4 DEF ParserSound
  <2>3. w_data \in [Line!KindSet -> Line!Numbers]
    BY <1>4, LineNumbers
  <2>4. QED BY <1>1, <1>3, <2>1, <2>2, <2>3
        DEF Line!TypeOK, LineCounts, FrameLength, FrameCount
<1>6. Line!TakesWholeFrames
  <2> SUFFICES ASSUME w_on, w_rxbuf = <<>>, w_line.place = 1, w_clean = 3
               PROVE  w_data[LineConf.Kinds[Line!Before(w_line).frame]]
                        = Line!Before(w_line).burst
    BY DEF Line!TakesWholeFrames
  <2>1. Parsed = start
    BY NothingProcessed DEF Parsed, Line!WT61C_ProcessBytes
  <2>2. Found(start, w_line, w_clean)
    BY <1>1, <2>1
  <2>3. QED BY <2>2 DEF Found
<1>7. QED BY <1>5, <1>6 DEF Line!LinkInv

LineSound == part = "line" => LineIInv

(* The parser finds the frames again: for every number and length of frames, *)
(* every damage and every way to cut the bytes into events, after two frames *)
(* without damage it takes each.                                             *)
THEOREM LineHolds == AllSpec => [](part = "line" => Line!LinkInv)
<1>1. AllInit => LineSound
  BY LineStarts DEF AllInit, LinkInit, LineSound
<1>2. LineSound /\ [AllNext]_allVars => LineSound'
  <2> SUFFICES ASSUME LineSound, [AllNext]_allVars, part' = "line"
               PROVE  LineIInv'
    BY DEF LineSound
  <2>1. part = "line" /\ LineIInv
    BY DEF AllNext, allVars, LineSound
  <2>2. Line!Next \/ UNCHANGED link
    BY <2>1 DEF AllNext, allVars
  <2>3. QED BY <2>1, <2>2, LineByte, LineDamage, LineErr, LineEvent, LineRests
        DEF Line!Next
<1>3. LineSound => (part = "line" => Line!LinkInv)
  BY LineIsSound DEF LineSound
<1>4. QED BY <1>1, <1>2, <1>3, PTL DEF AllSpec

(***************************************************************************)
(* The pass of the control task over the data of the inertial unit, for    *)
(* every order of its fields and every line.  While it runs, what the      *)
(* parser holds now is among what it held in this pass (NowIsOfThePass),   *)
(* whatever it parses meanwhile, and so is what was copied                 *)
(* (CopiedIsOfThePass).                                                    *)
(***************************************************************************)
LastField == Len(PassConf.Fields)

NowIsOfThePass ==
    i_pc # 0 => \A k \in Pass!KindSet : w_data[k] \in i_held[k]

CopiedIsOfThePass ==
    i_pc # 0 => \A f \in 1..LastField :
        f < i_pc => i_copied[f] \in i_held[PassConf.Fields[f]]

PassIInv ==
    /\ i_pc \in 0 .. LastField + 1
    /\ i_copied = [f \in 1..LastField |-> i_copied[f]]
    /\ NowIsOfThePass
    /\ CopiedIsOfThePass
    /\ Pass!PublishedIsCurrent

LEMMA FieldsAreKinds ==
    /\ LastField \in Nat \ {0}
    /\ \A f \in 1..LastField : PassConf.Fields[f] \in Pass!KindSet
<1>1. PassConf.Fields \in Seq(Pass!KindSet) /\ PassConf.Fields # <<>>
  BY PassOK DEF Pass!FieldsAssumption
<1> DEFINE K == Pass!KindSet
           F == PassConf.Fields
<1> HIDE DEF K, F
<1>2. F \in Seq(K) /\ F # <<>>
  BY <1>1 DEF K, F
<1>3. Len(F) \in Nat \ {0} /\ \A f \in 1..Len(F) : F[f] \in K
  BY <1>2
<1>4. QED BY <1>3 DEF K, F, LastField

LEMMA PassStarts == Pass!ImuInit => PassIInv
  BY FieldsAreKinds DEF Pass!ImuInit, PassIInv, NowIsOfThePass, CopiedIsOfThePass,
     Pass!PublishedIsCurrent, Pass!Rest, Pass!None, Pass!FieldNames, LastField

LEMMA PassNext == PassIInv /\ Pass!ImuNext => PassIInv'
<1> SUFFICES ASSUME PassIInv, Pass!ImuNext
             PROVE  PassIInv'
  OBVIOUS
<1> USE DEF Pass!Rest, Pass!None, Pass!FieldNames, Pass!PublishAt, LastField
<1> DEFINE F == PassConf.Fields
           n == Len(F)
<1>1. n \in Nat \ {0} /\ \A f \in 1..n : F[f] \in Pass!KindSet
  BY FieldsAreKinds
<1>2. /\ i_pc \in 0 .. n + 1 /\ i_copied = [f \in 1..n |-> i_copied[f]]
      /\ NowIsOfThePass /\ CopiedIsOfThePass /\ Pass!PublishedIsCurrent
  BY DEF PassIInv
<1>3. CASE Pass!Arrive
  <2>1. /\ i_held' = IF i_pc = 0 THEN i_held
                     ELSE [k \in Pass!KindSet |-> i_held[k] \union {w_data'[k]}]
        /\ UNCHANGED <<i_pc, i_initialized, i_copied, i_published>>
    BY <1>3 DEF Pass!Arrive
  <2>2. \A k \in Pass!KindSet :
           /\ i_pc # 0 => w_data'[k] \in i_held'[k]
           /\ \A x : x \in i_held[k] => x \in i_held'[k]
    BY <2>1
  <2>3. NowIsOfThePass'
    BY <2>1, <2>2 DEF NowIsOfThePass, Pass!KindSet, Pass!Frames
  <2>4. CopiedIsOfThePass'
    BY <1>1, <1>2, <2>1, <2>2 DEF CopiedIsOfThePass
  <2>5. Pass!PublishedIsCurrent'
    BY <1>1, <1>2, <2>1, <2>2 DEF Pass!PublishedIsCurrent
  <2>6. QED BY <1>2, <2>1, <2>3, <2>4, <2>5 DEF PassIInv
<1>4. CASE Pass!SetUp
  BY <1>2, <1>4 DEF Pass!SetUp, PassIInv, NowIsOfThePass, CopiedIsOfThePass,
     Pass!PublishedIsCurrent, Pass!KindSet, Pass!Frames, Pass!link, Pass!vars, Pass!wire
<1>5. CASE Pass!Begin
  <2>1. /\ i_pc' = 1 /\ i_held' = [k \in Pass!KindSet |-> {w_data[k]}]
        /\ UNCHANGED <<w_data, i_copied>>
    BY <1>5 DEF Pass!Begin, Pass!link, Pass!vars
  <2>2. NowIsOfThePass'
    BY <2>1 DEF NowIsOfThePass, Pass!KindSet, Pass!Frames
  <2>3. CopiedIsOfThePass' /\ Pass!PublishedIsCurrent'
    BY <1>1, <2>1 DEF CopiedIsOfThePass, Pass!PublishedIsCurrent
  <2>4. QED BY <1>1, <1>2, <2>1, <2>2, <2>3 DEF PassIInv
<1>6. CASE Pass!Copy
  <2>1. /\ i_pc \in 1..n /\ i_pc' = i_pc + 1
        /\ i_copied' = [i_copied EXCEPT ![i_pc] = w_data[F[i_pc]]]
        /\ UNCHANGED <<w_data, i_held>>
    BY <1>6 DEF Pass!Copy, Pass!link, Pass!vars
  <2>2. w_data[F[i_pc]] \in i_held[F[i_pc]]
    BY <1>1, <1>2, <2>1 DEF NowIsOfThePass
  <2>3. \A f \in 1..n : i_copied'[f] = IF f = i_pc THEN w_data[F[i_pc]] ELSE i_copied[f]
    BY <1>2, <2>1
  <2>4. i_copied' = [f \in 1..n |-> i_copied'[f]] /\ i_pc' \in 0 .. n + 1
    <3> HIDE DEF n
    <3>1. i_pc + 1 \in 0 .. n + 1
      BY <1>1, <2>1
    <3>2. [i_copied EXCEPT ![i_pc] = w_data[F[i_pc]]]
            = [f \in 1..n |-> [i_copied EXCEPT ![i_pc] = w_data[F[i_pc]]][f]]
      BY <1>2 DEF n
    <3>3. QED BY <2>1, <3>1, <3>2, Zenon
  <2>5. CopiedIsOfThePass'
    <3> SUFFICES ASSUME NEW f \in 1..n, f < i_pc + 1
                 PROVE  i_copied'[f] \in i_held[F[f]]
      BY <2>1 DEF CopiedIsOfThePass
    <3>1. CASE f = i_pc
      BY <2>2, <2>3, <3>1
    <3>2. CASE f # i_pc
      <4>1. f < i_pc /\ i_pc # 0
        <5> HIDE DEF n
        <5>1. QED BY <1>1, <2>1, <3>2
      <4>2. i_copied[f] \in i_held[F[f]]
        BY <1>2, <4>1 DEF CopiedIsOfThePass
      <4>3. QED BY <2>3, <3>2, <4>2
    <3>3. QED BY <3>1, <3>2
  <2>6. NowIsOfThePass'
    BY <1>2, <2>1 DEF NowIsOfThePass, Pass!KindSet, Pass!Frames
  <2>7. Pass!PublishedIsCurrent'
    BY <1>1, <2>1 DEF Pass!PublishedIsCurrent
  <2>8. QED BY <2>4, <2>5, <2>6, <2>7 DEF PassIInv
<1>7. CASE Pass!Publish
  <2>1. /\ i_pc = n + 1 /\ i_pc' = 0 /\ i_published' = i_copied
        /\ UNCHANGED <<w_data, i_copied, i_held>>
    BY <1>7 DEF Pass!Publish, Pass!link, Pass!vars
  <2>2. \A f \in 1..n : i_copied[f] \in i_held[F[f]]
    <3> SUFFICES ASSUME NEW f \in 1..n
                 PROVE  i_copied[f] \in i_held[F[f]]
      OBVIOUS
    <3>1. f < i_pc /\ i_pc # 0
      <4> HIDE DEF n
      <4>1. QED BY <1>1, <2>1
    <3>2. QED BY <1>2, <3>1 DEF CopiedIsOfThePass
  <2>3. Pass!PublishedIsCurrent'
    BY <2>1, <2>2 DEF Pass!PublishedIsCurrent
  <2>4. NowIsOfThePass' /\ CopiedIsOfThePass'
    BY <2>1 DEF NowIsOfThePass, CopiedIsOfThePass
  <2>5. QED BY <1>1, <1>2, <2>1, <2>3, <2>4 DEF PassIInv
<1>8. QED BY <1>3, <1>4, <1>5, <1>6, <1>7 DEF Pass!ImuNext

LEMMA PassRests == PassIInv /\ UNCHANGED <<link, task>> => PassIInv'
  BY DEF PassIInv, NowIsOfThePass, CopiedIsOfThePass, Pass!PublishedIsCurrent,
     Pass!KindSet, Pass!Frames, Pass!Rest, Pass!None, Pass!FieldNames, link, task

PassSound == part = "pass" => PassIInv

(* What a pass publishes is of that pass, whatever the line does and       *)
(* however its interrupt falls between the fields.                         *)
THEOREM PassHolds == AllSpec => []PassIsCurrent
<1>1. AllInit => PassSound
  BY PassStarts DEF AllInit, PassInit, PassSound
<1>2. PassSound /\ [AllNext]_allVars => PassSound'
  <2> SUFFICES ASSUME PassSound, [AllNext]_allVars, part' = "pass"
               PROVE  PassIInv'
    BY DEF PassSound
  <2>1. part = "pass" /\ PassIInv
    BY DEF AllNext, allVars, PassSound
  <2>2. Pass!ImuNext \/ UNCHANGED <<link, task>>
    BY <2>1 DEF AllNext, allVars
  <2>3. QED BY <2>1, <2>2, PassNext, PassRests
<1>3. PassSound => PassIsCurrent
  BY DEF PassSound, PassIInv, PassIsCurrent
<1>4. QED BY <1>1, <1>2, <1>3, PTL DEF AllSpec

(* The unit and its line, and the pass that copies its data. *)
THEOREM ImuHolds == AllSpec => []ImuInv
  BY LineHolds, PassHolds, PTL DEF ImuInv

==============================================================================
