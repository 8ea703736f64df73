------------------------------ MODULE ImuLink ------------------------------
(***************************************************************************)
(* The pass of the control task that copies what the chassis unit sent     *)
(* into the published sensor data (gyro_data_update,                       *)
(* modules/imu/gyro_data.c).  The interrupt that parses the line may come  *)
(* between any two fields of the copy.                                     *)
(***************************************************************************)
EXTENDS WitLink

CONSTANT Fields          \* the kinds of the fields copied by a pass, in order

(* What MCMotion assumes of each instance. *)
FieldsAssumption ==
    Fields \in Seq(KindSet) /\ Fields # <<>>

VARIABLES
    pc,                  \* where the pass is
    initialized,         \* the attitude filter has been set up
    s_sensor_data,       \* per field: the value copied
    published,           \* TOPIC_IMU_UPDATE, None before the first
    held                 \* history: per kind, the values s_data held in the pass

link == vars
task == <<pc, initialized, s_sensor_data, published, held>>
imuVars == <<link, task>>

FieldNames == 1..Len(Fields)
None == <<>>
Rest == 0
PublishAt == Len(Fields) + 1

ImuInit ==
    /\ Init
    /\ pc = Rest /\ initialized = FALSE
    /\ s_sensor_data = [f \in FieldNames |-> 0]
    /\ published = None /\ held = [k \in KindSet |-> {}]

(* The line, and its interrupt. *)
Arrive ==
    /\ Next
    /\ held' = IF pc = Rest THEN held
               ELSE [k \in KindSet |-> held[k] \union {s_data'[k]}]
    /\ UNCHANGED <<pc, initialized, s_sensor_data, published>>

(***************************************************************************)
(* gyro_data_update: the first pass only sets up the attitude filter.      *)
(***************************************************************************)
SetUp ==
    /\ pc = Rest /\ ~initialized
    /\ initialized' = TRUE
    /\ UNCHANGED <<link, pc, s_sensor_data, published, held>>

Begin ==
    /\ pc = Rest /\ initialized
    /\ pc' = 1
    /\ held' = [k \in KindSet |-> {s_data[k]}]
    /\ UNCHANGED <<link, initialized, s_sensor_data, published>>

Copy ==
    /\ pc \in FieldNames
    /\ s_sensor_data' = [s_sensor_data EXCEPT ![pc] = s_data[Fields[pc]]]
    /\ pc' = pc + 1
    /\ UNCHANGED <<link, initialized, published, held>>

(* Mutant: the data are published before they are copied, as they are      *)
(* logged.                                                                 *)
Publish_First ==
    /\ \/ pc = 1 /\ pc' = 2 /\ published' = s_sensor_data
       \/ pc = PublishAt /\ pc' = Rest /\ UNCHANGED published
    /\ s_sensor_data' = [s_sensor_data EXCEPT ![1] = s_data[Fields[1]]]
    /\ UNCHANGED <<link, initialized, held>>

Publish ==
    /\ pc = PublishAt
    /\ published' = s_sensor_data /\ pc' = Rest
    /\ UNCHANGED <<link, initialized, s_sensor_data, held>>

ImuNext == Arrive \/ SetUp \/ Begin \/ Copy \/ Publish

ImuSpec == ImuInit /\ [][ImuNext]_imuVars

(***************************************************************************)
(* Properties.                                                             *)
(***************************************************************************)
(* The values a pass publishes are of that pass: s_data held each of them  *)
(* when the pass began, or got it while the pass ran.  They need not be of *)
(* one frame.                                                              *)
PublishedIsCurrent ==
    pc = Rest /\ published # None
        => \A f \in FieldNames : published[f] \in held[Fields[f]]

=============================================================================
