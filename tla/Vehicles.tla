------------------------------ MODULE Vehicles ------------------------------
(***************************************************************************)
(* The vehicles of the instructors.  upsertByInstructor looks for a        *)
(* vehicle of the instructor and then, in one transaction, updates it or   *)
(* creates one and writes hasDoubleCommand on the instructor; POST creates *)
(* vehicles, plates are unique, and only the owner changes the photo.      *)
(***************************************************************************)
EXTENDS FiniteSets, Handlers

CONSTANTS
    Instructors,
    VehicleIds,     \* bound: the vehicles that are ever created
    Plates,         \* the plates clients send
    EmptyPlate      \* what is stored for a vehicle created without one

ASSUME VehiclesAssumption ==
    /\ None \notin Instructors /\ None \notin VehicleIds /\ None \notin Plates
    /\ EmptyPlate \in Plates

VARIABLES
    vehicle,        \* [VehicleIds -> Vehicle row]
    garage,         \* [Requests -> upsertByInstructor, updatePhoto]
    posted,         \* history: vehicles created by POST or by registration
    contended       \* history: instructors for whom an upsert ran beside another creation

vehiclesVars == <<vehicle, garage, posted, contended>>

VehicleRow == [owner : Instructors \cup {None}, plate : Plates \cup {None}, photo : BOOLEAN]

NoVehicle == [owner |-> None, plate |-> None, photo |-> FALSE]

GarageSlot ==
    [at : {"idle", "upsert", "photo"}, instructor : Instructors \cup {None},
     vehicle : VehicleIds \cup {None}, plate : Plates \cup {None}, photo : BOOLEAN]

NoGarage ==
    [at |-> "idle", instructor |-> None, vehicle |-> None, plate |-> None, photo |-> FALSE]

VehiclesInit ==
    /\ vehicle = [v \in VehicleIds |-> NoVehicle]
    /\ garage = [r \in Requests |-> NoGarage]
    /\ posted = {} /\ contended = {}

VehiclesOf(i) == {v \in VehicleIds : vehicle[v].owner = i}
FreePlate(v, p) == \A w \in VehicleIds : w # v => vehicle[w].plate # p
Upserting(i) == {r \in Requests : garage[r].at = "upsert" /\ garage[r].instructor = i}

Parked(r) == garage' = [garage EXCEPT ![r] = NoGarage]

NewVehicle(v, i, p) ==
    /\ vehicle[v] = NoVehicle /\ FreePlate(v, p)
    /\ vehicle' = [vehicle EXCEPT ![v] = [owner |-> i, plate |-> p, photo |-> FALSE]]

\* create, and the vehicle that register nests in the instructor.
PostVehicle(v, i, p) ==
    /\ NewVehicle(v, i, p)
    /\ posted' = posted \cup {v}
    /\ contended' = IF Upserting(i) = {} THEN contended ELSE contended \cup {i}
    /\ UNCHANGED garage

(***************************************************************************)
(* upsertByInstructor                                                      *)
(***************************************************************************)
\* Mutant: the vehicle is looked for by the plate.
FindVehicle_ByPlate(r, i, p) ==
    /\ garage[r].at = "idle"
    /\ \E v \in {w \in VehiclesOf(i) : vehicle[w].plate = p} \cup {None} :
         /\ v = None => \A w \in VehiclesOf(i) : vehicle[w].plate # p
         /\ garage' = [garage EXCEPT ![r] =
                [at |-> "upsert", instructor |-> i, vehicle |-> v, plate |-> p, photo |-> FALSE]]
    /\ contended' = IF Upserting(i) = {} THEN contended ELSE contended \cup {i}
    /\ UNCHANGED <<vehicle, posted>>

\* Any of them, if there are several: the query states no order.
FindVehicle(r, i, p) ==
    /\ garage[r].at = "idle"
    /\ \E v \in IF VehiclesOf(i) = {} THEN {None} ELSE VehiclesOf(i) :
         garage' = [garage EXCEPT ![r] =
                [at |-> "upsert", instructor |-> i, vehicle |-> v, plate |-> p, photo |-> FALSE]]
    /\ contended' = IF Upserting(i) = {} THEN contended ELSE contended \cup {i}
    /\ UNCHANGED <<vehicle, posted>>

UpdateVehicle(r) ==
    LET v == garage[r].vehicle IN
    /\ garage[r].at = "upsert" /\ v # None
    /\ garage[r].plate # None => FreePlate(v, garage[r].plate)
    /\ vehicle' = IF garage[r].plate = None THEN vehicle
                  ELSE [vehicle EXCEPT ![v] = [@ EXCEPT !.plate = garage[r].plate]]
    /\ Parked(r)
    /\ UNCHANGED <<posted, contended>>

CreateVehicle(r, v) ==
    /\ garage[r].at = "upsert" /\ garage[r].vehicle = None
    /\ NewVehicle(v, garage[r].instructor,
                  IF garage[r].plate = None THEN EmptyPlate ELSE garage[r].plate)
    /\ Parked(r)
    /\ UNCHANGED <<posted, contended>>

\* A plate that is taken rolls the transaction back, as a crash does.
GarageFails(r) ==
    /\ garage[r].at # "idle"
    /\ Parked(r)
    /\ UNCHANGED <<vehicle, posted, contended>>

(***************************************************************************)
(* updatePhoto, removePhoto                                                *)
(***************************************************************************)
FindForPhoto(r, i, v, photo) ==
    /\ garage[r].at = "idle" /\ vehicle[v].owner = i
    /\ garage' = [garage EXCEPT ![r] =
            [at |-> "photo", instructor |-> i, vehicle |-> v, plate |-> None, photo |-> photo]]
    /\ UNCHANGED <<vehicle, posted, contended>>

SavePhoto(r) ==
    /\ garage[r].at = "photo"
    /\ vehicle' = [vehicle EXCEPT ![garage[r].vehicle] = [@ EXCEPT !.photo = garage[r].photo]]
    /\ Parked(r)
    /\ UNCHANGED <<posted, contended>>

VehiclesNext ==
    \/ \E i \in Instructors :
         \/ \E v \in VehicleIds, p \in Plates : PostVehicle(v, i, p)
         \/ \E r \in Requests, p \in Plates \cup {None} : FindVehicle(r, i, p)
    \/ \E r \in Requests :
         \/ UpdateVehicle(r) \/ GarageFails(r) \/ SavePhoto(r)
         \/ \E v \in VehicleIds : CreateVehicle(r, v)
         \/ \E i \in Instructors, v \in VehicleIds, photo \in BOOLEAN : FindForPhoto(r, i, v, photo)

VehiclesSpec == VehiclesInit /\ [][VehiclesNext]_vehiclesVars

(***************************************************************************)
(* Properties                                                              *)
(***************************************************************************)
\* Rows and requests have the columns and values of the code.
VehiclesTypeOK ==
    /\ vehicle \in [VehicleIds -> VehicleRow]
    /\ garage \in [Requests -> GarageSlot]
    /\ posted \subseteq VehicleIds /\ contended \subseteq Instructors

\* PATCH keeps one vehicle for an instructor: it adds none to those there are,
\* whatever plates are changed or refused and wherever requests die, unless two
\* PATCHes, or a PATCH and a POST, of one instructor ran side by side.
OneVehicle ==
    \A i \in Instructors \ contended : \A v, w \in VehiclesOf(i) \ posted : v = w

(***************************************************************************)
(* What makes it so                                                        *)
(***************************************************************************)
GarageInv(r) ==
    LET slot == garage[r] IN
    /\ slot.at = "idle" => slot = NoGarage
    /\ slot.at = "upsert" =>
         /\ slot.instructor \in Instructors
         /\ slot.vehicle # None => slot.vehicle \in VehiclesOf(slot.instructor)
         /\ slot.instructor \notin contended =>
              /\ slot.vehicle = None => VehiclesOf(slot.instructor) = {}
              /\ Upserting(slot.instructor) = {r}
    /\ slot.at = "photo" => slot.vehicle \in VehiclesOf(slot.instructor) /\ slot.instructor # None

\* Inductive.
VehiclesInv ==
    /\ VehiclesTypeOK
    /\ OneVehicle
    /\ \A r \in Requests : GarageInv(r)
=============================================================================
