--------------------------- MODULE Services_proofs ---------------------------
(***************************************************************************)
(* The guarantees of the small services, for any number of requests and of *)
(* batches, lessons, grids, seeds and vehicles.                            *)
(***************************************************************************)
EXTENDS Services, PasswordReset_proofs, FiniteSetTheorems

(***************************************************************************)
(* Telemetry                                                               *)
(***************************************************************************)
LEMMA TelemetryInitInv == TelemetryInit => TelemetryInv
<1> SUFFICES ASSUME TelemetryInit PROVE TelemetryInv
  OBVIOUS
<1> USE DEF TelemetryInit
<1>1. record \in RecordRow /\ seal \in [acked : SUBSET Batches, admitted : SUBSET Batches]
  BY DEF RecordRow
<1>2. NoCheckOut \in CheckOutSlot
  BY DEF NoCheckOut, CheckOutSlot
<1>3. TelemetryTypeOK
  BY <1>1, <1>2 DEF TelemetryTypeOK
<1>4. HashCoversTelemetry /\ SealInv
  BY DEF HashCoversTelemetry, SealInv
<1>5. EventsMatchTelemetry
  BY DEF EventsMatchTelemetry, BatchesAt
<1>6. \A b \in Batches : BatchInv(b)
  BY DEF BatchInv
<1>7. \A r \in Requests : CheckOutInv(r)
  BY DEF CheckOutInv, NoCheckOut
<1> QED BY <1>3, <1>4, <1>5, <1>6, <1>7 DEF TelemetryInv

LEMMA RegisterBatchStep ==
    ASSUME TelemetryInv, NEW b \in Batches, RegisterBatch(b) PROVE TelemetryInv'
BY DEF TelemetryInv, TelemetryTypeOK, HashCoversTelemetry, EventsMatchTelemetry, SealInv,
       BatchesAt, BatchInv, CheckOutInv, RegisterBatch, Advance

LEMMA StorePointsStep ==
    ASSUME TelemetryInv, NEW b \in Batches, StorePoints(b) PROVE TelemetryInv'
BY DEF TelemetryInv, TelemetryTypeOK, HashCoversTelemetry, EventsMatchTelemetry, SealInv,
       BatchesAt, BatchInv, CheckOutInv, StorePoints, Advance

LEMMA AnalyzeStep ==
    ASSUME TelemetryInv, NEW b \in Batches, AnalyzeTelemetry(b) PROVE TelemetryInv'
<1> USE DEF TelemetryInv, TelemetryTypeOK, AnalyzeTelemetry, Advance
<1>0. Velocities[b] \subseteq Nat
  BY TelemetryAssumption
<1>1. SpeedEvents(b) \subseteq Batches \X Nat
  <2>1. \A v \in Velocities[b] : <<b, v>> \in Batches \X Nat
    BY <1>0
  <2> QED BY <2>1 DEF SpeedEvents
<1>2. \A e \in SpeedEvents(b) : e[1] = b /\ e[2] > SPEED_THRESHOLD
  BY <1>0 DEF SpeedEvents
<1>3. TelemetryTypeOK'
  BY <1>1
<1>4. HashCoversTelemetry' /\ SealInv'
  BY DEF HashCoversTelemetry, SealInv
<1>5. b \in stored
  BY DEF BatchInv
<1>6. EventsMatchTelemetry'
  <2>1. \A e \in events' : e[1] \in stored' /\ e[2] > SPEED_THRESHOLD
    BY <1>2, <1>5 DEF EventsMatchTelemetry
  <2>2. \A v \in Velocities[b] : v > SPEED_THRESHOLD => <<b, v>> \in events'
    BY DEF SpeedEvents
  <2> QED BY <2>1, <2>2 DEF EventsMatchTelemetry, BatchesAt
<1>7. \A c \in Batches : BatchInv(c)'
  BY <1>5 DEF BatchInv
<1>8. \A r \in Requests : CheckOutInv(r)'
  BY DEF CheckOutInv
<1> QED BY <1>3, <1>4, <1>6, <1>7, <1>8

LEMMA BatchCrashStep ==
    ASSUME TelemetryInv, NEW b \in Batches, BatchCrash(b) PROVE TelemetryInv'
BY DEF TelemetryInv, TelemetryTypeOK, HashCoversTelemetry, EventsMatchTelemetry, SealInv,
       BatchesAt, BatchInv, CheckOutInv, BatchCrash, Advance

LEMMA CheckOutStep ==
    ASSUME TelemetryInv, NEW r \in Requests,
           GenerateLessonHash(r) \/ SaveCheckOut(r) \/ CheckOutCrash(r)
    PROVE  TelemetryInv'
<1>1. CASE GenerateLessonHash(r)
  BY <1>1 DEF TelemetryInv, TelemetryTypeOK, HashCoversTelemetry, EventsMatchTelemetry, SealInv,
       BatchesAt, BatchInv, CheckOutInv, CheckOutSlot, GenerateLessonHash
<1>2. CASE SaveCheckOut(r)
  BY <1>2 DEF TelemetryInv, TelemetryTypeOK, HashCoversTelemetry, EventsMatchTelemetry, SealInv,
       BatchesAt, BatchInv, CheckOutInv, CheckOutSlot, NoCheckOut, RecordRow, SaveCheckOut
<1>3. CASE CheckOutCrash(r)
  BY <1>3 DEF TelemetryInv, TelemetryTypeOK, HashCoversTelemetry, EventsMatchTelemetry, SealInv,
       BatchesAt, BatchInv, CheckOutInv, CheckOutSlot, NoCheckOut, CheckOutCrash
<1> QED BY <1>1, <1>2, <1>3

LEMMA LessonWrittenStep ==
    ASSUME TelemetryInv,
           \/ ReopenByCheckIn
           \/ \E closed \in BOOLEAN, hash \in {"absent", "null", "text"} : PatchLesson(closed, hash)
    PROVE  TelemetryInv'
<1>1. CASE ReopenByCheckIn
  BY <1>1 DEF TelemetryInv, TelemetryTypeOK, HashCoversTelemetry, EventsMatchTelemetry, SealInv,
       BatchesAt, BatchInv, CheckOutInv, RecordRow, ReopenByCheckIn
<1>2. ASSUME NEW closed \in BOOLEAN, NEW hash \in {"absent", "null", "text"}, PatchLesson(closed, hash)
      PROVE  TelemetryInv'
  BY <1>2 DEF TelemetryInv, TelemetryTypeOK, HashCoversTelemetry, EventsMatchTelemetry, SealInv,
       BatchesAt, BatchInv, CheckOutInv, RecordRow, PatchLesson
<1> QED BY <1>1, <1>2

LEMMA TelemetryStep == TelemetryInv /\ [TelemetryNext]_telemetryVars => TelemetryInv'
<1>1. CASE UNCHANGED telemetryVars
  BY <1>1 DEF TelemetryInv, TelemetryTypeOK, HashCoversTelemetry, EventsMatchTelemetry, SealInv,
       BatchesAt, BatchInv, CheckOutInv, telemetryVars
<1>2. CASE TelemetryNext
  BY <1>2, RegisterBatchStep, StorePointsStep, AnalyzeStep, BatchCrashStep, CheckOutStep,
     LessonWrittenStep DEF TelemetryNext
<1> QED BY <1>1, <1>2

\* The hash of a check-out covers what was acknowledged when it was computed, however
\* many batches and check-outs overlap.
THEOREM HashCovers == TelemetrySpec => []HashCoversTelemetry
<1>1. TelemetryInv => HashCoversTelemetry BY DEF TelemetryInv
<1> QED BY <1>1, TelemetryInitInv, TelemetryStep, PTL DEF TelemetrySpec

\* Points and speeding events agree, wherever servers die.
THEOREM EventsMatch == TelemetrySpec => []EventsMatchTelemetry
<1>1. TelemetryInv => EventsMatchTelemetry BY DEF TelemetryInv
<1> QED BY <1>1, TelemetryInitInv, TelemetryStep, PTL DEF TelemetrySpec

(***************************************************************************)
(* Availability                                                            *)
(***************************************************************************)
LEMMA AvailabilityInitInv == AvailabilityInit => AvailabilityInv
BY AvailabilityAssumption
   DEF AvailabilityInit, AvailabilityInv, AvailabilityTypeOK, GridIsReplaced, GridInv

LEMMA AvailabilityStep == AvailabilityInv /\ [AvailabilityNext]_availabilityVars => AvailabilityInv'
<1> SUFFICES ASSUME AvailabilityInv, [AvailabilityNext]_availabilityVars PROVE AvailabilityInv'
  OBVIOUS
<1> USE AvailabilityAssumption
<1>1. CASE UNCHANGED availabilityVars
  BY <1>1 DEF AvailabilityInv, AvailabilityTypeOK, GridIsReplaced, GridInv, RowsOf, availabilityVars
<1>2. ASSUME NEW g \in Grids, PostAvailability(g) PROVE AvailabilityInv'
  BY <1>2 DEF AvailabilityInv, AvailabilityTypeOK, GridIsReplaced, GridInv, RowsOf, Replacing,
       PostAvailability
<1>3. ASSUME NEW g \in Grids, StartReplace(g) PROVE AvailabilityInv'
  BY <1>3 DEF AvailabilityInv, AvailabilityTypeOK, GridIsReplaced, GridInv, RowsOf, Replacing,
       StartReplace
<1>4. ASSUME NEW g \in Grids, DeleteRows(g) PROVE AvailabilityInv'
  BY <1>4 DEF AvailabilityInv, AvailabilityTypeOK, GridIsReplaced, GridInv, RowsOf, Replacing,
       DeleteRows
<1>5. ASSUME NEW g \in Grids, CommitReplace(g) PROVE AvailabilityInv'
  BY <1>5 DEF AvailabilityInv, AvailabilityTypeOK, GridIsReplaced, GridInv, RowsOf, Replacing,
       CommitReplace
<1>6. ASSUME NEW g \in Grids, Rollback(g) PROVE AvailabilityInv'
  BY <1>6 DEF AvailabilityInv, AvailabilityTypeOK, GridIsReplaced, GridInv, RowsOf, Rollback
<1> QED BY <1>1, <1>2, <1>3, <1>4, <1>5, <1>6 DEF AvailabilityNext

\* After a PUT the grid holds its rows and none of those it found, for any number of
\* PUTs and POSTs side by side.
THEOREM GridReplaced == AvailabilitySpec => []GridIsReplaced
<1>1. AvailabilityInv => GridIsReplaced BY DEF AvailabilityInv
<1> QED BY <1>1, AvailabilityInitInv, AvailabilityStep, PTL DEF AvailabilitySpec

(***************************************************************************)
(* Academy                                                                 *)
(***************************************************************************)
LEMMA AcademyInitInv == AcademyInit => AcademyInv
<1> USE AcademyAssumption DEF AcademyInit
<1>1. NoEntry \in Entry /\ NoReader \in ReaderSlot
  BY DEF NoEntry, Entry, NoReader, ReaderSlot
<1>2. AcademyInit => AcademyTypeOK
  BY <1>1 DEF AcademyTypeOK
<1> QED BY <1>2 DEF AcademyInv, ReaderInv, NoEntry, NoReader

LEMMA GetSimuladoStep ==
    ASSUME AcademyInv, NEW r \in Requests, MissCache(r) \/ ReadPool(r) \/ CachePool(r)
    PROVE  AcademyInv'
<1> USE AcademyAssumption DEF AcademyInv, AcademyTypeOK, ReaderInv
<1>0. CASE MissCache(r)
  BY <1>0 DEF MissCache, ReaderSlot
<1>1. CASE ReadPool(r)
  BY <1>1 DEF ReadPool, ReaderSlot
<1>2. CASE CachePool(r)
  <2>1. reader[r] \in ReaderSlot /\ NoReader \in ReaderSlot
    BY DEF NoReader, ReaderSlot
  <2>2. cache' \in Entry
    BY <1>2, <2>1 DEF CachePool, Entry, ReaderSlot
  <2>3. AcademyTypeOK'
    BY <1>2, <2>1, <2>2 DEF CachePool
  <2>4. cache'.age = 0 /\ (~cache'.late => cache'.pool = questions')
    BY <1>2 DEF CachePool
  <2>5. \A q \in Requests : ReaderInv(q)'
    BY <1>2 DEF CachePool, NoReader
  <2> QED BY <2>3, <2>4, <2>5
<1> QED BY <1>0, <1>1, <1>2

LEMMA ClockStep == ASSUME AcademyInv, AcademyCrash \/ TickCache PROVE AcademyInv'
<1> USE AcademyAssumption DEF AcademyInv, AcademyTypeOK, ReaderInv
<1>0. NoEntry \in Entry /\ NoReader \in ReaderSlot
  BY DEF NoEntry, Entry, NoReader, ReaderSlot
<1>1. CASE AcademyCrash
  BY <1>0, <1>1 DEF AcademyCrash, NoEntry, NoReader
<1>2. CASE TickCache
  <2>1. CASE cache' = NoEntry
    BY <1>0, <1>2, <2>1 DEF TickCache, NoEntry
  <2>2. CASE cache.cached /\ cache.age + 1 # SIMULADO_CACHE_TTL
    <3>1. cache.age + 1 \in 0..SIMULADO_CACHE_TTL /\ cache.age + 1 < SIMULADO_CACHE_TTL
      BY <2>2 DEF Entry
    <3>2. cache' = [cache EXCEPT !.age = @ + 1]
      BY <1>2, <2>2 DEF TickCache, CacheAges
    <3>3. cache' \in Entry
      BY <3>1, <3>2 DEF Entry
    <3>4. /\ cache'.age = cache.age + 1
          /\ cache'.pool = cache.pool /\ cache'.late = cache.late /\ cache'.cached = cache.cached
      BY <3>2 DEF Entry
    <3>5. sinceChange' \in 0..SIMULADO_CACHE_TTL /\ sinceChange' <= sinceChange + 1
      BY <1>2 DEF TickCache
    <3>6. cache'.cached /\ ~cache'.late /\ cache'.pool # questions' => sinceChange' <= cache'.age
      <4>1. cache.age \in Nat /\ sinceChange \in Nat /\ sinceChange' \in Nat
        BY <3>5 DEF Entry
      <4>2. cache.cached /\ ~cache.late /\ cache.pool # questions => sinceChange <= cache.age
        OBVIOUS
      <4>3. questions' = questions
        BY <1>2 DEF TickCache
      <4>4. cache'.cached /\ ~cache'.late /\ cache'.pool # questions' => sinceChange <= cache.age
        BY <3>4, <4>2, <4>3
      <4>5. sinceChange <= cache.age => sinceChange' <= cache'.age
        BY <3>4, <3>5, <4>1
      <4> QED BY <4>4, <4>5
    <3>7. \A q \in Requests : ReaderInv(q)'
      BY <1>2 DEF TickCache
    <3> QED BY <1>2, <3>1, <3>3, <3>4, <3>5, <3>6, <3>7 DEF TickCache
  <2> QED BY <1>2, <2>1, <2>2 DEF TickCache, CacheAges
<1> QED BY <1>1, <1>2

LEMMA SeedStep ==
    ASSUME AcademyInv, NEW s \in Seeds, DeleteQuestions(s) \/ CreateQuestions(s) \/ SeedCrash(s)
    PROVE  AcademyInv'
<1> USE AcademyAssumption DEF AcademyInv, AcademyTypeOK, ReaderInv
<1>1. ASSUME NEW rows \in SUBSET Seeds, TableChanges(rows),
             seeding' \in [Seeds -> {"new", "create", "done", "lost"}]
      PROVE  AcademyInv'
  <2>1. reader' \in [Requests -> ReaderSlot]
    <3>1. \A q \in Requests : [reader[q] EXCEPT !.late = TRUE] \in ReaderSlot
      BY DEF ReaderSlot
    <3> QED BY <1>1, <3>1 DEF TableChanges
  <2>2. sinceChange' \in 0..SIMULADO_CACHE_TTL
    BY <1>1 DEF TableChanges
  <2>3. cache.age \in 0..SIMULADO_CACHE_TTL
    BY DEF Entry
  <2>4. cache.cached /\ ~cache.late /\ cache.pool # questions' => sinceChange' <= cache.age
    BY <1>1, <2>3 DEF TableChanges
  <2>5. \A q \in Requests : ReaderInv(q)'
    BY <1>1 DEF TableChanges, ReaderSlot
  <2> QED BY <1>1, <2>1, <2>2, <2>4, <2>5 DEF TableChanges
<1>2. CASE DeleteQuestions(s)
  BY <1>1, <1>2 DEF DeleteQuestions
<1>3. CASE CreateQuestions(s)
  BY <1>1, <1>3 DEF CreateQuestions
<1>4. CASE SeedCrash(s)
  BY <1>4 DEF SeedCrash
<1> QED BY <1>2, <1>3, <1>4

LEMMA AcademyStep == AcademyInv /\ [AcademyNext]_academyVars => AcademyInv'
<1>1. CASE UNCHANGED academyVars
  BY <1>1 DEF academyVars, AcademyInv, AcademyTypeOK, ReaderInv
<1>2. CASE AcademyNext
  BY <1>2, GetSimuladoStep, ClockStep, SeedStep DEF AcademyNext
<1> QED BY <1>1, <1>2

\* An old pool is served for less than the life of its entry, whatever that life is
\* and however many runs of the seed there are.
THEOREM PoolRecent == AcademySpec => []PoolIsRecent
<1>1. AcademyInv => PoolIsRecent
  BY AcademyAssumption DEF AcademyInv, AcademyTypeOK, Entry, PoolIsRecent
<1> QED BY <1>1, AcademyInitInv, AcademyStep, PTL DEF AcademySpec

(***************************************************************************)
(* Vehicles                                                                *)
(***************************************************************************)
LEMMA VehiclesInitInv == VehiclesInit => VehiclesInv
<1>1. NoVehicle \in VehicleRow /\ NoGarage \in GarageSlot
  BY DEF NoVehicle, VehicleRow, NoGarage, GarageSlot
<1>2. VehiclesInit => VehiclesTypeOK
  BY <1>1 DEF VehiclesInit, VehiclesTypeOK
<1>3. VehiclesInit => \A i \in Instructors : VehiclesOf(i) = {}
  BY VehiclesAssumption DEF VehiclesInit, VehiclesOf, NoVehicle
<1> QED BY <1>2, <1>3 DEF VehiclesInit, VehiclesInv, OneVehicle, GarageInv, NoGarage

LEMMA PostVehicleStep ==
    ASSUME VehiclesInv, NEW i \in Instructors, NEW v \in VehicleIds, NEW p \in Plates,
           PostVehicle(v, i, p)
    PROVE  VehiclesInv'
<1> USE VehiclesAssumption DEF VehiclesInv, VehiclesTypeOK, PostVehicle, NewVehicle
<1>1. [owner |-> i, plate |-> p, photo |-> FALSE] \in VehicleRow
  BY DEF VehicleRow
<1>2. VehiclesTypeOK'
  BY <1>1
<1>3. VehiclesOf(i)' = VehiclesOf(i) \cup {v}
  BY <1>1 DEF VehiclesOf
<1>4. \A j \in Instructors \ {i} : VehiclesOf(j)' = VehiclesOf(j)
  BY <1>1 DEF VehiclesOf, NoVehicle
<1>5. OneVehicle'
  BY <1>3, <1>4 DEF OneVehicle
<1>6. \A j \in Instructors : Upserting(j)' = Upserting(j)
  BY DEF Upserting
<1>7. ASSUME NEW r \in Requests PROVE GarageInv(r)'
  <2>1. garage[r].at = "upsert" /\ garage[r].instructor = i => i \in contended'
    BY DEF Upserting
  <2>2. garage[r].at = "photo" => garage[r].instructor \in Instructors
    BY DEF GarageInv, GarageSlot
  <2> QED BY <1>3, <1>4, <1>6, <2>1, <2>2 DEF GarageInv
<1> QED BY <1>2, <1>5, <1>7

LEMMA FindVehicleStep ==
    ASSUME VehiclesInv, NEW r \in Requests, NEW i \in Instructors, NEW p \in Plates \cup {None},
           FindVehicle(r, i, p)
    PROVE  VehiclesInv'
<1> USE VehiclesAssumption DEF VehiclesInv, VehiclesTypeOK
<1> PICK v \in IF VehiclesOf(i) = {} THEN {None} ELSE VehiclesOf(i) :
        garage' = [garage EXCEPT ![r] =
            [at |-> "upsert", instructor |-> i, vehicle |-> v, plate |-> p, photo |-> FALSE]]
  BY DEF FindVehicle
<1> DEFINE new == [at |-> "upsert", instructor |-> i, vehicle |-> v, plate |-> p, photo |-> FALSE]
<1>1. v \in VehicleIds \cup {None} /\ new \in GarageSlot
  BY DEF VehiclesOf, GarageSlot
<1>2. garage' \in [Requests -> GarageSlot] /\ garage'[r] = new
      /\ \A q \in Requests \ {r} : garage'[q] = garage[q]
  BY <1>1
<1>3. UNCHANGED <<vehicle, posted>> /\ contended \subseteq contended' /\ contended' \subseteq Instructors
  BY DEF FindVehicle
<1>4. i \notin contended' => Upserting(i) = {}
  BY DEF FindVehicle
<1>5. \A j \in Instructors : VehiclesOf(j)' = VehiclesOf(j)
  BY <1>3 DEF VehiclesOf
<1>6. Upserting(i)' = Upserting(i) \cup {r}
  BY <1>2 DEF Upserting
<1>7. \A j \in Instructors \ {i} : Upserting(j)' = Upserting(j)
  BY <1>2 DEF Upserting, FindVehicle
<1>8. GarageInv(r)'
  <2>1. v # None => v \in VehiclesOf(i)'
    BY <1>5
  <2>2. v = None => VehiclesOf(i)' = {}
    BY <1>1, <1>5 DEF VehiclesOf
  <2>3. i \notin contended' => Upserting(i)' = {r}
    BY <1>4, <1>6
  <2> QED BY <1>2, <2>1, <2>2, <2>3 DEF GarageInv
<1>9. ASSUME NEW q \in Requests \ {r} PROVE GarageInv(q)'
  <2>1. garage[q].at = "upsert" /\ garage[q].instructor = i => i \in contended'
    BY <1>4 DEF Upserting
  <2>2. garage[q].at = "photo" => garage[q].instructor \in Instructors
    BY DEF GarageInv, GarageSlot
  <2> QED BY <1>2, <1>3, <1>5, <1>7, <2>1, <2>2 DEF GarageInv
<1>10. OneVehicle'
  BY <1>3, <1>5 DEF OneVehicle
<1> QED BY <1>2, <1>3, <1>8, <1>9, <1>10

\* What is left of a request that ends.
LEMMA ParkedStep ==
    ASSUME VehiclesInv, NEW r \in Requests, Parked(r), UNCHANGED contended
    PROVE  /\ garage' \in [Requests -> GarageSlot]
           /\ garage'[r] = NoGarage
           /\ \A q \in Requests \ {r} : garage'[q] = garage[q]
           /\ \A j \in Instructors : Upserting(j)' = Upserting(j) \ {r}
<1> USE DEF VehiclesInv, VehiclesTypeOK, Parked
<1>1. NoGarage \in GarageSlot
  BY DEF NoGarage, GarageSlot
<1>2. garage'[r] = NoGarage /\ \A q \in Requests \ {r} : garage'[q] = garage[q]
  OBVIOUS
<1>3. \A j \in Instructors : Upserting(j)' = Upserting(j) \ {r}
  BY <1>2 DEF Upserting, NoGarage
<1> QED BY <1>1, <1>2, <1>3

\* A request ends and has not changed who owns what.
LEMMA SameOwnersStep ==
    ASSUME VehiclesInv, NEW r \in Requests, Parked(r), UNCHANGED <<posted, contended>>,
           vehicle' \in [VehicleIds -> VehicleRow],
           \A v \in VehicleIds : vehicle'[v].owner = vehicle[v].owner
    PROVE  VehiclesInv'
<1>0. /\ garage' \in [Requests -> GarageSlot] /\ garage'[r] = NoGarage
      /\ \A q \in Requests \ {r} : garage'[q] = garage[q]
      /\ \A j \in Instructors : Upserting(j)' = Upserting(j) \ {r}
  BY ParkedStep
<1> USE DEF VehiclesInv, VehiclesTypeOK
<1>1. \A j \in Instructors \cup {None} : VehiclesOf(j)' = VehiclesOf(j)
  BY DEF VehiclesOf
<1>2. OneVehicle'
  BY <1>1 DEF OneVehicle
<1>3. GarageInv(r)'
  BY <1>0 DEF GarageInv, NoGarage
<1>4. ASSUME NEW q \in Requests \ {r} PROVE GarageInv(q)'
  <2>1. garage[q].instructor \in Instructors \cup {None}
    BY DEF GarageSlot
  <2>2. garage'[q] = garage[q] /\ contended' = contended
    BY <1>0
  <2>3. ASSUME NEW j \in Instructors, garage[q].at = "upsert", garage[q].instructor = j
        PROVE  GarageInv(q)'
    <3>1. VehiclesOf(j)' = VehiclesOf(j) /\ Upserting(j)' = Upserting(j) \ {r}
      BY <1>0, <1>1
    <3>2. garage[q].vehicle # None => garage[q].vehicle \in VehiclesOf(j)'
      BY <2>3, <3>1 DEF GarageInv
    <3>3. j \notin contended =>
             Upserting(j)' = {q} /\ (garage[q].vehicle = None => VehiclesOf(j)' = {})
      BY <2>3, <3>1 DEF GarageInv
    <3> QED BY <2>2, <2>3, <3>2, <3>3 DEF GarageInv
  <2>4. garage[q].at = "photo" => GarageInv(q)'
    BY <1>1, <2>1, <2>2 DEF GarageInv
  <2>5. garage[q].at \notin {"upsert", "photo"} => GarageInv(q)'
    BY <2>2 DEF GarageInv
  <2>6. garage[q].at = "upsert" => garage[q].instructor \in Instructors
    BY DEF GarageInv
  <2> QED BY <2>3, <2>4, <2>5, <2>6
<1> QED BY <1>2, <1>3, <1>4, <1>0

LEMMA CreateVehicleStep ==
    ASSUME VehiclesInv, NEW r \in Requests, NEW v \in VehicleIds, CreateVehicle(r, v)
    PROVE  VehiclesInv'
<1>0. /\ garage' \in [Requests -> GarageSlot] /\ garage'[r] = NoGarage
      /\ \A q \in Requests \ {r} : garage'[q] = garage[q]
      /\ \A j \in Instructors : Upserting(j)' = Upserting(j) \ {r}
  BY ParkedStep DEF CreateVehicle
<1> USE VehiclesAssumption DEF VehiclesInv, VehiclesTypeOK
<1> PICK i \in Instructors : i = garage[r].instructor
  BY DEF CreateVehicle, GarageInv
<1> PICK p \in Plates : p = IF garage[r].plate = None THEN EmptyPlate ELSE garage[r].plate
  BY DEF GarageSlot
<1>2. /\ vehicle[v] = NoVehicle
      /\ vehicle' = [vehicle EXCEPT ![v] = [owner |-> i, plate |-> p, photo |-> FALSE]]
      /\ Parked(r) /\ UNCHANGED <<posted, contended>>
  BY DEF CreateVehicle, NewVehicle
<1>3. [owner |-> i, plate |-> p, photo |-> FALSE] \in VehicleRow
  BY DEF VehicleRow
<1>4. vehicle' \in [VehicleIds -> VehicleRow]
  BY <1>2, <1>3
<1>5. VehiclesOf(i)' = VehiclesOf(i) \cup {v}
  BY <1>2 DEF VehiclesOf
<1>6. \A j \in Instructors \ {i} : VehiclesOf(j)' = VehiclesOf(j)
  BY <1>2 DEF VehiclesOf, NoVehicle
<1>7. i \notin contended => VehiclesOf(i) = {} /\ Upserting(i) = {r}
  BY DEF CreateVehicle, GarageInv
<1>8. OneVehicle'
  BY <1>2, <1>5, <1>6, <1>7 DEF OneVehicle
<1>9. GarageInv(r)'
  BY <1>0 DEF GarageInv, NoGarage
<1>10. ASSUME NEW q \in Requests \ {r} PROVE GarageInv(q)'
  <2>1. garage[q].at = "upsert" /\ garage[q].instructor = i => i \in contended
    BY <1>7 DEF Upserting
  <2>2. garage[q].at = "photo" => garage[q].instructor \in Instructors
    BY DEF GarageInv, GarageSlot
  <2>3. garage'[q] = garage[q] /\ contended' = contended
        /\ \A j \in Instructors : Upserting(j)' = Upserting(j) \ {r}
    BY <1>0, <1>2
  <2>4. \A j \in Instructors : VehiclesOf(j) \subseteq VehiclesOf(j)'
    BY <1>5, <1>6
  <2>5. garage[q].at = "photo" => GarageInv(q)'
    BY <2>2, <2>3, <2>4 DEF GarageInv
  <2>6. garage[q].at = "upsert" => GarageInv(q)'
    BY <1>6, <2>1, <2>3, <2>4 DEF GarageInv
  <2>7. garage[q].at \notin {"photo", "upsert"} => GarageInv(q)'
    BY <2>3 DEF GarageInv
  <2> QED BY <2>5, <2>6, <2>7
<1> QED BY <1>2, <1>4, <1>8, <1>9, <1>10, <1>0

LEMMA PhotoStep ==
    ASSUME VehiclesInv, NEW r \in Requests, NEW i \in Instructors, NEW v \in VehicleIds,
           NEW photo \in BOOLEAN, FindForPhoto(r, i, v, photo)
    PROVE  VehiclesInv'
<1> USE VehiclesAssumption DEF VehiclesInv, VehiclesTypeOK
<1> DEFINE new == [at |-> "photo", instructor |-> i, vehicle |-> v, plate |-> None, photo |-> photo]
<1>1. new \in GarageSlot /\ garage' = [garage EXCEPT ![r] = new]
  BY DEF GarageSlot, FindForPhoto
<1>2. garage'[r] = new /\ \A q \in Requests \ {r} : garage'[q] = garage[q]
  BY <1>1
<1>3. UNCHANGED <<vehicle, posted, contended>> /\ garage[r].at = "idle" /\ vehicle[v].owner = i
  BY DEF FindForPhoto
<1>4. \A j \in Instructors \cup {None} : VehiclesOf(j)' = VehiclesOf(j) /\ Upserting(j)' = Upserting(j)
  BY <1>2, <1>3 DEF VehiclesOf, Upserting
<1>5. GarageInv(r)'
  BY <1>2, <1>3, <1>4 DEF GarageInv, VehiclesOf
<1>6. ASSUME NEW q \in Requests \ {r} PROVE GarageInv(q)'
  <2>1. garage[q].instructor \in Instructors \cup {None}
    BY DEF GarageSlot
  <2> QED BY <1>2, <1>3, <1>4, <2>1 DEF GarageInv
<1>7. OneVehicle'
  BY <1>3, <1>4 DEF OneVehicle
<1> QED BY <1>1, <1>3, <1>5, <1>6, <1>7

LEMMA VehiclesStep == VehiclesInv /\ [VehiclesNext]_vehiclesVars => VehiclesInv'
<1> SUFFICES ASSUME VehiclesInv, [VehiclesNext]_vehiclesVars PROVE VehiclesInv'
  OBVIOUS
<1> USE VehiclesAssumption
<1>1. CASE UNCHANGED vehiclesVars
  BY <1>1 DEF vehiclesVars, VehiclesInv, VehiclesTypeOK, OneVehicle, GarageInv, VehiclesOf, Upserting
<1>2. ASSUME NEW r \in Requests, UpdateVehicle(r) PROVE VehiclesInv'
  <2>1. vehicle' \in [VehicleIds -> VehicleRow]
    BY <1>2 DEF UpdateVehicle, VehiclesInv, VehiclesTypeOK, VehicleRow, GarageSlot
  <2>2. \A v \in VehicleIds : vehicle'[v].owner = vehicle[v].owner
    BY <1>2 DEF UpdateVehicle, VehiclesInv, VehiclesTypeOK, VehicleRow
  <2> QED BY <1>2, <2>1, <2>2, SameOwnersStep DEF UpdateVehicle
<1>3. ASSUME NEW r \in Requests, GarageFails(r) PROVE VehiclesInv'
  BY <1>3, SameOwnersStep DEF GarageFails, VehiclesInv, VehiclesTypeOK
<1>4. ASSUME NEW r \in Requests, SavePhoto(r) PROVE VehiclesInv'
  <2>1. vehicle' \in [VehicleIds -> VehicleRow]
    BY <1>4 DEF SavePhoto, VehiclesInv, VehiclesTypeOK, VehicleRow, GarageSlot
  <2>2. \A v \in VehicleIds : vehicle'[v].owner = vehicle[v].owner
    BY <1>4 DEF SavePhoto, VehiclesInv, VehiclesTypeOK, VehicleRow
  <2> QED BY <1>4, <2>1, <2>2, SameOwnersStep DEF SavePhoto
<1>5. CASE VehiclesNext
  BY <1>2, <1>3, <1>4, <1>5, PostVehicleStep, FindVehicleStep, CreateVehicleStep, PhotoStep
  DEF VehiclesNext
<1> QED BY <1>1, <1>5

\* PATCH adds no second vehicle to an instructor, for any number of requests, unless
\* two of them are side by side for that instructor.
THEOREM KeepsOneVehicle == VehiclesSpec => []OneVehicle
<1>1. VehiclesInv => OneVehicle BY DEF VehiclesInv
<1> QED BY <1>1, VehiclesInitInv, VehiclesStep, PTL DEF VehiclesSpec

(***************************************************************************)
(* Checklist                                                               *)
(***************************************************************************)
LEMMA NoClerkInSlot == NoClerk \in ClerkSlot
BY DEF NoClerk, ClerkSlot, NoChecklist, ChecklistRow, Sources, Steps

LEMMA ChecklistInitInv == ChecklistInit => ChecklistInv
<1> SUFFICES ASSUME ChecklistInit PROVE ChecklistInv
  OBVIOUS
<1>1. ChecklistTypeOK
  BY NoClerkInSlot DEF ChecklistInit, ChecklistTypeOK, NoChecklist, ChecklistRow
<1>2. ChecklistIsEarned
  BY DEF ChecklistInit, ChecklistIsEarned, NoChecklist
<1>3. \A r \in Requests : ClerkInv(r)
  BY DEF ChecklistInit, ClerkInv, NoClerk
<1> QED BY <1>1, <1>2, <1>3 DEF ChecklistInit, ChecklistInv

LEMMA StartReportStep ==
    ASSUME ChecklistInv, NEW r \in Requests, StartReport(r) PROVE ChecklistInv'
<1> USE DEF ChecklistInv, ChecklistTypeOK, StartReport, ClerkMoves
<1>1. [NoClerk EXCEPT !.at = "report", !.left = Sources, !.quiet = TRUE] \in ClerkSlot
  BY DEF NoClerk, ClerkSlot, NoChecklist, ChecklistRow, Sources, Steps
<1>2. ChecklistTypeOK' /\ ChecklistIsEarned'
  BY <1>1 DEF ChecklistIsEarned
<1>3. ClerkInv(r)'
  BY DEF ClerkInv, NoClerk, NoChecklist, Sources
<1>4. \A q \in Requests \ {r} : ClerkInv(q)'
  BY DEF ClerkInv
<1> QED BY <1>2, <1>3, <1>4

LEMMA ReadChecklistStep ==
    ASSUME ChecklistInv, NEW r \in Requests, ReadChecklist(r) PROVE ChecklistInv'
<1> USE DEF ChecklistInv, ChecklistTypeOK, ReadChecklist, ClerkMoves
<1>1. checklist' \in ChecklistRow
  BY DEF ChecklistRow
<1>2. checklist'.teorico = checklist.teorico /\ checklist'.pratico = checklist.pratico
  BY DEF ChecklistRow
<1>3. [clerk[r] EXCEPT !.left = @ \ {"checklist"}, !.row = checklist'] \in ClerkSlot
  BY <1>1 DEF ClerkSlot
<1>4. ChecklistTypeOK'
  BY <1>1, <1>3
<1>5. ChecklistIsEarned'
  BY <1>2 DEF ChecklistIsEarned
<1>6. ClerkInv(r)'
  BY <1>2 DEF ClerkInv, ClerkSlot, ClerkAt
<1>7. \A q \in Requests \ {r} : ClerkInv(q)'
  BY <1>2 DEF ClerkInv
<1> QED BY <1>4, <1>5, <1>6, <1>7

LEMMA ReadSourcesStep ==
    ASSUME ChecklistInv, NEW r \in Requests, ReadSimulado(r) \/ ReadLessons(r) PROVE ChecklistInv'
<1> USE DEF ChecklistInv, ChecklistTypeOK, ClerkMoves
<1>1. CASE ReadSimulado(r)
  <2>1. [clerk[r] EXCEPT !.left = @ \ {"simulado"},
                        !.value = [@ EXCEPT !.teorico = dossier.simulado]] \in ClerkSlot
    BY DEF ClerkSlot, ChecklistRow
  <2>2. ChecklistTypeOK' /\ ChecklistIsEarned'
    BY <1>1, <2>1 DEF ReadSimulado, ChecklistIsEarned
  <2>3. ClerkInv(r)'
    BY <1>1 DEF ReadSimulado, ClerkInv, ClerkSlot, ChecklistRow, ClerkAt
  <2>4. \A q \in Requests \ {r} : ClerkInv(q)'
    BY <1>1 DEF ReadSimulado, ClerkInv
  <2> QED BY <1>1, <2>2, <2>3, <2>4 DEF ReadSimulado
<1>2. CASE ReadLessons(r)
  <2>1. [clerk[r] EXCEPT !.left = @ \ {"lessons"},
                        !.value = [@ EXCEPT !.pratico = dossier.practice]] \in ClerkSlot
    BY DEF ClerkSlot, ChecklistRow
  <2>2. ChecklistTypeOK' /\ ChecklistIsEarned'
    BY <1>2, <2>1 DEF ReadLessons, ChecklistIsEarned
  <2>3. ClerkInv(r)'
    BY <1>2 DEF ReadLessons, ClerkInv, ClerkSlot, ChecklistRow, ClerkAt
  <2>4. \A q \in Requests \ {r} : ClerkInv(q)'
    BY <1>2 DEF ReadLessons, ClerkInv
  <2> QED BY <1>2, <2>2, <2>3, <2>4 DEF ReadLessons
<1> QED BY <1>1, <1>2

LEMMA CompareReportStep ==
    ASSUME ChecklistInv, NEW r \in Requests, CompareReport(r) PROVE ChecklistInv'
<1> USE DEF ChecklistInv, ChecklistTypeOK, CompareReport, ClerkMoves
<1>1. [clerk[r] EXCEPT !.at = "save"] \in ClerkSlot
  BY DEF ClerkSlot
<1>2. ChecklistTypeOK' /\ ChecklistIsEarned'
  BY <1>1, NoClerkInSlot DEF ChecklistIsEarned
<1>3. ClerkInv(r)'
  BY DEF ClerkInv, ClerkSlot, ClerkAt, NoClerk
<1>4. \A q \in Requests \ {r} : ClerkInv(q)'
  BY DEF ClerkInv
<1> QED BY <1>2, <1>3, <1>4

\* What is left of the others when one writes, or the dossier changes.
LEMMA DisturbStep ==
    ASSUME ChecklistInv, NEW r, Disturb(r, NoClerk),
           dossier.simulado => dossier'.simulado, once.practice => once'.practice,
           once.ladv => once'.ladv
    PROVE  clerk' \in [Requests -> ClerkSlot] /\ \A q \in Requests : ClerkInv(q)'
<1> USE DEF ChecklistInv, ChecklistTypeOK, Disturb
<1>1. \A q \in Requests : [clerk[q] EXCEPT !.quiet = FALSE] \in ClerkSlot
  BY DEF ClerkSlot
<1>2. clerk' \in [Requests -> ClerkSlot]
  BY <1>1, NoClerkInSlot
<1>3. ASSUME NEW q \in Requests PROVE ClerkInv(q)'
  <2>1. CASE q = r
    BY <2>1 DEF ClerkInv, NoClerk
  <2>2. CASE q # r
    BY <2>2 DEF ClerkInv, ClerkSlot
  <2> QED BY <2>1, <2>2
<1> QED BY <1>2, <1>3

LEMMA ChecklistWrittenStep ==
    ASSUME ChecklistInv, NEW r \in Requests, SaveReport(r) \/ UpsertStep(r) PROVE ChecklistInv'
<1>1. Disturb(r, NoClerk) /\ UNCHANGED <<dossier, once>>
  BY DEF SaveReport, UpsertStep
<1>2. clerk' \in [Requests -> ClerkSlot] /\ \A q \in Requests : ClerkInv(q)'
  BY <1>1, DisturbStep
<1> USE DEF ChecklistInv, ChecklistTypeOK
<1>3. CASE SaveReport(r)
  <2>1. checklist' \in ChecklistRow
    BY <1>3 DEF SaveReport, ChecklistRow, ClerkSlot
  <2>2. checklist'.teorico = clerk[r].value.teorico /\ checklist'.pratico = clerk[r].value.pratico
    BY <1>3 DEF SaveReport, ChecklistRow
  <2>3. ChecklistIsEarned'
    BY <1>3, <2>2 DEF SaveReport, ChecklistIsEarned, ClerkInv, ClerkAt
  <2> QED BY <1>1, <1>2, <1>3, <2>1, <2>3 DEF SaveReport
<1>4. CASE UpsertStep(r)
  <2>1. checklist' \in ChecklistRow
    BY <1>4 DEF UpsertStep, ChecklistRow, ClerkSlot, Steps
  <2>2. ticked' \subseteq Steps
    BY <1>4 DEF UpsertStep, ClerkSlot
  <2>3. ChecklistIsEarned'
    BY <1>4 DEF UpsertStep, ChecklistIsEarned, ChecklistRow, ClerkSlot, ClerkInv, ClerkAt, Steps
  <2> QED BY <1>1, <1>2, <2>1, <2>2, <2>3
<1> QED BY <1>3, <1>4

LEMMA UpdateStepStep ==
    ASSUME ChecklistInv, NEW r \in Requests, NEW step \in Steps, NEW completed \in BOOLEAN,
           UpdateStep(r, step, completed)
    PROVE  ChecklistInv'
<1> USE DEF ChecklistInv, ChecklistTypeOK, UpdateStep, ClerkMoves
<1> DEFINE slot == [NoClerk EXCEPT !.at = "upsert", !.step = step, !.value = [@ EXCEPT ![step] = completed]]
<1>1. slot \in ClerkSlot
  BY DEF NoClerk, ClerkSlot, NoChecklist, ChecklistRow, Sources, Steps
<1>2. ChecklistTypeOK' /\ ChecklistIsEarned'
  BY <1>1 DEF ChecklistIsEarned
<1>3. ClerkInv(r)'
  BY DEF ClerkInv, NoClerk, NoChecklist, Steps
<1>4. \A q \in Requests \ {r} : ClerkInv(q)'
  BY DEF ClerkInv
<1> QED BY <1>2, <1>3, <1>4

LEMMA GetChecklistStep ==
    ASSUME ChecklistInv, NEW r \in Requests,
           GetChecklist(r) \/ CreateChecklist(r) \/ ClerkCrash(r)
    PROVE  ChecklistInv'
<1> USE DEF ChecklistInv, ChecklistTypeOK, ClerkMoves
<1>1. [NoClerk EXCEPT !.at = "create"] \in ClerkSlot
  BY DEF NoClerk, ClerkSlot, NoChecklist, ChecklistRow, Sources, Steps
<1>2. checklist' \in ChecklistRow /\ checklist'.teorico = checklist.teorico
      /\ checklist'.pratico = checklist.pratico
  BY DEF GetChecklist, CreateChecklist, ClerkCrash, ChecklistRow
<1>3. ChecklistTypeOK'
  BY <1>1, <1>2, NoClerkInSlot DEF GetChecklist, CreateChecklist, ClerkCrash
<1>4. ChecklistIsEarned'
  BY <1>2 DEF ChecklistIsEarned, GetChecklist, CreateChecklist, ClerkCrash
<1>5. ClerkInv(r)'
  BY DEF ClerkInv, NoClerk, GetChecklist, CreateChecklist, ClerkCrash
<1>6. \A q \in Requests \ {r} : ClerkInv(q)'
  BY <1>2 DEF ClerkInv, GetChecklist, CreateChecklist, ClerkCrash
<1> QED BY <1>3, <1>4, <1>5, <1>6 DEF GetChecklist, CreateChecklist, ClerkCrash

LEMMA DossierStep ==
    ASSUME ChecklistInv,
           \/ \E sc \in SimuladoScores, minutes \in SimuladoMinutes : SubmitSimulado(sc, minutes)
           \/ \E practice, ladv \in BOOLEAN : DossierChanges(practice, ladv)
    PROVE  ChecklistInv'
<1>1. ASSUME NEW sc \in SimuladoScores, NEW minutes \in SimuladoMinutes, SubmitSimulado(sc, minutes)
      PROVE  ChecklistInv'
  <2>1. dossier' = [dossier EXCEPT !.simulado = TRUE] /\ UNCHANGED <<checklist, ticked, once>>
    BY <1>1 DEF SubmitSimulado
  <2>2. /\ dossier' \in [simulado : BOOLEAN, practice : BOOLEAN, ladv : BOOLEAN]
        /\ dossier'.simulado /\ dossier'.practice = dossier.practice /\ dossier'.ladv = dossier.ladv
    BY <2>1 DEF ChecklistInv, ChecklistTypeOK
  <2>3. clerk' \in [Requests -> ClerkSlot] /\ \A q \in Requests : ClerkInv(q)'
    BY <1>1, <2>1, <2>2, DisturbStep DEF SubmitSimulado
  <2> QED BY <2>1, <2>2, <2>3 DEF ChecklistInv, ChecklistTypeOK, ChecklistIsEarned
<1>2. ASSUME NEW practice \in BOOLEAN, NEW ladv \in BOOLEAN, DossierChanges(practice, ladv)
      PROVE  ChecklistInv'
  <2>1. /\ dossier' = [dossier EXCEPT !.practice = practice, !.ladv = ladv]
        /\ once' = [practice |-> once.practice \/ practice, ladv |-> once.ladv \/ ladv]
        /\ UNCHANGED <<checklist, ticked>>
    BY <1>2 DEF DossierChanges
  <2>2. /\ dossier' \in [simulado : BOOLEAN, practice : BOOLEAN, ladv : BOOLEAN]
        /\ dossier'.simulado = dossier.simulado /\ dossier'.practice = practice /\ dossier'.ladv = ladv
    BY <2>1 DEF ChecklistInv, ChecklistTypeOK
  <2>3. /\ once' \in [practice : BOOLEAN, ladv : BOOLEAN]
        /\ once'.practice = (once.practice \/ practice) /\ once'.ladv = (once.ladv \/ ladv)
    BY <2>1 DEF ChecklistInv, ChecklistTypeOK
  <2>4. clerk' \in [Requests -> ClerkSlot] /\ \A q \in Requests : ClerkInv(q)'
    BY <1>2, <2>2, <2>3, DisturbStep DEF DossierChanges
  <2> QED BY <2>1, <2>2, <2>3, <2>4 DEF ChecklistInv, ChecklistTypeOK, ChecklistIsEarned
<1> QED BY <1>1, <1>2

LEMMA ChecklistStep == ChecklistInv /\ [ChecklistNext]_checklistVars => ChecklistInv'
<1>1. CASE UNCHANGED checklistVars
  BY <1>1 DEF checklistVars, ChecklistInv, ChecklistTypeOK, ChecklistIsEarned, ClerkInv
<1>2. CASE ChecklistNext
  BY <1>2, StartReportStep, ReadChecklistStep, ReadSourcesStep, CompareReportStep,
     ChecklistWrittenStep, UpdateStepStep, GetChecklistStep, DossierStep DEF ChecklistNext
<1> QED BY <1>1, <1>2

\* No race of reports and ticks puts a step on the list that was never earned.
THEOREM ChecklistEarned == ChecklistSpec => []ChecklistIsEarned
<1>1. ChecklistInv => ChecklistIsEarned BY DEF ChecklistInv
<1> QED BY <1>1, ChecklistInitInv, ChecklistStep, PTL DEF ChecklistSpec

\* A report that nothing disturbs leaves the checklist at what it is derived from.
THEOREM ReportsAreCurrent == ChecklistSpec => ReportIsCurrent
<1>1. ASSUME ChecklistInv, NEW r \in Requests, ReportEnds(r), clerk[r].quiet
      PROVE  checklist'.teorico = dossier.simulado /\ checklist'.pratico = dossier.practice
  <2>1. CASE SaveReport(r)
    BY <1>1, <2>1 DEF ChecklistInv, ChecklistTypeOK, ClerkInv, ClerkAt, SaveReport, ChecklistRow
  <2>2. CASE CompareReport(r) /\ clerk'[r].at = "idle"
    <3>1. clerk[r].left = {} /\ checklist' = checklist /\ clerk[r].at = "report"
      BY <2>2 DEF CompareReport, ClerkAt
    <3>2. clerk[r].row.teorico = clerk[r].value.teorico /\ clerk[r].row.pratico = clerk[r].value.pratico
      BY <1>1, <2>2 DEF CompareReport, ClerkMoves, ChecklistInv, ChecklistTypeOK, ClerkSlot
    <3> QED BY <1>1, <3>1, <3>2 DEF ChecklistInv, ClerkInv
  <2> QED BY <1>1, <2>1, <2>2 DEF ReportEnds
<1>2. ChecklistInv =>
        [\A r \in Requests :
           ReportEnds(r) /\ clerk[r].quiet =>
              /\ checklist'.teorico = dossier.simulado
              /\ checklist'.pratico = dossier.practice]_checklistVars
  BY <1>1
<1> QED BY <1>2, ChecklistInitInv, ChecklistStep, PTL DEF ChecklistSpec, ReportIsCurrent

(***************************************************************************)
(* Ratings                                                                 *)
(***************************************************************************)
\* What an average is does not matter, only which scores it is of.
LEMMA NobodyRated == ASSUME score = [l \in Lessons |-> None] PROVE Average(score) = NoReviews
<1>1. {l \in Lessons : score[l] # None} = {}
  OBVIOUS
<1>2. Cardinality({}) = 0
  BY FS_EmptySet
<1> QED BY <1>1, <1>2 DEF Average, NoReviews, MapThenSumSet, MapThenFoldSet

LEMMA AverageTyped ==
    ASSUME NEW scores \in [Lessons -> Scores \cup {None}]
    PROVE  Average(scores) \in Stats
BY DEF Stats

LEMMA RatingsInitInv == RatingsInit => RatingsInv
<1> SUFFICES ASSUME RatingsInit PROVE RatingsInv
  OBVIOUS
<1>1. Average(score) = NoReviews
  BY NobodyRated DEF RatingsInit
<1>2. score \in [Lessons -> Scores \cup {None}]
  BY DEF RatingsInit
<1>3. NoReviews \in Stats
  BY <1>1, <1>2, AverageTyped
<1>4. RatingsTypeOK
  BY <1>2, <1>3 DEF RatingsInit, RatingsTypeOK, RaterSlot, NoRating
<1> QED BY <1>1, <1>4, RatingsAssumption
        DEF RatingsInit, RatingsInv, RatingIsAverage, RaterInv, RaterSlot, NoRating

LEMMA RatingsTypeStep == RatingsInv /\ [RatingsNext]_ratingsVars => RatingsTypeOK'
<1> SUFFICES ASSUME RatingsInv, [RatingsNext]_ratingsVars PROVE RatingsTypeOK'
  OBVIOUS
<1> USE DEF RatingsInv, RatingsTypeOK
<1>1. CASE UNCHANGED ratingsVars
  BY <1>1 DEF ratingsVars
<1>2. ASSUME NEW r \in Requests, NEW l \in Lessons, NEW s \in Scores \cup {None}, GiveFeedback(r, l, s)
      PROVE  RatingsTypeOK'
  <2>1. [at |-> "write", lesson |-> l, score |-> s, stats |-> NoReviews] \in RaterSlot(Stats)
    BY DEF RaterSlot
  <2> QED BY <1>2, <2>1 DEF GiveFeedback
<1>3. ASSUME NEW r \in Requests, WriteScore(r) PROVE RatingsTypeOK'
  <2>1. score' \in [Lessons -> Scores \cup {None}]
    BY <1>3 DEF WriteScore, RaterSlot
  <2>2. Average(score') \in Stats
    BY <2>1, AverageTyped
  <2>3. rater' \in [Requests -> RaterSlot(Stats)]
    BY <1>3 DEF WriteScore, RaterSlot
  <2> QED BY <1>3, <2>1, <2>2, <2>3 DEF WriteScore
<1>4. ASSUME NEW r \in Requests, Aggregate(r) PROVE RatingsTypeOK'
  <2>1. Average(score) \in Stats
    BY AverageTyped
  <2>2. rater' \in [Requests -> RaterSlot(Stats)]
    BY <1>4, <2>1 DEF Aggregate, RaterSlot
  <2> QED BY <1>4, <2>2 DEF Aggregate
<1>5. NoRating \in RaterSlot(Stats)
  BY DEF NoRating, RaterSlot
<1>6. ASSUME NEW r \in Requests, StoreAverage(r) PROVE RatingsTypeOK'
  <2>1. rater[r].stats \in Stats
    BY DEF RaterSlot
  <2> QED BY <1>5, <1>6, <2>1 DEF StoreAverage
<1>7. ASSUME NEW r \in Requests, RatingCrash(r) PROVE RatingsTypeOK'
  BY <1>5, <1>7 DEF RatingCrash
<1> QED BY <1>1, <1>2, <1>3, <1>4, <1>6, <1>7 DEF RatingsNext

LEMMA RatingsStep == RatingsInv /\ [RatingsNext]_ratingsVars => RatingsInv'
<1> SUFFICES ASSUME RatingsInv, [RatingsNext]_ratingsVars PROVE RatingsInv'
  OBVIOUS
<1> USE RatingsAssumption, RatingsTypeStep DEF RatingsInv
<1>1. CASE UNCHANGED ratingsVars
  BY <1>1 DEF ratingsVars, RatingIsAverage, RaterInv, RaterSlot
<1>2. ASSUME NEW r \in Requests, NEW l \in Lessons, NEW s \in Scores \cup {None}, GiveFeedback(r, l, s)
      PROVE  RatingsInv'
  <2>1. [at |-> "write", lesson |-> l, score |-> s, stats |-> NoReviews] \in RaterSlot(averages)
    BY DEF RaterSlot
  <2>2. rater' \in [Requests -> RaterSlot(averages)]'
    BY <1>2, <2>1 DEF GiveFeedback, RaterSlot
  <2>3. \A q \in Requests : RaterInv(q)'
    BY <1>2, <2>1 DEF GiveFeedback, RaterInv
  <2> QED BY <1>2, <2>2, <2>3 DEF GiveFeedback, RatingIsAverage
<1>3. ASSUME NEW r \in Requests, WriteScore(r) PROVE RatingsInv'
  <2>1. averages \subseteq averages' /\ Average(score') \in averages'
    BY <1>3 DEF WriteScore
  <2>2. rater' \in [Requests -> RaterSlot(averages)]'
    BY <1>3, <2>1 DEF WriteScore, RaterSlot
  <2>3. \A q \in Requests : RaterInv(q)'
    BY <1>3 DEF WriteScore, RaterInv, RaterSlot
  <2> QED BY <1>3, <2>1, <2>2, <2>3 DEF WriteScore, RatingIsAverage
<1>4. ASSUME NEW r \in Requests, Aggregate(r) PROVE RatingsInv'
  <2>1. rater' \in [Requests -> RaterSlot(averages)]'
    BY <1>4 DEF Aggregate, RaterSlot
  <2>2. \A q \in Requests : RaterInv(q)'
    BY <1>4 DEF Aggregate, RaterInv, RaterSlot
  <2> QED BY <1>4, <2>1, <2>2 DEF Aggregate, RatingIsAverage
<1>5. NoRating \in RaterSlot(averages)
  BY DEF NoRating, RaterSlot
<1>6. ASSUME NEW r \in Requests, StoreAverage(r) PROVE RatingsInv'
  <2>1. rater' \in [Requests -> RaterSlot(averages)]'
    BY <1>5, <1>6 DEF StoreAverage, RaterSlot
  <2>2. \A q \in Requests : RaterInv(q)'
    BY <1>6 DEF StoreAverage, RaterInv, NoRating
  <2>3. RatingIsAverage'
    BY <1>6 DEF StoreAverage, RatingIsAverage, RaterInv, RaterSlot
  <2> QED BY <1>6, <2>1, <2>2, <2>3 DEF StoreAverage
<1>7. ASSUME NEW r \in Requests, RatingCrash(r) PROVE RatingsInv'
  <2>1. rater' \in [Requests -> RaterSlot(averages)]'
    BY <1>5, <1>7 DEF RatingCrash, RaterSlot
  <2>2. \A q \in Requests : RaterInv(q)'
    BY <1>7 DEF RatingCrash, RaterInv, NoRating
  <2> QED BY <1>7, <2>1, <2>2 DEF RatingCrash, RatingIsAverage
<1> QED BY <1>1, <1>2, <1>3, <1>4, <1>6, <1>7 DEF RatingsNext

\* The profile shows an average the lessons have had, and the present one once a
\* rating has run alone to its end, for any number of lessons, scores and students.
THEOREM ShowsAverage == RatingsSpec => []RatingIsAverage
<1>1. RatingsInv => RatingIsAverage BY DEF RatingsInv
<1> QED BY <1>1, RatingsInitInv, RatingsStep, PTL DEF RatingsSpec

(***************************************************************************)
(* CNH check digits                                                        *)
(***************************************************************************)
\* The numbers that are typed.
Digits == [1..11 -> 0..9]

\* The two sums as functions of nine numbers.
Descending(a, b, c, d, e, f, g, h, k) ==
    9 * a + 8 * b + 7 * c + 6 * d + 5 * e + 4 * f + 3 * g + 2 * h + k

Ascending(a, b, c, d, e, f, g, h, k) ==
    a + 2 * b + 3 * c + 4 * d + 5 * e + 6 * f + 7 * g + 8 * h + 9 * k

LEMMA Sums ==
    ASSUME NEW digits \in Digits
    PROVE  /\ Weighted(digits, DescendingWeight) =
                Descending(digits[1], digits[2], digits[3], digits[4], digits[5],
                           digits[6], digits[7], digits[8], digits[9])
           /\ Weighted(digits, AscendingWeight) =
                Ascending(digits[1], digits[2], digits[3], digits[4], digits[5],
                          digits[6], digits[7], digits[8], digits[9])
BY SMT DEF Weighted, DescendingWeight, AscendingWeight, Body, Digits, Descending, Ascending

\* A swap moves the difference of the two digits from one sum to the other.
LEMMA SwapShifts ==
    ASSUME NEW digits \in Digits, NEW i \in 1..8
    PROVE  /\ Swapped(digits, i) \in Digits
           /\ Weighted(Swapped(digits, i), DescendingWeight) + digits[i] =
                Weighted(digits, DescendingWeight) + digits[i + 1]
           /\ Weighted(Swapped(digits, i), AscendingWeight) + digits[i + 1] =
                Weighted(digits, AscendingWeight) + digits[i]
           /\ Swapped(digits, i)[10] = digits[10]
           /\ Swapped(digits, i)[11] = digits[11]
<1> DEFINE S == Swapped(digits, i)
<1>1. S \in Digits
  BY SMT DEF Swapped, Digits
<1>2. \A j \in 1..11 : S[j] = IF j = i + 1 THEN digits[i]
                              ELSE IF j = i THEN digits[i + 1] ELSE digits[j]
  BY SMT DEF Swapped, Digits
<1>3. /\ Weighted(S, DescendingWeight) =
           Descending(S[1], S[2], S[3], S[4], S[5],
                      S[6], S[7], S[8], S[9])
      /\ Weighted(S, AscendingWeight) =
           Ascending(S[1], S[2], S[3], S[4], S[5],
                     S[6], S[7], S[8], S[9])
  BY <1>1, Sums
<1>p1. PICK a \in Nat : digits[1] = a
  BY DEF Digits
<1>p2. PICK b \in Nat : digits[2] = b
  BY DEF Digits
<1>p3. PICK c \in Nat : digits[3] = c
  BY DEF Digits
<1>p4. PICK d \in Nat : digits[4] = d
  BY DEF Digits
<1>p5. PICK e \in Nat : digits[5] = e
  BY DEF Digits
<1>p6. PICK f \in Nat : digits[6] = f
  BY DEF Digits
<1>p7. PICK g \in Nat : digits[7] = g
  BY DEF Digits
<1>p8. PICK h \in Nat : digits[8] = h
  BY DEF Digits
<1>p9. PICK k \in Nat : digits[9] = k
  BY DEF Digits
<1>4. /\ digits[1] = a /\ digits[2] = b /\ digits[3] = c /\ digits[4] = d /\ digits[5] = e
      /\ digits[6] = f /\ digits[7] = g /\ digits[8] = h /\ digits[9] = k
  BY <1>p1, <1>p2, <1>p3, <1>p4, <1>p5, <1>p6, <1>p7, <1>p8, <1>p9
<1>5. /\ Weighted(digits, DescendingWeight) = Descending(a, b, c, d, e, f, g, h, k)
      /\ Weighted(digits, AscendingWeight) = Ascending(a, b, c, d, e, f, g, h, k)
  BY <1>4, Sums, Zenon
<1> HIDE DEF S
<1>c1. CASE i = 1
  <2>1. /\ S[1] = b /\ S[2] = a /\ S[3] = c /\ S[4] = d /\ S[5] = e
        /\ S[6] = f /\ S[7] = g /\ S[8] = h /\ S[9] = k
        /\ S[10] = digits[10] /\ S[11] = digits[11]
    BY <1>2, <1>4, <1>c1, SMT
  <2>2. /\ Descending(b, a, c, d, e, f, g, h, k) + a = Descending(a, b, c, d, e, f, g, h, k) + b
        /\ Ascending(b, a, c, d, e, f, g, h, k) + b = Ascending(a, b, c, d, e, f, g, h, k) + a
    BY SMT DEF Descending, Ascending
  <2>3. digits[i] = a /\ digits[i + 1] = b
    BY <1>4, <1>c1
  <2>4. QED
    BY <1>1, <1>3, <1>5, <2>1, <2>2, <2>3, Zenon DEF S
<1>c2. CASE i = 2
  <2>1. /\ S[1] = a /\ S[2] = c /\ S[3] = b /\ S[4] = d /\ S[5] = e
        /\ S[6] = f /\ S[7] = g /\ S[8] = h /\ S[9] = k
        /\ S[10] = digits[10] /\ S[11] = digits[11]
    BY <1>2, <1>4, <1>c2, SMT
  <2>2. /\ Descending(a, c, b, d, e, f, g, h, k) + b = Descending(a, b, c, d, e, f, g, h, k) + c
        /\ Ascending(a, c, b, d, e, f, g, h, k) + c = Ascending(a, b, c, d, e, f, g, h, k) + b
    BY SMT DEF Descending, Ascending
  <2>3. digits[i] = b /\ digits[i + 1] = c
    BY <1>4, <1>c2
  <2>4. QED
    BY <1>1, <1>3, <1>5, <2>1, <2>2, <2>3, Zenon DEF S
<1>c3. CASE i = 3
  <2>1. /\ S[1] = a /\ S[2] = b /\ S[3] = d /\ S[4] = c /\ S[5] = e
        /\ S[6] = f /\ S[7] = g /\ S[8] = h /\ S[9] = k
        /\ S[10] = digits[10] /\ S[11] = digits[11]
    BY <1>2, <1>4, <1>c3, SMT
  <2>2. /\ Descending(a, b, d, c, e, f, g, h, k) + c = Descending(a, b, c, d, e, f, g, h, k) + d
        /\ Ascending(a, b, d, c, e, f, g, h, k) + d = Ascending(a, b, c, d, e, f, g, h, k) + c
    BY SMT DEF Descending, Ascending
  <2>3. digits[i] = c /\ digits[i + 1] = d
    BY <1>4, <1>c3
  <2>4. QED
    BY <1>1, <1>3, <1>5, <2>1, <2>2, <2>3, Zenon DEF S
<1>c4. CASE i = 4
  <2>1. /\ S[1] = a /\ S[2] = b /\ S[3] = c /\ S[4] = e /\ S[5] = d
        /\ S[6] = f /\ S[7] = g /\ S[8] = h /\ S[9] = k
        /\ S[10] = digits[10] /\ S[11] = digits[11]
    BY <1>2, <1>4, <1>c4, SMT
  <2>2. /\ Descending(a, b, c, e, d, f, g, h, k) + d = Descending(a, b, c, d, e, f, g, h, k) + e
        /\ Ascending(a, b, c, e, d, f, g, h, k) + e = Ascending(a, b, c, d, e, f, g, h, k) + d
    BY SMT DEF Descending, Ascending
  <2>3. digits[i] = d /\ digits[i + 1] = e
    BY <1>4, <1>c4
  <2>4. QED
    BY <1>1, <1>3, <1>5, <2>1, <2>2, <2>3, Zenon DEF S
<1>c5. CASE i = 5
  <2>1. /\ S[1] = a /\ S[2] = b /\ S[3] = c /\ S[4] = d /\ S[5] = f
        /\ S[6] = e /\ S[7] = g /\ S[8] = h /\ S[9] = k
        /\ S[10] = digits[10] /\ S[11] = digits[11]
    BY <1>2, <1>4, <1>c5, SMT
  <2>2. /\ Descending(a, b, c, d, f, e, g, h, k) + e = Descending(a, b, c, d, e, f, g, h, k) + f
        /\ Ascending(a, b, c, d, f, e, g, h, k) + f = Ascending(a, b, c, d, e, f, g, h, k) + e
    BY SMT DEF Descending, Ascending
  <2>3. digits[i] = e /\ digits[i + 1] = f
    BY <1>4, <1>c5
  <2>4. QED
    BY <1>1, <1>3, <1>5, <2>1, <2>2, <2>3, Zenon DEF S
<1>c6. CASE i = 6
  <2>1. /\ S[1] = a /\ S[2] = b /\ S[3] = c /\ S[4] = d /\ S[5] = e
        /\ S[6] = g /\ S[7] = f /\ S[8] = h /\ S[9] = k
        /\ S[10] = digits[10] /\ S[11] = digits[11]
    BY <1>2, <1>4, <1>c6, SMT
  <2>2. /\ Descending(a, b, c, d, e, g, f, h, k) + f = Descending(a, b, c, d, e, f, g, h, k) + g
        /\ Ascending(a, b, c, d, e, g, f, h, k) + g = Ascending(a, b, c, d, e, f, g, h, k) + f
    BY SMT DEF Descending, Ascending
  <2>3. digits[i] = f /\ digits[i + 1] = g
    BY <1>4, <1>c6
  <2>4. QED
    BY <1>1, <1>3, <1>5, <2>1, <2>2, <2>3, Zenon DEF S
<1>c7. CASE i = 7
  <2>1. /\ S[1] = a /\ S[2] = b /\ S[3] = c /\ S[4] = d /\ S[5] = e
        /\ S[6] = f /\ S[7] = h /\ S[8] = g /\ S[9] = k
        /\ S[10] = digits[10] /\ S[11] = digits[11]
    BY <1>2, <1>4, <1>c7, SMT
  <2>2. /\ Descending(a, b, c, d, e, f, h, g, k) + g = Descending(a, b, c, d, e, f, g, h, k) + h
        /\ Ascending(a, b, c, d, e, f, h, g, k) + h = Ascending(a, b, c, d, e, f, g, h, k) + g
    BY SMT DEF Descending, Ascending
  <2>3. digits[i] = g /\ digits[i + 1] = h
    BY <1>4, <1>c7
  <2>4. QED
    BY <1>1, <1>3, <1>5, <2>1, <2>2, <2>3, Zenon DEF S
<1>c8. CASE i = 8
  <2>1. /\ S[1] = a /\ S[2] = b /\ S[3] = c /\ S[4] = d /\ S[5] = e
        /\ S[6] = f /\ S[7] = g /\ S[8] = k /\ S[9] = h
        /\ S[10] = digits[10] /\ S[11] = digits[11]
    BY <1>2, <1>4, <1>c8, SMT
  <2>2. /\ Descending(a, b, c, d, e, f, g, k, h) + h = Descending(a, b, c, d, e, f, g, h, k) + k
        /\ Ascending(a, b, c, d, e, f, g, k, h) + k = Ascending(a, b, c, d, e, f, g, h, k) + h
    BY SMT DEF Descending, Ascending
  <2>3. digits[i] = h /\ digits[i + 1] = k
    BY <1>4, <1>c8
  <2>4. QED
    BY <1>1, <1>3, <1>5, <2>1, <2>2, <2>3, Zenon DEF S
<1>6. i \in {1, 2, 3, 4, 5, 6, 7, 8}
  OBVIOUS
<1>7. QED
  BY <1>6, <1>c1, <1>c2, <1>c3, <1>c4, <1>c5, <1>c6, <1>c7, <1>c8

\* And their remainders with it.
LEMMA Modulo ==
    ASSUME NEW D \in Nat, NEW E \in Nat, NEW x \in 0..9, NEW y \in 0..9, E + x = D + y
    PROVE  \/ E % 11 = (D % 11) + y - x
           \/ E % 11 = (D % 11) + y - x + 11
           \/ E % 11 = (D % 11) + y - x - 11
BY SMTT(60)

\* Equal first digits of a swap hide a ten, and then the second digits differ.
LEMMA DigitsTell ==
    ASSUME NEW x \in 0..9, NEW y \in 0..9, x # y,
           NEW d \in 0..10, NEW e \in 0..10, NEW a \in 0..10, NEW b \in 0..10,
           e = d + y - x \/ e = d + y - x + 11 \/ e = d + y - x - 11,
           b = a + x - y \/ b = a + x - y + 11 \/ b = a + x - y - 11,
           (IF d = 10 THEN 0 ELSE d) = (IF e = 10 THEN 0 ELSE e)
    PROVE  (IF a = 10 THEN 0
            ELSE IF a < (IF d = 10 THEN 2 ELSE 0) THEN a + 11 - (IF d = 10 THEN 2 ELSE 0)
                 ELSE a - (IF d = 10 THEN 2 ELSE 0)) #
           (IF b = 10 THEN 0
            ELSE IF b < (IF e = 10 THEN 2 ELSE 0) THEN b + 11 - (IF e = 10 THEN 2 ELSE 0)
                 ELSE b - (IF e = 10 THEN 2 ELSE 0))
<1>1. (d = 10 /\ e = 0) \/ (d = 0 /\ e = 10)
  BY SMT
<1>2. CASE d = 10 /\ e = 0
  BY <1>2, SMT
<1>3. CASE d = 0 /\ e = 10
  BY <1>3, SMT
<1>4. QED
  BY <1>1, <1>2, <1>3

LEMMA SumsTyped ==
    ASSUME NEW digits, \A j \in Body : digits[j] \in 0..9
    PROVE  /\ Weighted(digits, DescendingWeight) \in Nat
           /\ Weighted(digits, AscendingWeight) \in Nat
<1>p1. PICK a \in Nat : digits[1] = a
  BY DEF Body
<1>p2. PICK b \in Nat : digits[2] = b
  BY DEF Body
<1>p3. PICK c \in Nat : digits[3] = c
  BY DEF Body
<1>p4. PICK d \in Nat : digits[4] = d
  BY DEF Body
<1>p5. PICK e \in Nat : digits[5] = e
  BY DEF Body
<1>p6. PICK f \in Nat : digits[6] = f
  BY DEF Body
<1>p7. PICK g \in Nat : digits[7] = g
  BY DEF Body
<1>p8. PICK h \in Nat : digits[8] = h
  BY DEF Body
<1>p9. PICK k \in Nat : digits[9] = k
  BY DEF Body
<1>1. /\ DescendingWeight[1] = 9 /\ DescendingWeight[2] = 8 /\ DescendingWeight[3] = 7 /\ DescendingWeight[4] = 6
      /\ DescendingWeight[5] = 5 /\ DescendingWeight[6] = 4 /\ DescendingWeight[7] = 3
      /\ DescendingWeight[8] = 2 /\ DescendingWeight[9] = 1
  BY SMT DEF DescendingWeight, Body
<1>2. /\ AscendingWeight[1] = 1 /\ AscendingWeight[2] = 2 /\ AscendingWeight[3] = 3 /\ AscendingWeight[4] = 4
      /\ AscendingWeight[5] = 5 /\ AscendingWeight[6] = 6 /\ AscendingWeight[7] = 7
      /\ AscendingWeight[8] = 8 /\ AscendingWeight[9] = 9
  BY SMT DEF AscendingWeight, Body
<1>3. Weighted(digits, DescendingWeight) =
        a * 9 + b * 8 + c * 7 + d * 6 + e * 5 + f * 4 + g * 3 + h * 2 + k * 1
  BY <1>1, <1>p1, <1>p2, <1>p3, <1>p4, <1>p5, <1>p6, <1>p7, <1>p8, <1>p9, Zenon DEF Weighted
<1>4. Weighted(digits, AscendingWeight) =
        a * 1 + b * 2 + c * 3 + d * 4 + e * 5 + f * 6 + g * 7 + h * 8 + k * 9
  BY <1>2, <1>p1, <1>p2, <1>p3, <1>p4, <1>p5, <1>p6, <1>p7, <1>p8, <1>p9, Zenon DEF Weighted
<1>5. a * 9 + b * 8 + c * 7 + d * 6 + e * 5 + f * 4 + g * 3 + h * 2 + k * 1 \in Nat
  BY SMT
<1>6. a * 1 + b * 2 + c * 3 + d * 4 + e * 5 + f * 6 + g * 7 + h * 8 + k * 9 \in Nat
  BY SMT
<1>7. QED
  BY <1>3, <1>4, <1>5, <1>6

LEMMA DigitsSumsTyped ==
    ASSUME NEW digits \in Digits
    PROVE  /\ Weighted(digits, DescendingWeight) \in Nat
           /\ Weighted(digits, AscendingWeight) \in Nat
BY SumsTyped DEF Digits, Body

\* No number is valid both before and after the swap.
LEMMA Caught ==
    ASSUME NEW digits \in Digits, NEW i \in 1..8, digits[i] # digits[i + 1],
           ValidCnh(digits), ValidCnh(Swapped(digits, i))
    PROVE  FALSE
<1> DEFINE S == Swapped(digits, i)
           D == Weighted(digits, DescendingWeight)
           E == Weighted(S, DescendingWeight)
           A == Weighted(digits, AscendingWeight)
           B == Weighted(S, AscendingWeight)
<1>1. /\ S \in Digits
      /\ E + digits[i] = D + digits[i + 1] /\ B + digits[i + 1] = A + digits[i]
      /\ S[10] = digits[10] /\ S[11] = digits[11]
  BY SwapShifts
<1>2. D \in Nat /\ E \in Nat /\ A \in Nat /\ B \in Nat
  BY <1>1, DigitsSumsTyped
<1>3. /\ FirstDigit(digits) = FirstDigit(S)
      /\ SecondDigit(digits) = SecondDigit(S)
  BY <1>1 DEF ValidCnh
<1>4. digits[i] \in 0..9 /\ digits[i + 1] \in 0..9
  BY SMT DEF Digits
<1> HIDE DEF S, D, E, A, B
<1>5. PICK x \in 0..9, y \in 0..9 : x = digits[i] /\ y = digits[i + 1]
  BY <1>4
<1>6. PICK d \in 0..10, e \in 0..10 : d = D % 11 /\ e = E % 11
  BY <1>2, SMT
<1>7. PICK a \in 0..10, b \in 0..10 : a = A % 11 /\ b = B % 11
  BY <1>2, SMT
<1>8. /\ e = d + y - x \/ e = d + y - x + 11 \/ e = d + y - x - 11
      /\ b = a + x - y \/ b = a + x - y + 11 \/ b = a + x - y - 11
  <2>1. E + x = D + y /\ B + y = A + x
    BY <1>1, <1>5
  <2>2. \/ E % 11 = (D % 11) + y - x
        \/ E % 11 = (D % 11) + y - x + 11
        \/ E % 11 = (D % 11) + y - x - 11
    BY <1>2, <2>1, Modulo
  <2>3. \/ B % 11 = (A % 11) + x - y
        \/ B % 11 = (A % 11) + x - y + 11
        \/ B % 11 = (A % 11) + x - y - 11
    BY <1>2, <2>1, Modulo
  <2>4. QED
    BY <1>6, <1>7, <2>2, <2>3
<1>9. (IF d = 10 THEN 0 ELSE d) = (IF e = 10 THEN 0 ELSE e)
  BY <1>3, <1>6, Zenon DEF FirstDigit, D, E
<1>10. (IF a = 10 THEN 0
        ELSE IF a < (IF d = 10 THEN 2 ELSE 0) THEN a + 11 - (IF d = 10 THEN 2 ELSE 0)
             ELSE a - (IF d = 10 THEN 2 ELSE 0)) =
       (IF b = 10 THEN 0
        ELSE IF b < (IF e = 10 THEN 2 ELSE 0) THEN b + 11 - (IF e = 10 THEN 2 ELSE 0)
             ELSE b - (IF e = 10 THEN 2 ELSE 0))
  BY <1>3, <1>6, <1>7, Zenon DEF SecondDigit, Discount, D, E, A, B
<1>11. x # y
  BY <1>5
<1>12. QED
  BY <1>8, <1>9, <1>10, <1>11, DigitsTell

\* Nine digits and the two computed from them are a number.
LEMMA CompletedTyped == ASSUME NEW body \in Bodies PROVE Completed(body) \in Digits
<1>1. body \in [1..9 -> 0..9]
  BY CnhAssumption DEF CnhAssumption
<1>2. \A j \in Body : body[j] \in 0..9
  BY <1>1 DEF Body
<1>3. PICK D \in Nat, A \in Nat :
        D = Weighted(body, DescendingWeight) /\ A = Weighted(body, AscendingWeight)
  BY <1>2, SumsTyped
<1>4. FirstDigit(body) \in 0..9
  BY <1>3, SMT DEF FirstDigit
<1>5. SecondDigit(body) \in Nat
  BY <1>3, SMT DEF SecondDigit, Discount
<1>6. SecondDigit(body) % 10 \in 0..9
  BY <1>5, SMT
<1> QED
  BY <1>1, <1>4, <1>6, SMT DEF Completed, Body, Digits

LEMMA CnhInitTyped == CnhInit => CnhTypeOK
<1> SUFFICES ASSUME CnhInit PROVE CnhTypeOK
  OBVIOUS
<1>1. CASE \E body \in Bodies : typed = Completed(body)
  BY <1>1, CompletedTyped DEF CnhInit, CnhTypeOK, Digits
<1>2. CASE typed \in DOMAIN Known
  BY <1>2, CnhAssumption DEF CnhAssumption, CnhInit, CnhTypeOK
<1> QED BY <1>1, <1>2 DEF CnhInit

LEMMA CnhStep == CnhTypeOK /\ [CnhNext]_cnhVars => CnhTypeOK'
<1>1. ASSUME CnhTypeOK, NEW i \in 1..8, Mistype(i) PROVE CnhTypeOK'
  <2>1. typed' \in Digits
    BY <1>1, SwapShifts DEF Mistype, CnhTypeOK, Digits
  <2> QED BY <1>1, <2>1 DEF Mistype, CnhTypeOK, Digits
<1>2. QED
  BY <1>1, CnhAssumption
     DEF CnhAssumption, CnhNext, AskValidation, ProviderAnswer, cnhVars, CnhTypeOK

\* A valid number with two unequal neighbouring digits of its body swapped is not
\* valid, for every number: validateCnh notices each such mistake.
THEOREM SwapsAreCaught == CnhSpec => []SwapIsCaught
<1>1. CnhTypeOK => SwapIsCaught
  BY Caught DEF CnhTypeOK, Digits, SwapIsCaught
<1>2. QED
  BY <1>1, CnhInitTyped, CnhStep, PTL DEF CnhSpec

(***************************************************************************)
(* The services together                                                   *)
(***************************************************************************)
LEMMA EachStep ==
    ASSUME [ServicesNext]_servicesVars
    PROVE  /\ [Next]_vars /\ [TelemetryNext]_telemetryVars /\ [RatingsNext]_ratingsVars
           /\ [AvailabilityNext]_availabilityVars /\ [AcademyNext]_academyVars
           /\ [ChecklistNext]_checklistVars /\ [VehiclesNext]_vehiclesVars /\ [CnhNext]_cnhVars
BY DEF ServicesNext, Others, servicesVars

\* Side by side every service behaves as its own module says: what is proved of one
\* holds of it in the company of the others.
THEOREM Composition ==
    ServicesSpec => /\ Spec /\ TelemetrySpec /\ RatingsSpec /\ AvailabilitySpec /\ AcademySpec
                    /\ ChecklistSpec /\ VehiclesSpec /\ CnhSpec
<1>1. ServicesInit => /\ Init /\ TelemetryInit /\ RatingsInit /\ AvailabilityInit /\ AcademyInit
                      /\ ChecklistInit /\ VehiclesInit /\ CnhInit
  BY DEF ServicesInit
<1> QED BY <1>1, EachStep, PTL
        DEF ServicesSpec, Spec, TelemetrySpec, RatingsSpec, AvailabilitySpec, AcademySpec,
            ChecklistSpec, VehiclesSpec, CnhSpec

\* Rows, requests and histories of every service keep the columns and values of the
\* code, for any number of each.
THEOREM ServicesTyped == ServicesSpec => []ServicesTypeOK
<1>1. Spec => []TypeOK
  BY Typed
<1>2. TelemetryInv => TelemetryTypeOK
  BY DEF TelemetryInv
<1>3. RatingsInv => RatingsTypeOK
  BY DEF RatingsInv
<1>4. AvailabilityInv => AvailabilityTypeOK
  BY DEF AvailabilityInv
<1>5. AcademyInv => AcademyTypeOK
  BY DEF AcademyInv
<1>6. ChecklistInv => ChecklistTypeOK
  BY DEF ChecklistInv
<1>7. VehiclesInv => VehiclesTypeOK
  BY DEF VehiclesInv
<1>8. TelemetrySpec => []TelemetryTypeOK
  BY <1>2, TelemetryInitInv, TelemetryStep, PTL DEF TelemetrySpec
<1>9. RatingsSpec => []RatingsTypeOK
  BY <1>3, RatingsInitInv, RatingsStep, PTL DEF RatingsSpec
<1>10. AvailabilitySpec => []AvailabilityTypeOK
  BY <1>4, AvailabilityInitInv, AvailabilityStep, PTL DEF AvailabilitySpec
<1>11. AcademySpec => []AcademyTypeOK
  BY <1>5, AcademyInitInv, AcademyStep, PTL DEF AcademySpec
<1>12. ChecklistSpec => []ChecklistTypeOK
  BY <1>6, ChecklistInitInv, ChecklistStep, PTL DEF ChecklistSpec
<1>13. VehiclesSpec => []VehiclesTypeOK
  BY <1>7, VehiclesInitInv, VehiclesStep, PTL DEF VehiclesSpec
<1>14. CnhSpec => []CnhTypeOK
  BY CnhInitTyped, CnhStep, PTL DEF CnhSpec
<1>15. QED
  BY <1>1, <1>8, <1>9, <1>10, <1>11, <1>12, <1>13, <1>14, Composition, PTL DEF ServicesTypeOK

\* What each service guarantees holds of all of them together.
THEOREM Guarantees ==
    ServicesSpec =>
        /\ [](TokenUsedOnce /\ LatestTokenStays) /\ OnlyLatestResets
        /\ [](HashCoversTelemetry /\ EventsMatchTelemetry)
        /\ [](RatingIsAverage /\ GridIsReplaced /\ PoolIsRecent /\ OneVehicle /\ SwapIsCaught)
        /\ []ChecklistIsEarned /\ ReportIsCurrent
BY Composition, SingleUse, LastStays, LastResets, HashCovers, EventsMatch, ShowsAverage,
   GridReplaced, PoolRecent, KeepsOneVehicle, SwapsAreCaught, ChecklistEarned, ReportsAreCurrent,
   PTL
=============================================================================
