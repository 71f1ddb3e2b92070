------------------------------ MODULE Telemetry ------------------------------
(***************************************************************************)
(* The telemetry of one lesson and the hash that seals it.  registerBatch  *)
(* looks at the status of the lesson, then inserts the points, then derives*)
(* the speeding events; checkOut reads the points, hashes them and only    *)
(* then completes the lesson.  Each await lets other handlers in, and the  *)
(* server of any of them may die there.                                    *)
(***************************************************************************)
EXTENDS Naturals, Handlers

CONSTANTS
    Batches,        \* bound: the batches the app sends; one sent again is another batch
    Velocities      \* [Batches -> the velocities, in km/h, of the batch's points]

ASSUME TelemetryAssumption == Velocities \in [Batches -> SUBSET Nat]

VARIABLES
    record,         \* the lesson: is it completed or cancelled, who wrote its hash, of what
    batch,          \* [Batches -> how far registerBatch has come with it]
    stored,         \* batches whose points are in LessonTelemetry
    events,         \* rows of LessonEvent: the batch and the velocity they were derived from
    checkOut,       \* [Requests -> checkOut]
    seal,           \* history: what was acknowledged, and admitted, when the hash was made
    reopened        \* history: has a client reopened the lesson since

telemetryVars == <<record, batch, stored, events, checkOut, seal, reopened>>

\* A hash stands for the batches whose points it was computed from.
RecordRow == [closed : BOOLEAN, by : {"none", "checkOut", "client"}, hash : SUBSET Batches]

CheckOutSlot == [at : {"idle", "save"}, hash : SUBSET Batches, acked : SUBSET Batches]

NoCheckOut == [at |-> "idle", hash |-> {}, acked |-> {}]

TelemetryInit ==
    /\ record = [closed |-> FALSE, by |-> "none", hash |-> {}]
    /\ batch = [b \in Batches |-> "new"]
    /\ stored = {} /\ events = {}
    /\ checkOut = [r \in Requests |-> NoCheckOut]
    /\ seal = [acked |-> {}, admitted |-> {}]
    /\ reopened = FALSE

BatchesAt(stages) == {b \in Batches : batch[b] \in stages}
Advance(b, stage) == batch' = [batch EXCEPT ![b] = stage]

(***************************************************************************)
(* registerBatch, analyzeTelemetry                                         *)
(***************************************************************************)
SPEED_THRESHOLD == 60

SpeedEvents(b) == {<<b, v>> : v \in {w \in Velocities[b] : w > SPEED_THRESHOLD}}

\* Mutant: the status of the lesson is not looked at.
RegisterBatch_AnyStatus(b) ==
    /\ batch[b] = "new"
    /\ Advance(b, "insert")
    /\ UNCHANGED <<record, stored, events, checkOut, seal, reopened>>

\* Mutant: the events are derived before the points are stored.
RegisterBatch_EventsFirst(b) ==
    /\ batch[b] = "new" /\ ~record.closed
    /\ Advance(b, "insert")
    /\ events' = events \cup SpeedEvents(b)
    /\ UNCHANGED <<record, stored, checkOut, seal, reopened>>

\* A batch for a completed or cancelled lesson is turned down and may be sent later.
RegisterBatch(b) ==
    /\ batch[b] = "new" /\ ~record.closed
    /\ Advance(b, "insert")
    /\ UNCHANGED <<record, stored, events, checkOut, seal, reopened>>

StorePoints(b) ==
    /\ batch[b] = "insert"
    /\ stored' = stored \cup {b}
    /\ Advance(b, "analyze")
    /\ UNCHANGED <<record, events, checkOut, seal, reopened>>

AnalyzeTelemetry(b) ==
    /\ batch[b] = "analyze"
    /\ events' = events \cup SpeedEvents(b)
    /\ Advance(b, "done")
    /\ UNCHANGED <<record, stored, checkOut, seal, reopened>>

\* Nothing resumes a batch whose server dies; its points stay if they were stored.
BatchCrash(b) ==
    /\ batch[b] \in {"insert", "analyze"}
    /\ Advance(b, "lost")
    /\ UNCHANGED <<record, stored, events, checkOut, seal, reopened>>

(***************************************************************************)
(* checkOut and generateLessonHash, checkIn, PATCH /lessons/:id            *)
(***************************************************************************)
GenerateLessonHash(r) ==
    /\ checkOut[r].at = "idle"
    /\ checkOut' = [checkOut EXCEPT ![r] =
                      [at |-> "save", hash |-> stored, acked |-> BatchesAt({"done"})]]
    /\ UNCHANGED <<record, batch, stored, events, seal, reopened>>

\* The status is not part of the condition: a lesson may be completed again.
SaveCheckOut(r) ==
    /\ checkOut[r].at = "save"
    /\ record' = [closed |-> TRUE, by |-> "checkOut", hash |-> checkOut[r].hash]
    /\ seal' = [acked |-> checkOut[r].acked, admitted |-> Batches \ BatchesAt({"new"})]
    /\ reopened' = FALSE
    /\ checkOut' = [checkOut EXCEPT ![r] = NoCheckOut]
    /\ UNCHANGED <<batch, stored, events>>

CheckOutCrash(r) ==
    /\ checkOut[r].at = "save"
    /\ checkOut' = [checkOut EXCEPT ![r] = NoCheckOut]
    /\ UNCHANGED <<record, batch, stored, events, seal, reopened>>

\* No condition on the status either: check-in opens any lesson of the instructor.
ReopenByCheckIn ==
    /\ record' = [record EXCEPT !.closed = FALSE]
    /\ reopened' = TRUE
    /\ UNCHANGED <<batch, stored, events, checkOut, seal>>

\* Any status and any hash a client sends; the guard of a lesson in dispute, which
\* no code opens, is in LessonLifecycle.
PatchLesson(closed, hash) ==
    /\ record' = [closed |-> closed,
                  by |-> IF hash = "absent" THEN record.by
                         ELSE IF hash = "null" THEN "none" ELSE "client",
                  hash |-> IF hash = "absent" THEN record.hash ELSE {}]
    /\ reopened' = (reopened \/ ~closed)
    /\ UNCHANGED <<batch, stored, events, checkOut, seal>>

TelemetryNext ==
    \/ \E b \in Batches :
         RegisterBatch(b) \/ StorePoints(b) \/ AnalyzeTelemetry(b) \/ BatchCrash(b)
    \/ \E r \in Requests : GenerateLessonHash(r) \/ SaveCheckOut(r) \/ CheckOutCrash(r)
    \/ ReopenByCheckIn
    \/ \E closed \in BOOLEAN, hash \in {"absent", "null", "text"} : PatchLesson(closed, hash)

TelemetrySpec == TelemetryInit /\ [][TelemetryNext]_telemetryVars

(***************************************************************************)
(* Properties                                                              *)
(***************************************************************************)
\* Rows, batches and check-outs have the columns and values of the code.
TelemetryTypeOK ==
    /\ record \in RecordRow
    /\ batch \in [Batches -> {"new", "insert", "analyze", "done", "lost"}]
    /\ stored \subseteq Batches
    /\ events \subseteq Batches \X Nat
    /\ checkOut \in [Requests -> CheckOutSlot]
    /\ seal \in [acked : SUBSET Batches, admitted : SUBSET Batches]
    /\ reopened \in BOOLEAN

\* The hash of a check-out covers every batch that was acknowledged when it was
\* computed, and nothing but stored points.  What is stored beside it was past the
\* status check when the lesson was completed, unless a client has reopened the
\* lesson: registerBatch and checkOut share no transaction, and that is the gap.
HashCoversTelemetry ==
    record.by = "checkOut" =>
        /\ seal.acked \subseteq record.hash
        /\ record.hash \subseteq stored
        /\ ~reopened => stored \ record.hash \subseteq seal.admitted

\* No speeding event without the stored telemetry that shows it, wherever servers
\* die, and no acknowledged batch whose speeding has not been made an event.
EventsMatchTelemetry ==
    /\ \A e \in events : e[1] \in stored /\ e[2] > SPEED_THRESHOLD
    /\ \A b \in BatchesAt({"done"}) : \A v \in Velocities[b] :
          v > SPEED_THRESHOLD => <<b, v>> \in events

(***************************************************************************)
(* What makes them so                                                      *)
(***************************************************************************)
BatchInv(b) ==
    /\ batch[b] \in {"analyze", "done"} => b \in stored
    /\ batch[b] \in {"new", "insert"} => b \notin stored
    /\ record.by = "checkOut" /\ ~reopened => batch[b] = "new" \/ b \in seal.admitted

SealInv == record.by = "checkOut" /\ ~reopened => record.closed

CheckOutInv(r) ==
    checkOut[r].at = "save" =>
        /\ checkOut[r].acked \subseteq checkOut[r].hash
        /\ checkOut[r].hash \subseteq stored

\* Inductive.
TelemetryInv ==
    /\ TelemetryTypeOK
    /\ HashCoversTelemetry /\ EventsMatchTelemetry /\ SealInv
    /\ \A b \in Batches : BatchInv(b)
    /\ \A r \in Requests : CheckOutInv(r)
=============================================================================
