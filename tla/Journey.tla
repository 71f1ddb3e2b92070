------------------------------ MODULE Journey ------------------------------
(***************************************************************************)
(* One student's journey: the handlers of the theory course, RENACH and    *)
(* LADV modules write their columns and then JourneyService.refresh        *)
(* recomputes the stored stage from three separate reads, while other      *)
(* requests, lessons, the passing of days and the nightly                  *)
(* CredentialsWorker change the rows.  Handlers write only the student     *)
(* they were called for, so students do not affect each other.             *)
(***************************************************************************)
EXTENDS JourneyStage

CONSTANTS
    Requests,       \* requests in flight
    Lessons,        \* lesson rows of the student
    LessonRows,     \* what lessons come to be
    Documents,      \* LADV documents there are
    Horizon,        \* bound: the last day a LADV is valid until
    MaxStarts       \* bound: requests ever received

ASSUME JourneyAssumption ==
    /\ Horizon \in Nat /\ MaxStarts \in Nat
    /\ LessonRows \subseteq LessonRow
    /\ Documents \subseteq Document

VARIABLES
    student,        \* the Student row without journeyStage
    stage,          \* Student.journeyStage
    renach,         \* the RenachProcess row
    lesson,         \* [Lessons -> lesson row as loadSnapshot sees it]
    today,          \* the clock
    worker,         \* CredentialsWorker: "idle", or "found" between its read and its write
    req,            \* [Requests -> request]
    started,        \* requests received so far
    booked,         \* a lesson has passed the journey gate of LessonsService.create
    held,           \* history: facts that have been true
    drifted         \* history: rows changed, or requests overlapped, since the last refresh

vars == <<student, stage, renach, lesson, today, worker, req, started, booked, held, drifted>>

\* read: which of the two queries of Promise.all have come back.
Slot == [at : {"idle", "student", "rest", "save"}, kind : {"refresh", "declare", "book"},
         read : SUBSET {"renach", "lessons"}, student : StudentRow, renach : RenachRow,
         practical : Practical, stage : Stage]

Idle == [at |-> "idle", kind |-> "refresh", read |-> {}, student |-> Registered,
         renach |-> NoRenach, practical |-> NoPractice, stage |-> "REGISTERED"]

At(r, at) == req[r].at = at
Goto(r, slot) == req' = [req EXCEPT ![r] = slot]
Finish(r) == Goto(r, Idle)

Begin(r, kind) ==
    /\ At(r, "idle")
    /\ started < MaxStarts /\ started' = started + 1
    /\ Goto(r, [Idle EXCEPT !.at = "student", !.kind = kind])

\* A request that is to write the stage.
Writes(r) == ~At(r, "idle") /\ req[r].kind # "book"

Quiet == \A r \in Requests : ~Writes(r)

\* A handler that writes the stage; alone, it leaves it current.
BeginWrite(r, kind) == Begin(r, kind) /\ drifted' = ~Quiet

\* What the rows show.
FactsNow == Facts(student, renach, Summary(lesson), today)

Init ==
    /\ student = Registered
    /\ stage = "REGISTERED"
    /\ renach = NoRenach
    /\ lesson = [l \in Lessons |-> NoLesson]
    /\ today = 1
    /\ worker = "idle"
    /\ req = [r \in Requests |-> Idle] /\ started = 0
    /\ booked = FALSE
    /\ held = FactsNow
    /\ drifted = FALSE

(***************************************************************************)
(* The writes that are followed by a refresh                               *)
(***************************************************************************)
StartTheoryCourse(r) ==
    /\ BeginWrite(r, "refresh")
    /\ student' = [student EXCEPT !.theory = TRUE]
    /\ UNCHANGED <<stage, renach, lesson, today, worker, booked>>

\* schedule: a process that is DONE becomes SCHEDULED again and keeps its number.
ScheduleRenach(r) ==
    /\ BeginWrite(r, "refresh")
    /\ renach' = [renach EXCEPT !.status = "SCHEDULED"]
    /\ UNCHANGED <<student, stage, lesson, today, worker, booked>>

\* submit; complete does the same to a row that exists, and no row is ever deleted.
FinishRenach(r) ==
    /\ BeginWrite(r, "refresh")
    /\ renach' = [status |-> "DONE", number |-> TRUE]
    /\ UNCHANGED <<student, stage, lesson, today, worker, booked>>

\* persist
SaveLadv(r, number, until, status) ==
    /\ BeginWrite(r, "refresh")
    /\ student' = [student EXCEPT !.number = number, !.until = until, !.status = status]
    /\ UNCHANGED <<stage, renach, lesson, today, worker, booked>>

\* uploadFromFile: a document that fails is turned down and changes nothing.
UploadLadv(r, doc) ==
    /\ ParsedStatus(doc, today) # "FAIL"
    /\ SaveLadv(r, doc.number, doc.until, ParsedStatus(doc, today))

\* saveManual, and uploadTestMode whose date is a year ahead.
EnterLadv(r, until) ==
    /\ until > today
    /\ SaveLadv(r, TRUE, until, "PASS")

(***************************************************************************)
(* loadSnapshot and what follows it                                        *)
(***************************************************************************)
DeclareReady(r) ==
    /\ BeginWrite(r, "declare")
    /\ UNCHANGED <<student, stage, renach, lesson, today, worker, booked>>

\* One booking is followed: a second one changes nothing here.
BookLesson(r) ==
    /\ ~booked
    /\ Begin(r, "book")
    /\ UNCHANGED <<student, stage, renach, lesson, today, worker, booked, drifted>>

Unwritten == <<student, stage, renach, lesson, today, worker, booked, started>>

LoadStudent(r) ==
    /\ At(r, "student")
    /\ Goto(r, [req[r] EXCEPT !.at = "rest", !.student = student])
    /\ UNCHANGED Unwritten /\ UNCHANGED drifted

\* declareReadyForExam sets its timestamp in the snapshot before it computes.
Result(slot) ==
    ComputeStage([slot.student EXCEPT !.ready = @ \/ slot.kind = "declare"],
                 slot.renach, slot.practical, today)

\* Mutant: ready is declared whatever the minutes.
Refused_NoMinimum(slot) == slot.kind = "book" /\ ~CanSchedule(Result(slot))

\* The 400s of declareReadyForExam and assertCanScheduleLesson.
Refused(slot) ==
    \/ slot.kind = "declare" /\ ~slot.practical.minimum
    \/ slot.kind = "book" /\ ~CanSchedule(Result(slot))

\* A query of Promise.all comes back; with the second one the stage is computed.
Loaded(r, slot) ==
    /\ \/ slot.read # {"renach", "lessons"} /\ Goto(r, slot) /\ UNCHANGED drifted
       \/ /\ slot.read = {"renach", "lessons"} /\ Refused(slot)
          /\ Finish(r) /\ drifted' = (drifted \/ slot.kind = "declare")
       \/ /\ slot.read = {"renach", "lessons"} /\ ~Refused(slot)
          /\ Goto(r, [Idle EXCEPT !.at = "save", !.kind = slot.kind, !.stage = Result(slot)])
          /\ UNCHANGED drifted
    /\ UNCHANGED Unwritten

LoadRenach(r) ==
    /\ At(r, "rest") /\ "renach" \notin req[r].read
    /\ Loaded(r, [req[r] EXCEPT !.read = @ \cup {"renach"}, !.renach = renach])

LoadLessons(r) ==
    /\ At(r, "rest") /\ "lessons" \notin req[r].read
    /\ Loaded(r, [req[r] EXCEPT !.read = @ \cup {"lessons"}, !.practical = Summary(lesson)])

\* Mutant: the stage is not stored with the declaration.
Save_TimestampOnly(r) ==
    /\ At(r, "save")
    /\ \/ req[r].kind = "refresh" /\ stage' = req[r].stage /\ UNCHANGED <<student, booked>>
       \/ req[r].kind = "declare" /\ student' = [student EXCEPT !.ready = TRUE] /\ UNCHANGED <<stage, booked>>
       \/ req[r].kind = "book" /\ booked' = TRUE /\ UNCHANGED <<student, stage>>
    /\ Finish(r)
    /\ UNCHANGED <<renach, lesson, today, worker, started, drifted>>

Save(r) ==
    /\ At(r, "save")
    /\ \/ req[r].kind = "refresh" /\ stage' = req[r].stage /\ UNCHANGED <<student, booked>>
       \/ /\ req[r].kind = "declare"
          /\ stage' = req[r].stage
          /\ student' = [student EXCEPT !.ready = TRUE]
          /\ UNCHANGED booked
       \/ req[r].kind = "book" /\ booked' = TRUE /\ UNCHANGED <<student, stage>>
    /\ Finish(r)
    /\ UNCHANGED <<renach, lesson, today, worker, started, drifted>>

Crash(r) ==
    /\ ~At(r, "idle")
    /\ Finish(r)
    /\ drifted' = (drifted \/ Writes(r))
    /\ UNCHANGED Unwritten

(***************************************************************************)
(* Changes no refresh follows                                              *)
(***************************************************************************)
\* handleExpiredCredentials, the LADV sweep: findMany, then updateMany by id.
WorkerFind ==
    /\ worker = "idle"
    /\ student.until # 0 /\ student.until < today
    /\ worker' = "found"
    /\ UNCHANGED <<student, stage, renach, lesson, today, req, started, booked, drifted>>

\* Mutant: the sweep only clears ladvUploaded.
WorkerSave_FlagOnly ==
    /\ worker = "found"
    /\ worker' = "idle"
    /\ UNCHANGED <<student, stage, renach, lesson, today, req, started, booked, drifted>>

WorkerSave ==
    /\ worker = "found"
    /\ worker' = "idle"
    /\ student' = [student EXCEPT !.status = "FAIL"]
    /\ drifted' = TRUE
    /\ UNCHANGED <<stage, renach, lesson, today, req, started, booked>>

\* Midnight: what was valid until today no longer is.
Tick ==
    /\ today <= Horizon
    /\ today' = today + 1
    /\ drifted' = TRUE
    /\ UNCHANGED <<student, stage, renach, lesson, worker, req, started, booked>>

\* Check-out, biometry and PATCH write lessons (LessonLifecycle); none refreshes.
LessonChanges(l, row) ==
    /\ lesson[l] # row
    /\ lesson' = [lesson EXCEPT ![l] = row]
    /\ drifted' = TRUE
    /\ UNCHANGED <<student, stage, renach, today, worker, req, started, booked>>

(***************************************************************************)
(* The specification                                                       *)
(***************************************************************************)
Start(r) ==
    \/ StartTheoryCourse(r) \/ ScheduleRenach(r) \/ FinishRenach(r)
    \/ DeclareReady(r) \/ BookLesson(r)
    \/ \E doc \in Documents : UploadLadv(r, doc)
    \/ \E until \in 1..Horizon : EnterLadv(r, until)

Continue(r) == LoadStudent(r) \/ LoadRenach(r) \/ LoadLessons(r) \/ Save(r)

Step ==
    \/ \E r \in Requests : Start(r) \/ Continue(r) \/ Crash(r)
    \/ WorkerFind \/ WorkerSave \/ Tick
    \/ \E l \in Lessons, row \in LessonRows : LessonChanges(l, row)

\* Every step adds to the history what the rows then show.
Observe == held' = held \cup FactsNow'

Next == Step /\ Observe

Spec == Init /\ [][Next]_vars

\* Days pass, and the worker runs every midnight.
LiveSpec == Spec /\ WF_vars(Tick /\ Observe)
                 /\ WF_vars(WorkerFind /\ Observe) /\ WF_vars(WorkerSave /\ Observe)

(***************************************************************************)
(* Properties                                                              *)
(***************************************************************************)
\* Rows, requests and history have the columns and values of the code.
TypeOK ==
    /\ student \in StudentRow /\ stage \in Stage /\ renach \in RenachRow
    /\ lesson \in [Lessons -> LessonRow]
    /\ today \in 1..Horizon + 1 /\ worker \in {"idle", "found"}
    /\ req \in [Requests -> Slot]
    /\ started \in 0..MaxStarts
    /\ booked \in BOOLEAN /\ held \subseteq Fact /\ drifted \in BOOLEAN

\* README.md:19-20: no race of snapshots and writes stores a stage whose
\* conditions have not, each of them, been true of the student.
StageIsEarned == Needs[stage] \subseteq held

\* business-logic.md:127: whoever is on record as ready has had 120 valid minutes.
ReadyWasEarned == student.ready => "minimum" \in held

\* README.md:21: a lesson was only booked by a student with RENACH and LADV done,
\* whatever the stored stage said meanwhile.
BookedWithLadv == booked => {"renachDone", "ladv"} \subseteq held

\* What makes these so: a snapshot in flight shows facts that have been true.
SnapshotInv(r) ==
    /\ Facts(req[r].student, req[r].renach, req[r].practical, today) \subseteq held
    /\ req[r].student.ready => student.ready
    /\ At(r, "student") => req[r].read = {}
    /\ At(r, "save") =>
         /\ Needs[req[r].stage] \subseteq held
         /\ req[r].kind = "declare" => "minimum" \in held
         /\ req[r].kind = "book" => CanSchedule(req[r].stage)

\* What the stage is of the present rows, for a student about to declare or not.
StageNow(declares) ==
    ComputeStage([student EXCEPT !.ready = @ \/ declares], renach, Summary(lesson), today)

\* business-logic.md:64: when requests did not overlap and nothing else has
\* changed the rows since, the refresh has left the stage of the present rows.
StageIsCurrent == Quiet /\ ~drifted => stage = StageNow(FALSE)

\* What makes it so: undisturbed, a single request writes, and has read the present rows.
Alone(r) == \A q \in Requests : Writes(q) => q = r

ReadsPresent(r) ==
    /\ At(r, "rest") =>
         /\ req[r].student = student
         /\ "renach" \in req[r].read => req[r].renach = renach
         /\ "lessons" \in req[r].read => req[r].practical = Summary(lesson)
    /\ At(r, "save") => req[r].stage = StageNow(req[r].kind = "declare")

\* Inductive.
IndInv ==
    /\ TypeOK
    /\ FactsNow \subseteq held
    /\ StageIsEarned /\ ReadyWasEarned /\ BookedWithLadv /\ StageIsCurrent
    /\ \A r \in Requests :
         /\ SnapshotInv(r)
         /\ Writes(r) /\ ~drifted => Alone(r) /\ ReadsPresent(r)

\* A LADV that has expired does not stay PASS (the worker's third sweep).
ExpiredLadvFails ==
    (student.status = "PASS" /\ student.until <= today)
        ~> (student.status # "PASS" \/ student.until > today)
=============================================================================
