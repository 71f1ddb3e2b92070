----------------------------- MODULE Credentials -----------------------------
(***************************************************************************)
(* An instructor's licence to give lessons: the CNH the instructor enters, *)
(* the DETRAN credential the admin approves, the nightly CredentialsWorker *)
(* that sweeps what has expired, and stages 2 and 3 of                     *)
(* LessonsService.create, which rely on both.  Sweep, approval and booking *)
(* each read the row, give up control and write later by id.  No handler   *)
(* looks at another instructor's row, so one instructor is modelled.       *)
(*                                                                         *)
(* Instants are numbers; 0 is null.                                        *)
(***************************************************************************)
EXTENDS Naturals

CONSTANTS
    Requests,       \* approvals and bookings in flight
    CnhTexts,       \* what instructors enter as cnhExpiry
    TwoYears,
    Horizon,        \* bound: the last instant but one
    None

\* cnhExpiry is text.  The sweep compares it as text with the present in ISO
\* format: text is the last instant it is not below.  The gate makes it a Date:
\* date is the instant from which the CNH is refused, after every clock for a
\* text that is no date, because comparing an invalid Date gives false.
CnhText == [text : Nat, date : Nat]

ASSUME CredentialsAssumption ==
    /\ TwoYears \in Nat \ {0} /\ Horizon \in Nat
    /\ CnhTexts \subseteq CnhText /\ None \notin CnhTexts

VARIABLES
    instructor,     \* the Instructor row
    today,          \* the clock
    worker,         \* the sweep, with the instant it started at
    req,            \* [Requests -> request]
    booked,         \* a lesson has been created
    approved,       \* history: an admin has approved the instructor
    renewed,        \* history: the last approval came between a sweep's find and its update
    overtaken       \* history: approvals in flight that another has overtaken with its save

vars == <<instructor, today, worker, req, booked, approved, renewed, overtaken>>

InstructorRow ==
    [status : {"PENDING", "APPROVED", "EXPIRED"}, validUntil : Nat,
     cnhNumber : BOOLEAN, cnhExpiry : CnhTexts \cup {None}, active : BOOLEAN]

Worker == [at : {"idle", "cnh.update", "credential.find", "credential.update"}, now : Nat]

Slot == [at : {"idle", "approve.save", "book.save"}, until : Nat]

Idle == [at |-> "idle", until |-> 0]

At(r, at) == req[r].at = at
Goto(r, slot) == req' = [req EXCEPT ![r] = slot]
Finish(r) == Goto(r, Idle)

New(status, number, expiry) ==
    [status |-> status, validUntil |-> 0, cnhNumber |-> number, cnhExpiry |-> expiry,
     active |-> TRUE]

\* register approves at once and gives no date; POST /instructors leaves the
\* default of the schema and no CNH.
Init ==
    /\ \/ \E number \in BOOLEAN, expiry \in CnhTexts \cup {None} :
            instructor = New("APPROVED", number, expiry)
       \/ instructor = New("PENDING", FALSE, None)
    /\ today = 1
    /\ worker = [at |-> "idle", now |-> 0]
    /\ req = [r \in Requests |-> Idle]
    /\ booked = FALSE
    /\ approved = FALSE /\ renewed = FALSE /\ overtaken = {}

(***************************************************************************)
(* approveInstructor                                                       *)
(***************************************************************************)
ApproveFind(r) ==
    /\ At(r, "idle")
    /\ Goto(r, [at |-> "approve.save",
                until |-> IF instructor.validUntil > today THEN instructor.validUntil
                                                           ELSE today + TwoYears])
    /\ UNCHANGED <<instructor, today, worker, booked, approved, renewed, overtaken>>

ApproveSave(r) ==
    /\ At(r, "approve.save")
    /\ instructor' = [instructor EXCEPT !.status = "APPROVED", !.validUntil = req[r].until]
    /\ approved' = TRUE
    /\ renewed' = (worker.at = "credential.update")
    /\ overtaken' = {q \in Requests \ {r} : At(q, "approve.save")}
    /\ Finish(r)
    /\ UNCHANGED <<today, worker, booked>>

(***************************************************************************)
(* LessonsService.create, stages 2 and 3                                   *)
(***************************************************************************)
\* Mutant: the date of the credential is not looked at.
Fit_StatusOnly(i, now) ==
    /\ i.status = "APPROVED"
    /\ i.cnhNumber /\ i.cnhExpiry # None /\ i.cnhExpiry.date > now

\* What the gate asks of the row; isActive is not part of it.
Fit(i, now) ==
    /\ i.status = "APPROVED" /\ i.validUntil > now
    /\ i.cnhNumber /\ i.cnhExpiry # None /\ i.cnhExpiry.date > now

\* One booking is followed: a second one changes nothing here.
BookFind(r) ==
    /\ ~booked /\ At(r, "idle")
    /\ Fit(instructor, today)
    /\ Goto(r, [Idle EXCEPT !.at = "book.save"])
    /\ UNCHANGED <<instructor, today, worker, booked, approved, renewed, overtaken>>

BookSave(r) ==
    /\ At(r, "book.save")
    /\ booked' = TRUE
    /\ Finish(r)
    /\ UNCHANGED <<instructor, today, worker, approved, renewed, overtaken>>

(***************************************************************************)
(* Handlers with a single write                                            *)
(***************************************************************************)
\* PATCH /instructors/:id; its body may clear the CNH and cannot name the columns of
\* the credential.
Update(number, expiry) ==
    /\ instructor' = [instructor EXCEPT !.cnhNumber = number, !.cnhExpiry = expiry]
    /\ UNCHANGED <<today, worker, req, booked, approved, renewed, overtaken>>

\* Mutant: the date is reset with the status.
SeedTest_ClearsDate ==
    /\ instructor' = [instructor EXCEPT !.status = "APPROVED", !.active = TRUE, !.validUntil = 0]
    /\ UNCHANGED <<today, worker, req, booked, approved, renewed, overtaken>>

\* seedTest, in test mode: the only write that makes an instructor active again.
SeedTest ==
    /\ instructor' = [instructor EXCEPT !.status = "APPROVED", !.active = TRUE]
    /\ UNCHANGED <<today, worker, req, booked, approved, renewed, overtaken>>

(***************************************************************************)
(* handleExpiredCredentials, sweeps 1 and 2.  The present is read once, at *)
(* the start.  The sweep of students that follows is in Journey.           *)
(***************************************************************************)
CnhBehind(now) == instructor.cnhExpiry # None /\ instructor.cnhExpiry.text < now

SweepStep(at) == worker' = [worker EXCEPT !.at = at]

FindCnh ==
    /\ worker.at = "idle"
    /\ worker' = [at |-> IF CnhBehind(today) THEN "cnh.update" ELSE "credential.find",
                  now |-> today]
    /\ UNCHANGED <<instructor, today, req, booked, approved, renewed, overtaken>>

\* Mutant: the CNH sweep writes nothing.
BlockCnh_Forgotten ==
    /\ worker.at = "cnh.update"
    /\ SweepStep("credential.find")
    /\ UNCHANGED <<instructor, today, req, booked, approved, renewed, overtaken>>

BlockCnh ==
    /\ worker.at = "cnh.update"
    /\ instructor' = [instructor EXCEPT !.active = FALSE]
    /\ SweepStep("credential.find")
    /\ UNCHANGED <<today, req, booked, approved, renewed, overtaken>>

Behind(now) ==
    instructor.status = "APPROVED" /\ instructor.validUntil # 0 /\ instructor.validUntil < now

\* Mutant: what is valid until now is found too.
FindCredential_Inclusive ==
    /\ worker.at = "credential.find"
    /\ SweepStep(IF instructor.validUntil # 0 /\ instructor.validUntil <= worker.now
                 THEN "credential.update" ELSE "idle")
    /\ UNCHANGED <<instructor, today, req, booked, approved, renewed, overtaken>>

FindCredential ==
    /\ worker.at = "credential.find"
    /\ SweepStep(IF Behind(worker.now) THEN "credential.update" ELSE "idle")
    /\ UNCHANGED <<instructor, today, req, booked, approved, renewed, overtaken>>

\* Mutant: the credential is swept as the CNH is.
ExpireCredential_InactiveOnly ==
    /\ worker.at = "credential.update"
    /\ instructor' = [instructor EXCEPT !.active = FALSE]
    /\ SweepStep("idle")
    /\ UNCHANGED <<today, req, booked, approved, renewed, overtaken>>

\* updateMany by id: status and date are not looked at again.
ExpireCredential ==
    /\ worker.at = "credential.update"
    /\ instructor' = [instructor EXCEPT !.status = "EXPIRED"]
    /\ SweepStep("idle")
    /\ UNCHANGED <<today, req, booked, approved, renewed, overtaken>>

(***************************************************************************)
(* The clock, crashes                                                      *)
(***************************************************************************)
Tick ==
    /\ today <= Horizon
    /\ today' = today + 1
    /\ UNCHANGED <<instructor, worker, req, booked, approved, renewed, overtaken>>

Crash(r) ==
    /\ ~At(r, "idle")
    /\ overtaken' = overtaken \ {r}
    /\ Finish(r)
    /\ UNCHANGED <<instructor, today, worker, booked, approved, renewed>>

\* The server of the worker dies; the next night starts again.
WorkerCrash ==
    /\ worker.at # "idle"
    /\ SweepStep("idle")
    /\ UNCHANGED <<instructor, today, req, booked, approved, renewed, overtaken>>

Sweep == FindCnh \/ BlockCnh \/ FindCredential \/ ExpireCredential

Next ==
    \/ \E r \in Requests :
         ApproveFind(r) \/ ApproveSave(r) \/ BookFind(r) \/ BookSave(r) \/ Crash(r)
    \/ \E number \in BOOLEAN, expiry \in CnhTexts \cup {None} : Update(number, expiry)
    \/ SeedTest
    \/ Sweep \/ WorkerCrash
    \/ Tick

Spec == Init /\ [][Next]_vars

\* The worker runs every night; servers stop crashing at some point.
LiveSpec == Spec /\ WF_vars(Sweep) /\ <>[][~WorkerCrash]_vars

(***************************************************************************)
(* Properties                                                              *)
(***************************************************************************)
\* Rows, worker and requests have the columns and values of the code.
TypeOK ==
    /\ instructor \in InstructorRow
    /\ today \in 1..Horizon + 1
    /\ worker \in Worker /\ req \in [Requests -> Slot]
    /\ booked \in BOOLEAN /\ approved \in BOOLEAN /\ renewed \in BOOLEAN
    /\ overtaken \subseteq Requests

\* FLOW_AND_FEATURES.md:147: no lesson is booked with an instructor whom no admin
\* has approved.  register and seedTest write APPROVED themselves; what keeps the
\* gate shut is the date, which approveInstructor alone writes.
NoLessonWithoutApproval == booked => approved

\* credentials.worker.ts:18: a credential marked EXPIRED has expired, unless the
\* approval that renewed it came between the sweep's find and its update.
ExpiredIsPast == instructor.status = "EXPIRED" /\ ~renewed => instructor.validUntil < today

\* However often a credential is approved, swept and approved again, nothing shortens
\* it but an approval that another one has overtaken with its save.
DateNotLost ==
    [][instructor'.validUntil < instructor.validUntil => \E r \in overtaken : ApproveSave(r)]_vars

\* credentials.worker.ts:18: a credential that has expired does not stay APPROVED.
CredentialsExpire == Behind(today) ~> ~Behind(today)

\* README.md:37: an instructor whose CNH has expired does not stay active.
LapsedCnhBlocks ==
    (CnhBehind(today) /\ instructor.active) ~> ~(CnhBehind(today) /\ instructor.active)

\* What makes them so.
CredentialInv ==
    /\ instructor.validUntil # 0 => approved
    /\ NoLessonWithoutApproval
    /\ ExpiredIsPast
    /\ worker.now <= today
    /\ worker.at = "credential.update" /\ ~renewed => instructor.validUntil < today
    /\ \A r \in Requests :
         /\ At(r, "book.save") => approved
         /\ At(r, "approve.save") /\ r \notin overtaken => req[r].until >= instructor.validUntil

\* Inductive.
IndInv == TypeOK /\ CredentialInv
=============================================================================
