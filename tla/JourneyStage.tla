---------------------------- MODULE JourneyStage ----------------------------
(***************************************************************************)
(* The pure part of the journey: what the OCR makes of a LADV document,    *)
(* which lessons count as practice, and the stage computeStageFromData     *)
(* derives from the rows.  A date is the day it falls on, 0 is null.       *)
(***************************************************************************)
EXTENDS Naturals, FiniteSets, FiniteSetsExt

\* JOURNEY_STAGE_ORDER
Order == [REGISTERED |-> 0, THEORY_COURSE_IN_PROGRESS |-> 1, RENACH_PENDING |-> 2,
          AWAITING_LADV_UPLOAD |-> 3, LADV_UPLOADED_VALID |-> 4,
          PRACTICAL_IN_PROGRESS |-> 5, READY_FOR_PRACTICAL_EXAM |-> 6]

Stage == DOMAIN Order

OcrStatus == {"NONE", "PASS", "NEEDS_REVIEW", "FAIL"}

\* The Student columns the stage is computed from; number is ladvNumber, until is
\* ladvValidUntil, theory and ready are timestamps of which only null matters.
StudentRow == [theory : BOOLEAN, ready : BOOLEAN, number : BOOLEAN, until : Nat, status : OcrStatus]

Registered == [theory |-> FALSE, ready |-> FALSE, number |-> FALSE, until |-> 0, status |-> "NONE"]

RenachRow == [status : {"NONE", "SCHEDULED", "DONE"}, number : BOOLEAN]

NoRenach == [status |-> "NONE", number |-> FALSE]

(***************************************************************************)
(* extractLadvFields                                                       *)
(***************************************************************************)
\* What recognition finds: legible is confidence of at least 50 and a keyword.
Document == [legible : BOOLEAN, number : BOOLEAN, issued : BOOLEAN, until : Nat]

ParsedStatus(doc, now) ==
    CASE ~doc.legible -> "FAIL"
      [] doc.legible /\ doc.number /\ doc.issued /\ doc.until > now -> "PASS"
      [] OTHER -> "NEEDS_REVIEW"

(***************************************************************************)
(* loadSnapshot: the lessons that count                                    *)
(***************************************************************************)
\* compliant: completed, three biometries SUCCESS, hash present, no dispute.
LessonRow == [compliant : BOOLEAN, minutes : Nat]

NoLesson == [compliant |-> FALSE, minutes |-> 0]

MinLessonMinutes == 50
MIN_PRACTICAL_MINUTES_FOR_READY == 120

ValidLessons(lesson) ==
    {l \in DOMAIN lesson : lesson[l].compliant /\ lesson[l].minutes >= MinLessonMinutes}

ValidMinutes(lesson) == MapThenSumSet(LAMBDA l : lesson[l].minutes, ValidLessons(lesson))

Practical == [some : BOOLEAN, minimum : BOOLEAN]

NoPractice == [some |-> FALSE, minimum |-> FALSE]

Summary(lesson) ==
    [some |-> ValidLessons(lesson) # {},
     minimum |-> ValidMinutes(lesson) >= MIN_PRACTICAL_MINUTES_FOR_READY]

(***************************************************************************)
(* computeStageFromData                                                    *)
(***************************************************************************)
LadvValid(s, now) == s.number /\ s.status = "PASS" /\ s.until > now

RenachDone(renach) == renach.status = "DONE" /\ renach.number

\* Mutant: an open RENACH is enough to ask for the LADV.
ComputeStage_OpenRenach(s, renach, practical, now) ==
    CASE renach.status = "NONE" -> IF s.theory THEN "THEORY_COURSE_IN_PROGRESS" ELSE "REGISTERED"
      [] renach.status # "NONE" /\ ~LadvValid(s, now) -> "AWAITING_LADV_UPLOAD"
      [] OTHER -> IF practical.some THEN "PRACTICAL_IN_PROGRESS" ELSE "LADV_UPLOADED_VALID"

ComputeStage(s, renach, practical, now) ==
    IF RenachDone(renach)
    THEN CASE ~LadvValid(s, now) -> "AWAITING_LADV_UPLOAD"
           [] LadvValid(s, now) /\ ~practical.some -> "LADV_UPLOADED_VALID"
           [] LadvValid(s, now) /\ practical.some /\ practical.minimum /\ s.ready
                -> "READY_FOR_PRACTICAL_EXAM"
           [] OTHER -> "PRACTICAL_IN_PROGRESS"
    ELSE CASE ~s.theory -> "REGISTERED"
           [] s.theory /\ renach.status = "NONE" -> "THEORY_COURSE_IN_PROGRESS"
           [] OTHER -> "RENACH_PENDING"

\* Mutant: the stage before the LADV is enough.
CanSchedule_Awaiting(stage) == Order[stage] >= Order["AWAITING_LADV_UPLOAD"]

\* assertCanScheduleLesson
CanSchedule(stage) == Order[stage] >= Order["LADV_UPLOADED_VALID"]

(***************************************************************************)
(* What a stage stands for                                                 *)
(***************************************************************************)
\* The facts about a student that the rows show at a moment.
Facts(s, renach, practical, now) ==
    (IF s.theory THEN {"theory"} ELSE {})
    \cup (IF renach.status # "NONE" THEN {"renach"} ELSE {})
    \cup (IF RenachDone(renach) THEN {"renachDone"} ELSE {})
    \cup (IF LadvValid(s, now) THEN {"ladv"} ELSE {})
    \cup (IF practical.some THEN {"lesson"} ELSE {})
    \cup (IF practical.minimum THEN {"minimum"} ELSE {})

Fact == {"theory", "renach", "renachDone", "ladv", "lesson", "minimum"}

\* The facts a stage is awarded for.
Needs == [REGISTERED |-> {},
          THEORY_COURSE_IN_PROGRESS |-> {"theory"},
          RENACH_PENDING |-> {"theory", "renach"},
          AWAITING_LADV_UPLOAD |-> {"renachDone"},
          LADV_UPLOADED_VALID |-> {"renachDone", "ladv"},
          PRACTICAL_IN_PROGRESS |-> {"renachDone", "ladv", "lesson"},
          READY_FOR_PRACTICAL_EXAM |-> {"renachDone", "ladv", "lesson", "minimum"}]
=============================================================================
