------------------------------- MODULE Booking -------------------------------
(***************************************************************************)
(* The calendar of one instructor on one day: LessonsService.create and    *)
(* BusySlotsService over the Lesson and BusySlot tables.  Each handler     *)
(* checks what it has read and writes later; the transaction around the    *)
(* booking runs at READ COMMITTED, so it reads what others have committed  *)
(* and locks nothing it has only read.                                     *)
(***************************************************************************)
EXTENDS Naturals, FiniteSets

CONSTANTS
    Lessons,        \* Lesson ids
    BusySlots,      \* BusySlot ids
    Dates,          \* the date values clients send for the day; one each if all normalise it
    Times,          \* times of the day, "HH:MM" in the code, as numbers
    Requests,       \* booking and blocking requests in flight
    None,
    UniqueIndex     \* the unique index of the migrations is in the database; schema.prisma has none

ASSUME CalendarAssumption ==
    /\ Times \subseteq Nat /\ None \notin Times
    /\ UniqueIndex \in BOOLEAN

VARIABLES
    lesson,         \* [Lessons -> Lesson row]
    busy,           \* [BusySlots -> BusySlot row]
    req,            \* [Requests -> request]
    met,            \* history: rows whose requests were in flight beside one of the other service
    revived,        \* history: lessons that were cancelled and are so no more
    moved           \* history: busy slots whose times were changed

vars == <<lesson, busy, req, met, revived, moved>>

\* What is booked or blocked; the columns of both tables and the body of a request.
Interval == [date : Dates, startTime : Times, endTime : Times]

\* "none" and "free" are the absence of the row.
LessonRow == [status : {"none", "booked", "cancelled"}, at : Interval \cup {None}]
BusyRow == [status : {"free", "blocked"}, at : Interval \cup {None}]
Slot == [pc : {"idle", "book.busy", "book.create", "busy.create"}, at : Interval \cup {None},
         met : BOOLEAN]

Idle == [pc |-> "idle", at |-> None, met |-> FALSE]

At(r, pc) == req[r].pc = pc
Goto(r, pc) == req' = [req EXCEPT ![r] = [@ EXCEPT !.pc = pc]]
Finish(r) == req' = [req EXCEPT ![r] = Idle]

Booking(r) == req[r].pc \in {"book.busy", "book.create"}
Blocking(r) == At(r, "busy.create")

\* A request starts; it and the requests `others` of the other service meet.
Begin(r, pc, x, others) ==
    /\ At(r, "idle")
    /\ req' = [q \in Requests |->
                  IF q = r THEN [pc |-> pc, at |-> x, met |-> others # {}]
                  ELSE IF q \in others THEN [req[q] EXCEPT !.met = TRUE] ELSE req[q]]

Booked(l) == lesson[l].status = "booked"
Blocked(b) == busy[b].status = "blocked"

\* The comparison both services make.
Overlaps(x, y) == x.startTime < y.endTime /\ x.endTime > y.startTime
SameStart(x, y) == x.date = y.date /\ x.startTime = y.startTime

\* Bound: a request starts only if an id is left for the row it may insert.
LessonIdLeft ==
    Cardinality({r \in Requests : Booking(r)})
        < Cardinality({l \in Lessons : lesson[l].status = "none"})
BusySlotIdLeft ==
    Cardinality({r \in Requests : Blocking(r)})
        < Cardinality({b \in BusySlots : ~Blocked(b)})

Init ==
    /\ lesson = [l \in Lessons |-> [status |-> "none", at |-> None]]
    /\ busy = [b \in BusySlots |-> [status |-> "free", at |-> None]]
    /\ req = [r \in Requests |-> Idle]
    /\ met = [lessons |-> {}, slots |-> {}]
    /\ revived = {} /\ moved = {}

(***************************************************************************)
(* LessonsService.create, stage 6: find an equal start, find busy slots,   *)
(* insert.  Nothing compares the two times of the request.                 *)
(***************************************************************************)
BookFind(r, x) ==
    /\ LessonIdLeft
    /\ \A l \in Lessons : Booked(l) => ~SameStart(lesson[l].at, x)
    /\ Begin(r, "book.busy", x, {q \in Requests : Blocking(q)})
    /\ UNCHANGED <<lesson, busy, met, revived, moved>>

\* Mutant: the busy slots are not looked at.
BookBusy_Ignored(r) ==
    /\ At(r, "book.busy")
    /\ Goto(r, "book.create")
    /\ UNCHANGED <<lesson, busy, met, revived, moved>>

\* The busy slots of the same date value.
BookBusy(r) ==
    /\ At(r, "book.busy")
    /\ IF \E b \in BusySlots : /\ Blocked(b) /\ busy[b].at.date = req[r].at.date
                               /\ Overlaps(req[r].at, busy[b].at)
       THEN Finish(r) ELSE Goto(r, "book.create")
    /\ UNCHANGED <<lesson, busy, met, revived, moved>>

\* Mutant: a partial index, which leaves out cancelled lessons.
IndexAllows_Active(x) ==
    UniqueIndex => \A l \in Lessons : Booked(l) => ~SameStart(lesson[l].at, x)

\* The index covers cancelled lessons too.
IndexAllows(x) ==
    UniqueIndex => \A l \in Lessons : lesson[l].status # "none" => ~SameStart(lesson[l].at, x)

BookCreate(r) ==
    /\ At(r, "book.create")
    /\ \/ /\ IndexAllows(req[r].at)
          /\ \E l \in Lessons :
               /\ lesson[l].status = "none"
               /\ lesson' = [lesson EXCEPT ![l] = [status |-> "booked", at |-> req[r].at]]
               /\ met' = IF req[r].met THEN [met EXCEPT !.lessons = @ \cup {l}] ELSE met
       \/ ~IndexAllows(req[r].at) /\ UNCHANGED <<lesson, met>>
    /\ Finish(r)
    /\ UNCHANGED <<busy, revived, moved>>

\* reject, cancel and the cron for stale bookings.
Cancel(l) ==
    /\ Booked(l)
    /\ lesson' = [lesson EXCEPT ![l] = [@ EXCEPT !.status = "cancelled"]]
    /\ UNCHANGED <<busy, req, met, revived, moved>>

\* PATCH writes any status, and an accept that read the status before the lesson was
\* cancelled writes upcoming over it; neither looks at the calendar again.
Revive(l) ==
    /\ lesson[l].status = "cancelled"
    /\ lesson' = [lesson EXCEPT ![l] = [@ EXCEPT !.status = "booked"]]
    /\ revived' = revived \cup {l}
    /\ UNCHANGED <<busy, req, met, moved>>

(***************************************************************************)
(* BusySlotsService                                                        *)
(***************************************************************************)
\* validateTimeRange and validateNoLessonConflict, over the lessons of the day.
BusyFind(r, x) ==
    /\ BusySlotIdLeft
    /\ x.startTime < x.endTime
    /\ \A l \in Lessons : Booked(l) => ~Overlaps(x, lesson[l].at)
    /\ Begin(r, "busy.create", x, {q \in Requests : Booking(q)})
    /\ UNCHANGED <<lesson, busy, met, revived, moved>>

\* The unique index of the busy slots, in schema.prisma and in the migrations.
BusyIndexAllows(b, x) ==
    \A c \in BusySlots \ {b} : Blocked(c) => ~SameStart(busy[c].at, x)

BusyCreate(r) ==
    /\ Blocking(r)
    /\ \E b \in BusySlots :
         /\ ~Blocked(b)
         /\ \/ /\ BusyIndexAllows(b, req[r].at)
               /\ busy' = [busy EXCEPT ![b] = [status |-> "blocked", at |-> req[r].at]]
               /\ met' = IF req[r].met THEN [met EXCEPT !.slots = @ \cup {b}] ELSE met
            \/ ~BusyIndexAllows(b, req[r].at) /\ UNCHANGED <<busy, met>>
    /\ Finish(r)
    /\ UNCHANGED <<lesson, revived, moved>>

\* The range is validated only when both times are given, lessons never are.
BusyUpdate(b, startTime, endTime) ==
    /\ Blocked(b)
    /\ startTime # None /\ endTime # None => startTime < endTime
    /\ LET x == busy[b].at
           y == [date |-> x.date,
                 startTime |-> IF startTime = None THEN x.startTime ELSE startTime,
                 endTime |-> IF endTime = None THEN x.endTime ELSE endTime]
       IN  /\ BusyIndexAllows(b, y)
           /\ busy' = [busy EXCEPT ![b] = [status |-> "blocked", at |-> y]]
    /\ moved' = moved \cup {b}
    /\ UNCHANGED <<lesson, req, met, revived>>

BusyDelete(b) ==
    /\ Blocked(b)
    /\ busy' = [busy EXCEPT ![b] = [status |-> "free", at |-> None]]
    /\ met' = [met EXCEPT !.slots = @ \ {b}]
    /\ moved' = moved \ {b}
    /\ UNCHANGED <<lesson, req, revived>>

Next ==
    \/ \E r \in Requests :
         \/ BookBusy(r) \/ BookCreate(r) \/ BusyCreate(r)
         \/ \E x \in Interval : BookFind(r, x) \/ BusyFind(r, x)
    \/ \E l \in Lessons : Cancel(l) \/ Revive(l)
    \/ \E b \in BusySlots :
         \/ BusyDelete(b)
         \/ \E startTime, endTime \in Times \cup {None} : BusyUpdate(b, startTime, endTime)

Spec == Init /\ [][Next]_vars

(***************************************************************************)
(* Properties                                                              *)
(***************************************************************************)
\* Rows and requests have the columns and the values of the code, and only the
\* absence of a row has no times.
TypeOK ==
    /\ lesson \in [Lessons -> LessonRow]
    /\ busy \in [BusySlots -> BusyRow]
    /\ req \in [Requests -> Slot]
    /\ \A l \in Lessons : lesson[l].status # "none" => lesson[l].at \in Interval
    /\ \A b \in BusySlots : Blocked(b) => busy[b].at \in Interval
    /\ \A r \in Requests : ~At(r, "idle") => req[r].at \in Interval
    /\ met \in [lessons : SUBSET Lessons, slots : SUBSET BusySlots]
    /\ revived \subseteq Lessons /\ moved \subseteq BusySlots

\* docs/database.md:180, [instructorId, date, startTime] is unique: two students
\* who book the same start at once do not both get it, nor does one who books the
\* start of a cancelled lesson that comes back.  It takes the index.
NoSharedStart ==
    \A l, m \in Lessons : Booked(l) /\ Booked(m) /\ SameStart(lesson[l].at, lesson[m].at) => l = m

\* docs/business-logic.md:113, gate 6: no overlap with a busy slot.  Each service
\* checks the rows of the other, so that a booked lesson stands in a busy slot of its
\* date only if the lesson was cancelled and came back, the slot was moved, or the
\* requests of both ran beside a request of the other service.
NoLessonInBusySlot ==
    \A l \in Lessons, b \in BusySlots :
        /\ Booked(l) /\ Blocked(b)
        /\ lesson[l].at.date = busy[b].at.date /\ Overlaps(lesson[l].at, busy[b].at)
        => l \in revived \/ b \in moved \/ (l \in met.lessons /\ b \in met.slots)

\* What makes it so: requests in flight beside the other service know of it, and what
\* a request has checked was changed only by one it has met, by a move or a return.
CheckInv(r) ==
    /\ \A q \in Requests : Booking(r) /\ Blocking(q) => req[r].met /\ req[q].met
    /\ At(r, "book.create") =>
         \A b \in BusySlots :
             /\ Blocked(b) /\ busy[b].at.date = req[r].at.date
             /\ Overlaps(req[r].at, busy[b].at)
             => b \in moved \/ (req[r].met /\ b \in met.slots)
    /\ At(r, "busy.create") =>
         \A l \in Lessons :
             Booked(l) /\ Overlaps(lesson[l].at, req[r].at)
             => l \in revived \/ (req[r].met /\ l \in met.lessons)

(***************************************************************************)
(* Refinement: starts are given as a calendar promises.                    *)
(***************************************************************************)
Start(x) == <<x.date, x.startTime>>

Starts == INSTANCE Calendar WITH
    Starts <- Dates \X Times,
    given <- {<<Start(lesson[l].at), l>> : l \in {m \in Lessons : lesson[m].status # "none"}}

\* A start is given once, to a lesson that has no other, and stays its own when the
\* lesson is cancelled, comes back, or is booked for by others.  It takes the index.
ImplementsCalendar == Starts!Spec
=============================================================================
