---------------------------- MODULE Booking_proofs ----------------------------
(***************************************************************************)
(* What the calendar owes to the unique index, and what the checks of the  *)
(* two services achieve between them, for any number of requests.          *)
(***************************************************************************)
EXTENDS Booking, TLAPS

(***************************************************************************)
(* What each step does to the rows and to the requests                     *)
(***************************************************************************)
LEMMA BeginSlots ==
    ASSUME TypeOK, NEW r \in Requests, NEW x \in Interval, NEW others \in SUBSET Requests,
           NEW pc \in {"book.busy", "busy.create"}, Begin(r, pc, x, others)
    PROVE  /\ req' \in [Requests -> Slot]
           /\ req'[r].pc = pc /\ req'[r].at = x /\ (req'[r].met <=> others # {})
           /\ \A q \in Requests : q # r =>
                /\ req'[q].pc = req[q].pc /\ req'[q].at = req[q].at
                /\ req[q].met \/ q \in others => req'[q].met
<1>1. \A q \in Requests : req[q] \in Slot
  BY DEF TypeOK
<1>2. [pc |-> pc, at |-> x, met |-> others # {}] \in Slot
  BY DEF Slot
<1>3. \A q \in Requests : [req[q] EXCEPT !.met = TRUE] \in Slot
  BY <1>1 DEF Slot
<1>4. req' \in [Requests -> Slot]
  BY <1>1, <1>2, <1>3 DEF Begin
<1>5. req'[r] = [pc |-> pc, at |-> x, met |-> others # {}]
  BY DEF Begin
<1>6. \A q \in Requests : q # r =>
        req'[q] = IF q \in others THEN [req[q] EXCEPT !.met = TRUE] ELSE req[q]
  BY DEF Begin
<1>7. \A q \in Requests : q # r =>
        /\ req'[q].pc = req[q].pc /\ req'[q].at = req[q].at
        /\ req[q].met \/ q \in others => req'[q].met
  BY <1>1, <1>6 DEF Slot
<1>8. req'[r].pc = pc /\ req'[r].at = x /\ req'[r].met = (others # {})
  BY <1>5
<1>9. req'[r].met <=> others # {}
  BY <1>8, Zenon
<1> QED BY <1>4, <1>7, <1>8, <1>9, Zenon

LEMMA FinishSlots ==
    ASSUME TypeOK, NEW r \in Requests, Finish(r)
    PROVE  /\ req' \in [Requests -> Slot]
           /\ req'[r].pc = "idle"
           /\ \A q \in Requests : q # r => req'[q] = req[q]
BY DEF TypeOK, Finish, Idle, Slot

LEMMA BookBusySlots ==
    ASSUME TypeOK, NEW r \in Requests, BookBusy(r)
    PROVE  /\ req' \in [Requests -> Slot]
           /\ req'[r].pc \in {"idle", "book.create"}
           /\ req'[r].pc = "book.create" =>
                /\ req'[r].at = req[r].at /\ req'[r].met = req[r].met
                /\ \A b \in BusySlots : Blocked(b) /\ busy[b].at.date = req[r].at.date
                                          => ~Overlaps(req[r].at, busy[b].at)
           /\ \A q \in Requests : q # r => req'[q] = req[q]
<1>1. CASE Finish(r)
  BY <1>1, FinishSlots
<1>2. CASE /\ Goto(r, "book.create")
           /\ \A b \in BusySlots : Blocked(b) /\ busy[b].at.date = req[r].at.date
                                     => ~Overlaps(req[r].at, busy[b].at)
  BY <1>2 DEF Goto, TypeOK, Slot
<1> QED BY <1>1, <1>2 DEF BookBusy

LEMMA BookCreateRows ==
    ASSUME TypeOK, NEW r \in Requests, NEW l \in Lessons, BookCreate(r),
           lesson' = [lesson EXCEPT ![l] = [status |-> "booked", at |-> req[r].at]]
    PROVE  /\ lesson' \in [Lessons -> LessonRow]
           /\ lesson'[l].status = "booked" /\ lesson'[l].at = req[r].at /\ req[r].at \in Interval
           /\ \A m \in Lessons : m # l => lesson'[m] = lesson[m]
BY DEF TypeOK, BookCreate, LessonRow, At

LEMMA BusyCreateRows ==
    ASSUME TypeOK, NEW r \in Requests, NEW b \in BusySlots, BusyCreate(r),
           busy' = [busy EXCEPT ![b] = [status |-> "blocked", at |-> req[r].at]]
    PROVE  /\ busy' \in [BusySlots -> BusyRow]
           /\ busy'[b].status = "blocked" /\ busy'[b].at = req[r].at /\ req[r].at \in Interval
           /\ \A c \in BusySlots : c # b => busy'[c] = busy[c]
BY DEF TypeOK, BusyCreate, Blocking, BusyRow, At

LEMMA BusyUpdateRows ==
    ASSUME TypeOK, NEW b \in BusySlots, NEW startTime \in Times \cup {None},
           NEW endTime \in Times \cup {None}, BusyUpdate(b, startTime, endTime)
    PROVE  /\ busy' \in [BusySlots -> BusyRow]
           /\ busy'[b].at \in Interval
           /\ \A c \in BusySlots : c # b => busy'[c] = busy[c]
<1> DEFINE x == busy[b].at
           y == [date |-> x.date,
                 startTime |-> IF startTime = None THEN x.startTime ELSE startTime,
                 endTime |-> IF endTime = None THEN x.endTime ELSE endTime]
<1>1. x \in Interval BY DEF BusyUpdate, TypeOK
<1>2. y \in Interval BY <1>1 DEF Interval
<1>3. busy' = [busy EXCEPT ![b] = [status |-> "blocked", at |-> y]]
  BY DEF BusyUpdate
<1> HIDE DEF y
<1> QED BY <1>2, <1>3 DEF TypeOK, BusyRow

\* Cancelled or come back, a lesson stays where it is.
LEMMA StatusRows ==
    ASSUME TypeOK, NEW l \in Lessons, Cancel(l) \/ Revive(l)
    PROVE  /\ lesson' \in [Lessons -> LessonRow]
           /\ lesson[l].status # "none" /\ lesson'[l].status # "none"
           /\ Cancel(l) => lesson'[l].status = "cancelled"
           /\ lesson'[l].at = lesson[l].at
           /\ \A m \in Lessons : m # l => lesson'[m] = lesson[m]
BY DEF TypeOK, Cancel, Revive, Booked, LessonRow

(***************************************************************************)
(* Types                                                                   *)
(***************************************************************************)
LEMMA TypeInit == Init => TypeOK
BY DEF Init, TypeOK, LessonRow, BusyRow, Slot, Idle, Blocked, At

LEMMA FindTyped ==
    ASSUME TypeOK, NEW r \in Requests, NEW x \in Interval, BookFind(r, x) \/ BusyFind(r, x)
    PROVE  TypeOK'
<1>1. PICK pc \in {"book.busy", "busy.create"}, others \in SUBSET Requests : Begin(r, pc, x, others)
  BY DEF BookFind, BusyFind
<1>2. UNCHANGED <<lesson, busy, met, revived, moved>>
  BY DEF BookFind, BusyFind
<1>3. /\ req' \in [Requests -> Slot]
      /\ \A q \in Requests : ~At(q, "idle")' => req'[q].at \in Interval
  BY <1>1, BeginSlots DEF TypeOK, At
<1> QED BY <1>2, <1>3 DEF TypeOK, Blocked

LEMMA BookBusyTyped == ASSUME TypeOK, NEW r \in Requests, BookBusy(r) PROVE TypeOK'
<1>1. \A q \in Requests : ~At(q, "idle")' => req'[q].at \in Interval
  BY BookBusySlots DEF TypeOK, BookBusy, At
<1> QED BY <1>1, BookBusySlots DEF TypeOK, BookBusy, Blocked

LEMMA BookCreateTyped == ASSUME TypeOK, NEW r \in Requests, BookCreate(r) PROVE TypeOK'
<1>1. /\ req' \in [Requests -> Slot]
      /\ \A q \in Requests : ~At(q, "idle")' => req'[q].at \in Interval
  BY FinishSlots DEF BookCreate, TypeOK, At
<1>2. CASE UNCHANGED <<lesson, met>>
  BY <1>1, <1>2 DEF BookCreate, TypeOK, Blocked
<1>3. ASSUME NEW l \in Lessons,
             lesson' = [lesson EXCEPT ![l] = [status |-> "booked", at |-> req[r].at]],
             met' = IF req[r].met THEN [met EXCEPT !.lessons = @ \cup {l}] ELSE met
      PROVE  TypeOK'
  <2>1. met' \in [lessons : SUBSET Lessons, slots : SUBSET BusySlots]
    BY <1>3 DEF TypeOK
  <2> QED BY <1>1, <1>3, <2>1, BookCreateRows DEF BookCreate, TypeOK, Blocked
<1> QED BY <1>2, <1>3 DEF BookCreate

LEMMA BusyCreateTyped == ASSUME TypeOK, NEW r \in Requests, BusyCreate(r) PROVE TypeOK'
<1>1. /\ req' \in [Requests -> Slot]
      /\ \A q \in Requests : ~At(q, "idle")' => req'[q].at \in Interval
  BY FinishSlots DEF BusyCreate, TypeOK, At
<1>2. CASE UNCHANGED <<busy, met>>
  BY <1>1, <1>2 DEF BusyCreate, TypeOK, Blocked
<1>3. ASSUME NEW b \in BusySlots,
             busy' = [busy EXCEPT ![b] = [status |-> "blocked", at |-> req[r].at]],
             met' = IF req[r].met THEN [met EXCEPT !.slots = @ \cup {b}] ELSE met
      PROVE  TypeOK'
  <2>1. met' \in [lessons : SUBSET Lessons, slots : SUBSET BusySlots]
    BY <1>3 DEF TypeOK
  <2> QED BY <1>1, <1>3, <2>1, BusyCreateRows DEF BusyCreate, TypeOK, Blocked
<1> QED BY <1>2, <1>3 DEF BusyCreate

LEMMA TypeNext == TypeOK /\ [Next]_vars => TypeOK'
<1> SUFFICES ASSUME TypeOK, [Next]_vars PROVE TypeOK'
  OBVIOUS
<1>1. ASSUME NEW l \in Lessons, Cancel(l) \/ Revive(l) PROVE TypeOK'
  <2>1. revived' \subseteq Lessons BY <1>1 DEF Cancel, Revive, TypeOK
  <2> QED BY <1>1, <2>1, StatusRows DEF Cancel, Revive, TypeOK, Blocked, At
<1>2. ASSUME NEW b \in BusySlots, BusyDelete(b) PROVE TypeOK'
  BY <1>2 DEF BusyDelete, TypeOK, BusyRow, Blocked, At
<1>3. ASSUME NEW b \in BusySlots, NEW startTime \in Times \cup {None},
             NEW endTime \in Times \cup {None}, BusyUpdate(b, startTime, endTime)
      PROVE  TypeOK'
  BY <1>3, BusyUpdateRows DEF BusyUpdate, TypeOK, Blocked, At
<1>4. CASE UNCHANGED vars
  BY <1>4 DEF vars, TypeOK, Blocked, At
<1> QED
  BY <1>1, <1>2, <1>3, <1>4, FindTyped, BookBusyTyped, BookCreateTyped, BusyCreateTyped DEF Next

\* Rows and requests keep their types.
THEOREM Typed == Spec => []TypeOK
BY TypeInit, TypeNext, PTL DEF Spec

(***************************************************************************)
(* The index keeps starts apart, cancelled lessons included.               *)
(***************************************************************************)
Distinct ==
    \A l, m \in Lessons :
        /\ lesson[l].status # "none" /\ lesson[m].status # "none"
        /\ SameStart(lesson[l].at, lesson[m].at)
        => l = m

\* Either the rows of lessons keep their places, or one is inserted at a free start.
LEMMA LessonSteps ==
    ASSUME UniqueIndex, TypeOK, [Next]_vars
    PROVE  \/ \A m \in Lessons : /\ lesson'[m].at = lesson[m].at
                                 /\ lesson'[m].status # "none" <=> lesson[m].status # "none"
           \/ \E r \in Requests, l \in Lessons :
                /\ lesson[l].status = "none" /\ lesson'[l].status # "none"
                /\ lesson'[l].at = req[r].at /\ req[r].at \in Interval
                /\ \A m \in Lessons : m # l => lesson'[m] = lesson[m]
                /\ \A m \in Lessons : lesson[m].status # "none" => ~SameStart(lesson[m].at, req[r].at)
<1>1. CASE UNCHANGED lesson
  BY <1>1
<1>2. ASSUME NEW r \in Requests, BookCreate(r), NEW l \in Lessons, lesson[l].status = "none",
             IndexAllows(req[r].at),
             lesson' = [lesson EXCEPT ![l] = [status |-> "booked", at |-> req[r].at]]
      PROVE  /\ lesson[l].status = "none" /\ lesson'[l].status # "none"
             /\ lesson'[l].at = req[r].at /\ req[r].at \in Interval
             /\ \A m \in Lessons : m # l => lesson'[m] = lesson[m]
             /\ \A m \in Lessons : lesson[m].status # "none" => ~SameStart(lesson[m].at, req[r].at)
  BY <1>2, BookCreateRows DEF IndexAllows
<1>3. ASSUME NEW l \in Lessons, Cancel(l) \/ Revive(l)
      PROVE  \A m \in Lessons : /\ lesson'[m].at = lesson[m].at
                                /\ lesson'[m].status # "none" <=> lesson[m].status # "none"
  BY <1>3, StatusRows
<1>4. CASE Next
  <2>1. ASSUME NEW r \in Requests, BookCreate(r)
        PROVE  \/ UNCHANGED lesson
               \/ \E l \in Lessons :
                    /\ lesson[l].status = "none" /\ IndexAllows(req[r].at)
                    /\ lesson' = [lesson EXCEPT ![l] = [status |-> "booked", at |-> req[r].at]]
    BY <2>1 DEF BookCreate
  <2>2. \/ UNCHANGED lesson
        \/ \E r \in Requests : BookCreate(r)
        \/ \E l \in Lessons : Cancel(l) \/ Revive(l)
    BY <1>4 DEF Next, BookFind, BookBusy, BusyFind, BusyCreate, BusyUpdate, BusyDelete
  <2> QED BY <1>1, <1>2, <1>3, <2>1, <2>2
<1> QED BY <1>1, <1>4 DEF vars

LEMMA DistinctNext == ASSUME UniqueIndex, TypeOK, Distinct, [Next]_vars PROVE Distinct'
BY LessonSteps DEF Distinct, SameStart

LEMMA DistinctInit == Init => Distinct
BY DEF Init, Distinct

\* With the index of the migrations no two booked lessons share a start, however
\* many requests race for it and whatever lessons are cancelled and come back.
THEOREM IndexPreventsDoubleBooking ==
    ASSUME UniqueIndex
    PROVE  Spec => []NoSharedStart
<1>1. TypeOK /\ Distinct /\ [Next]_vars => Distinct'
  BY DistinctNext
<1>2. Distinct => NoSharedStart
  BY DEF Distinct, NoSharedStart, Booked
<1> QED BY TypeInit, TypeNext, DistinctInit, <1>1, <1>2, PTL DEF Spec

(***************************************************************************)
(* With the index, starts are given as Calendar promises.                  *)
(***************************************************************************)
Given == {<<Start(lesson[l].at), l>> : l \in {m \in Lessons : lesson[m].status # "none"}}

LEMMA GivenMembers ==
    ASSUME NEW g
    PROVE  g \in Given <=> \E l \in Lessons : lesson[l].status # "none" /\ g = <<Start(lesson[l].at), l>>
BY DEF Given

LEMMA GiveStep ==
    ASSUME TypeOK, NEW x \in Interval, NEW l \in Lessons,
           lesson[l].status = "none", lesson'[l].status # "none", lesson'[l].at = x,
           \A m \in Lessons : m # l => lesson'[m] = lesson[m],
           \A m \in Lessons : lesson[m].status # "none" => ~SameStart(lesson[m].at, x)
    PROVE  /\ \A g \in Given : g[1] # Start(x) /\ g[2] # l
           /\ Given' = Given \cup {<<Start(x), l>>}
<1>1. \A m \in Lessons : lesson[m].status # "none" => Start(lesson[m].at) # Start(x) /\ m # l
  BY DEF SameStart, Start
<1>2. \A g \in Given : g[1] # Start(x) /\ g[2] # l
  BY <1>1 DEF Given
<1>3. {m \in Lessons : lesson'[m].status # "none"} = {m \in Lessons : lesson[m].status # "none"} \cup {l}
  OBVIOUS
<1>4. Given' = {<<Start(lesson'[m].at), m>> : m \in {n \in Lessons : lesson'[n].status # "none"}}
  BY DEF Given, Start
<1>5. \A m \in Lessons : lesson[m].status # "none" => lesson'[m].at = lesson[m].at
  OBVIOUS
<1>6. Given' \subseteq Given \cup {<<Start(x), l>>}
  BY <1>3, <1>4, <1>5 DEF Given
<1>7. Given \cup {<<Start(x), l>>} \subseteq Given'
  BY <1>3, <1>4, <1>5 DEF Given
<1> QED BY <1>2, <1>6, <1>7

LEMMA KeepStep ==
    ASSUME \A m \in Lessons : /\ lesson'[m].at = lesson[m].at
                              /\ lesson'[m].status # "none" <=> lesson[m].status # "none"
    PROVE  Given' = Given
<1>1. {m \in Lessons : lesson'[m].status # "none"} = {m \in Lessons : lesson[m].status # "none"}
  OBVIOUS
<1> QED BY <1>1 DEF Given, Start

\* With the index, booking implements the calendar: a start is given once, to a lesson
\* that has no other, and stays its own whatever becomes of the lesson.
THEOREM Refinement ==
    ASSUME UniqueIndex
    PROVE  Spec => ImplementsCalendar
<1>1. Init => Starts!Init
  BY DEF Init, Starts!Init
<1>2. TypeOK /\ [Next]_vars => [Starts!Next]_Given
  <2> SUFFICES ASSUME TypeOK, [Next]_vars PROVE Starts!Next \/ Given' = Given
    OBVIOUS
  <2>1. ASSUME NEW r \in Requests, NEW l \in Lessons,
               lesson[l].status = "none", lesson'[l].status # "none",
               lesson'[l].at = req[r].at, req[r].at \in Interval,
               \A m \in Lessons : m # l => lesson'[m] = lesson[m],
               \A m \in Lessons : lesson[m].status # "none" => ~SameStart(lesson[m].at, req[r].at)
        PROVE  Starts!Next
    <3>1. Start(req[r].at) \in Dates \X Times
      BY <2>1 DEF Interval, Start
    <3>2. /\ \A g \in Given : g[1] # Start(req[r].at) /\ g[2] # l
          /\ Given' = Given \cup {<<Start(req[r].at), l>>}
      BY <2>1, GiveStep
    <3>3. Starts!Give(Start(req[r].at), l)
      BY <3>2 DEF Starts!Give, Given
    <3> QED BY <3>1, <3>3 DEF Starts!Next
  <2> QED BY <2>1, LessonSteps, KeepStep
<1> QED BY <1>1, <1>2, TypeInit, TypeNext, PTL DEF Spec, ImplementsCalendar, Starts!Spec, Given

(***************************************************************************)
(* The checks of the two services keep lessons out of busy slots, but for  *)
(* what meets, moves or comes back.                                        *)
(***************************************************************************)
Excused(l, b) == l \in revived \/ b \in moved \/ (l \in met.lessons /\ b \in met.slots)

Collides(x, y) == x.date = y.date /\ Overlaps(x, y)

Apart ==
    \A l \in Lessons, b \in BusySlots :
        Booked(l) /\ Blocked(b) /\ Collides(lesson[l].at, busy[b].at) => Excused(l, b)

ApartInv == Apart /\ \A r \in Requests : CheckInv(r)

LEMMA OverlapsBothWays ==
    ASSUME NEW x \in Interval, NEW y \in Interval
    PROVE  Overlaps(x, y) <=> Overlaps(y, x)
BY CalendarAssumption DEF Overlaps, Interval

LEMMA FindApart ==
    ASSUME TypeOK, ApartInv, NEW r \in Requests, NEW x \in Interval,
           BookFind(r, x) \/ BusyFind(r, x)
    PROVE  ApartInv'
<1>0. UNCHANGED <<lesson, busy, met, revived, moved>>
  BY DEF BookFind, BusyFind
<1>1. Apart'
  BY <1>0 DEF ApartInv, Apart, Booked, Blocked, Excused
<1>2. ASSUME BookFind(r, x) PROVE \A q \in Requests : CheckInv(q)'
  <2> DEFINE others == {q \in Requests : Blocking(q)}
  <2>1. /\ req'[r].pc = "book.busy" /\ (req'[r].met <=> others # {})
        /\ \A q \in Requests : q # r =>
             /\ req'[q].pc = req[q].pc /\ req'[q].at = req[q].at
             /\ req[q].met \/ q \in others => req'[q].met
    BY <1>2, BeginSlots DEF BookFind
  <2>2. TAKE q \in Requests
  <2>3. CheckInv(q) BY DEF ApartInv
  <2>4. ASSUME NEW p \in Requests, Booking(q)', Blocking(p)' PROVE req'[q].met /\ req'[p].met
    <3>1. p # r /\ Blocking(p) BY <2>1, <2>4 DEF Blocking, At
    <3>2. CASE q = r BY <2>1, <3>1, <3>2
    <3>3. CASE q # r
      <4>1. Booking(q) BY <2>1, <2>4, <3>3 DEF Booking
      <4> QED BY <2>1, <2>3, <3>1, <3>3, <4>1 DEF CheckInv
    <3> QED BY <3>2, <3>3
  <2>5. At(q, "book.create")' \/ At(q, "busy.create")' => q # r
    BY <2>1 DEF At
  <2> QED BY <1>0, <2>1, <2>3, <2>4, <2>5 DEF CheckInv, At, Booked, Blocked
<1>3. ASSUME BusyFind(r, x) PROVE \A q \in Requests : CheckInv(q)'
  <2> DEFINE others == {q \in Requests : Booking(q)}
  <2>1. /\ req'[r].pc = "busy.create" /\ req'[r].at = x /\ (req'[r].met <=> others # {})
        /\ \A q \in Requests : q # r =>
             /\ req'[q].pc = req[q].pc /\ req'[q].at = req[q].at
             /\ req[q].met \/ q \in others => req'[q].met
    BY <1>3, BeginSlots DEF BusyFind
  <2>2. TAKE q \in Requests
  <2>3. CheckInv(q) BY DEF ApartInv
  <2>4. ASSUME NEW p \in Requests, Booking(q)', Blocking(p)' PROVE req'[q].met /\ req'[p].met
    <3>1. q # r /\ Booking(q) BY <2>1, <2>4 DEF Booking
    <3>2. CASE p = r BY <2>1, <3>1, <3>2
    <3>3. CASE p # r
      <4>1. Blocking(p) BY <2>1, <2>4, <3>3 DEF Blocking, At
      <4> QED BY <2>1, <2>3, <3>1, <3>3, <4>1 DEF CheckInv
    <3> QED BY <3>2, <3>3
  <2>5. At(r, "busy.create")' =>
          \A l \in Lessons : Booked(l)' => ~Overlaps(lesson'[l].at, req'[r].at)
    <3>1. \A l \in Lessons : Booked(l) => lesson[l].at \in Interval /\ ~Overlaps(x, lesson[l].at)
      BY <1>3 DEF BusyFind, TypeOK, Booked
    <3> QED BY <1>0, <2>1, <3>1, OverlapsBothWays DEF Booked
  <2>6. At(q, "book.create")' => q # r
    BY <2>1 DEF At
  <2> QED BY <1>0, <2>1, <2>3, <2>4, <2>5, <2>6 DEF CheckInv, At, Booked, Blocked
<1> QED BY <1>1, <1>2, <1>3 DEF ApartInv

LEMMA BookBusyApart ==
    ASSUME TypeOK, ApartInv, NEW r \in Requests, BookBusy(r) PROVE ApartInv'
<1>0. UNCHANGED <<lesson, busy, met, revived, moved>> /\ At(r, "book.busy")
  BY DEF BookBusy
<1>1. Apart'
  BY <1>0 DEF ApartInv, Apart, Booked, Blocked, Excused
<1>2. ASSUME NEW q \in Requests PROVE CheckInv(q)'
  <2>1. /\ Booking(q)' => Booking(q) /\ req'[q].met = req[q].met
        /\ \A p \in Requests : Blocking(p)' => Blocking(p) /\ req'[p].met = req[p].met
    BY <1>0, BookBusySlots DEF Booking, Blocking, At
  <2>2. CheckInv(q) BY DEF ApartInv
  <2>3. CASE q = r
    BY <1>0, <2>1, <2>2, <2>3, BookBusySlots DEF CheckInv, At, Blocked
  <2>4. CASE q # r
    BY <1>0, <2>1, <2>2, <2>4, BookBusySlots DEF CheckInv, At, Booked, Blocked
  <2> QED BY <2>3, <2>4
<1> QED BY <1>1, <1>2 DEF ApartInv

\* A request that ends leaves the others as they are.
LEMMA MeetingsKept ==
    ASSUME TypeOK, ApartInv, NEW r \in Requests, Finish(r), NEW q \in Requests
    PROVE  \A p \in Requests : Booking(q)' /\ Blocking(p)' => req'[q].met /\ req'[p].met
<1>1. CheckInv(q) BY DEF ApartInv
<1> QED BY <1>1, FinishSlots DEF CheckInv, Booking, Blocking, At

LEMMA BookCreateApart ==
    ASSUME TypeOK, ApartInv, NEW r \in Requests, BookCreate(r) PROVE ApartInv'
<1>0. UNCHANGED <<busy, revived, moved>> /\ At(r, "book.create") /\ Finish(r)
  BY DEF BookCreate
<1>1. /\ req'[r].pc = "idle"
      /\ \A q \in Requests : q # r => req'[q] = req[q]
  BY <1>0, FinishSlots
<1>2. CASE UNCHANGED <<lesson, met>>
  <2>1. Apart'
    BY <1>0, <1>2 DEF ApartInv, Apart, Booked, Blocked, Excused
  <2>2. ASSUME NEW q \in Requests PROVE CheckInv(q)'
    <3>1. CheckInv(q) BY DEF ApartInv
    <3> QED BY <1>0, <1>1, <1>2, <3>1, MeetingsKept DEF CheckInv, At, Booked, Blocked
  <2> QED BY <2>1, <2>2 DEF ApartInv
<1>3. ASSUME NEW l \in Lessons, lesson[l].status = "none",
             lesson' = [lesson EXCEPT ![l] = [status |-> "booked", at |-> req[r].at]],
             met' = IF req[r].met THEN [met EXCEPT !.lessons = @ \cup {l}] ELSE met
      PROVE  ApartInv'
  <2>1. /\ lesson'[l].at = req[r].at /\ req[r].at \in Interval
        /\ \A m \in Lessons : m # l => lesson'[m] = lesson[m]
    BY <1>3, BookCreateRows
  <2>2. /\ met'.slots = met.slots
        /\ met.lessons \subseteq met'.lessons
        /\ req[r].met => l \in met'.lessons
    BY <1>3 DEF TypeOK
  <2>3. CheckInv(r) BY DEF ApartInv
  <2>4. Apart'
    <3> SUFFICES ASSUME NEW m \in Lessons, NEW b \in BusySlots, Booked(m)', Blocked(b)',
                        Collides(lesson'[m].at, busy'[b].at)
                 PROVE  Excused(m, b)'
      BY DEF Apart
    <3>1. Blocked(b) /\ busy'[b] = busy[b] BY <1>0 DEF Blocked
    <3>2. CASE m = l
      BY <1>0, <2>1, <2>2, <2>3, <3>1, <3>2 DEF CheckInv, Collides, Excused
    <3>3. CASE m # l
      <4>1. Booked(m) /\ lesson'[m] = lesson[m] BY <2>1, <3>3 DEF Booked
      <4>2. Excused(m, b) BY <3>1, <4>1 DEF ApartInv, Apart
      <4> QED BY <1>0, <2>2, <4>2 DEF Excused
    <3> QED BY <3>2, <3>3
  <2>5. ASSUME NEW q \in Requests PROVE CheckInv(q)'
    <3>1. CheckInv(q) BY DEF ApartInv
    <3>2. At(q, "book.create")' =>
            \A b \in BusySlots :
                /\ Blocked(b)' /\ busy'[b].at.date = req'[q].at.date
                /\ Overlaps(req'[q].at, busy'[b].at)
                => b \in moved' \/ (req'[q].met /\ b \in met'.slots)
      BY <1>0, <1>1, <2>2, <3>1 DEF CheckInv, At, Blocked
    <3>3. ASSUME At(q, "busy.create")', NEW m \in Lessons, Booked(m)',
                 Overlaps(lesson'[m].at, req'[q].at)
          PROVE  m \in revived' \/ (req'[q].met /\ m \in met'.lessons)
      <4>1. q # r /\ req'[q] = req[q] /\ At(q, "busy.create") BY <1>1, <3>3 DEF At
      <4>2. CASE m = l
        <5>1. req[r].met /\ req[q].met
          BY <1>0, <2>3, <4>1 DEF CheckInv, Booking, Blocking, At
        <5> QED BY <2>2, <4>1, <4>2, <5>1
      <4>3. CASE m # l
        <5>1. Booked(m) /\ lesson'[m] = lesson[m] BY <2>1, <3>3, <4>3 DEF Booked
        <5> QED BY <1>0, <2>2, <3>1, <3>3, <4>1, <5>1 DEF CheckInv
      <4> QED BY <4>2, <4>3
    <3> QED BY <1>0, <3>2, <3>3, MeetingsKept DEF CheckInv
  <2> QED BY <2>4, <2>5 DEF ApartInv
<1> QED BY <1>2, <1>3 DEF BookCreate

LEMMA BusyCreateApart ==
    ASSUME TypeOK, ApartInv, NEW r \in Requests, BusyCreate(r) PROVE ApartInv'
<1>0. UNCHANGED <<lesson, revived, moved>> /\ At(r, "busy.create") /\ Finish(r)
  BY DEF BusyCreate, Blocking
<1>1. /\ req'[r].pc = "idle"
      /\ \A q \in Requests : q # r => req'[q] = req[q]
  BY <1>0, FinishSlots
<1>2. CASE UNCHANGED <<busy, met>>
  <2>1. Apart'
    BY <1>0, <1>2 DEF ApartInv, Apart, Booked, Blocked, Excused
  <2>2. ASSUME NEW q \in Requests PROVE CheckInv(q)'
    <3>1. CheckInv(q) BY DEF ApartInv
    <3> QED BY <1>0, <1>1, <1>2, <3>1, MeetingsKept DEF CheckInv, At, Booked, Blocked
  <2> QED BY <2>1, <2>2 DEF ApartInv
<1>3. ASSUME NEW b \in BusySlots, ~Blocked(b),
             busy' = [busy EXCEPT ![b] = [status |-> "blocked", at |-> req[r].at]],
             met' = IF req[r].met THEN [met EXCEPT !.slots = @ \cup {b}] ELSE met
      PROVE  ApartInv'
  <2>1. /\ busy'[b].at = req[r].at /\ req[r].at \in Interval
        /\ \A c \in BusySlots : c # b => busy'[c] = busy[c]
    BY <1>3, BusyCreateRows
  <2>2. /\ met'.lessons = met.lessons
        /\ met.slots \subseteq met'.slots
        /\ req[r].met => b \in met'.slots
    BY <1>3 DEF TypeOK
  <2>3. CheckInv(r) BY DEF ApartInv
  <2>4. Apart'
    <3> SUFFICES ASSUME NEW l \in Lessons, NEW c \in BusySlots, Booked(l)', Blocked(c)',
                        Collides(lesson'[l].at, busy'[c].at)
                 PROVE  Excused(l, c)'
      BY DEF Apart
    <3>1. Booked(l) /\ lesson'[l] = lesson[l] BY <1>0 DEF Booked
    <3>2. CASE c = b
      BY <1>0, <2>1, <2>2, <2>3, <3>1, <3>2 DEF CheckInv, Collides, Excused
    <3>3. CASE c # b
      <4>1. Blocked(c) /\ busy'[c] = busy[c] BY <2>1, <3>3 DEF Blocked
      <4>2. Excused(l, c) BY <3>1, <4>1 DEF ApartInv, Apart
      <4> QED BY <1>0, <2>2, <4>2 DEF Excused
    <3> QED BY <3>2, <3>3
  <2>5. ASSUME NEW q \in Requests PROVE CheckInv(q)'
    <3>1. CheckInv(q) BY DEF ApartInv
    <3>2. At(q, "busy.create")' =>
            \A l \in Lessons :
                Booked(l)' /\ Overlaps(lesson'[l].at, req'[q].at)
                => l \in revived' \/ (req'[q].met /\ l \in met'.lessons)
      BY <1>0, <1>1, <2>2, <3>1 DEF CheckInv, At, Booked
    <3>3. ASSUME At(q, "book.create")', NEW c \in BusySlots, Blocked(c)',
                 busy'[c].at.date = req'[q].at.date, Overlaps(req'[q].at, busy'[c].at)
          PROVE  c \in moved' \/ (req'[q].met /\ c \in met'.slots)
      <4>1. q # r /\ req'[q] = req[q] /\ At(q, "book.create") BY <1>1, <3>3 DEF At
      <4>2. CASE c = b
        <5>1. req[r].met /\ req[q].met
          BY <1>0, <3>1, <4>1 DEF CheckInv, Booking, Blocking, At
        <5> QED BY <2>2, <4>1, <4>2, <5>1
      <4>3. CASE c # b
        <5>1. Blocked(c) /\ busy'[c] = busy[c] BY <2>1, <3>3, <4>3 DEF Blocked
        <5> QED BY <1>0, <2>2, <3>1, <3>3, <4>1, <5>1 DEF CheckInv
      <4> QED BY <4>2, <4>3
    <3> QED BY <1>0, <3>2, <3>3, MeetingsKept DEF CheckInv
  <2> QED BY <2>4, <2>5 DEF ApartInv
<1> QED BY <1>2, <1>3 DEF BusyCreate

LEMMA StatusApart ==
    ASSUME TypeOK, ApartInv, NEW l \in Lessons, Cancel(l) \/ Revive(l) PROVE ApartInv'
<1>0. UNCHANGED <<busy, req, met, moved>> /\ revived \subseteq revived'
  BY DEF Cancel, Revive
<1>1. \A m \in Lessons : /\ lesson'[m].at = lesson[m].at
                         /\ Booked(m)' => Booked(m) \/ m \in revived'
  BY StatusRows DEF Cancel, Revive, Booked
<1>2. Apart'
  BY <1>0, <1>1 DEF ApartInv, Apart, Blocked, Excused
<1>3. ASSUME NEW q \in Requests PROVE CheckInv(q)'
  <2>1. CheckInv(q) BY DEF ApartInv
  <2> QED BY <1>0, <1>1, <2>1 DEF CheckInv, Booking, Blocking, Blocked, At
<1> QED BY <1>2, <1>3 DEF ApartInv

LEMMA MovedApart ==
    ASSUME TypeOK, ApartInv, NEW b \in BusySlots,
           \/ BusyDelete(b)
           \/ \E startTime, endTime \in Times \cup {None} : BusyUpdate(b, startTime, endTime)
    PROVE  ApartInv'
<1>0. UNCHANGED <<lesson, req, revived>>
  BY DEF BusyDelete, BusyUpdate
<1>1. \A c \in BusySlots : Blocked(c)' =>
        c \in moved' \/ (/\ Blocked(c) /\ busy'[c] = busy[c]
                         /\ (c \in moved => c \in moved')
                         /\ (c \in met.slots => c \in met'.slots))
  <2>1. CASE BusyDelete(b)
    BY <2>1 DEF BusyDelete, Blocked, TypeOK
  <2>2. ASSUME NEW startTime \in Times \cup {None}, NEW endTime \in Times \cup {None},
               BusyUpdate(b, startTime, endTime)
        PROVE  \A c \in BusySlots : Blocked(c)' =>
                 c \in moved' \/ (/\ Blocked(c) /\ busy'[c] = busy[c]
                                  /\ (c \in moved => c \in moved')
                                  /\ (c \in met.slots => c \in met'.slots))
    BY <2>2, BusyUpdateRows DEF BusyUpdate, Blocked
  <2> QED BY <2>1, <2>2
<1>2. met'.lessons = met.lessons
  BY DEF BusyDelete, BusyUpdate, TypeOK
<1>3. Apart'
  BY <1>0, <1>1, <1>2 DEF ApartInv, Apart, Booked, Excused
<1>4. ASSUME NEW q \in Requests PROVE CheckInv(q)'
  <2>1. CheckInv(q) BY DEF ApartInv
  <2> QED BY <1>0, <1>1, <1>2, <2>1 DEF CheckInv, Booking, Blocking, Booked, At
<1> QED BY <1>3, <1>4 DEF ApartInv

LEMMA ApartNext == ASSUME TypeOK, ApartInv, [Next]_vars PROVE ApartInv'
<1>1. CASE UNCHANGED vars
  BY <1>1 DEF vars, ApartInv, Apart, Excused, CheckInv, Booking, Blocking, Booked, Blocked, At
<1> QED
  BY <1>1, FindApart, BookBusyApart, BookCreateApart, BusyCreateApart, StatusApart, MovedApart
     DEF Next

LEMMA ApartInit == Init => ApartInv
BY DEF Init, ApartInv, Apart, CheckInv, Booked, Booking, Blocking, At, Idle

\* A booked lesson stands in a busy slot of its date only if the lesson was cancelled
\* and came back, the slot was moved, or both requests ran beside the other service.
THEOREM ChecksKeepApart == Spec => []NoLessonInBusySlot
<1>1. TypeOK /\ ApartInv /\ [Next]_vars => ApartInv'
  BY ApartNext
<1>2. ApartInv => NoLessonInBusySlot
  BY DEF ApartInv, Apart, Collides, Excused, NoLessonInBusySlot
<1> QED BY TypeInit, TypeNext, ApartInit, <1>1, <1>2, PTL DEF Spec
=============================================================================
