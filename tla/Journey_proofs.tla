--------------------------- MODULE Journey_proofs ---------------------------
(***************************************************************************)
(* Stages, declarations and bookings are earned, and an undisturbed        *)
(* refresh leaves the current stage, for any number of requests, lessons   *)
(* and days.                                                               *)
(***************************************************************************)
EXTENDS Journey, TLAPS

(***************************************************************************)
(* The pure operators                                                      *)
(***************************************************************************)
LEMMA SummaryType == ASSUME NEW ls PROVE Summary(ls) \in Practical
<1>1. (ValidLessons(ls) # {}) \in BOOLEAN /\ (ValidMinutes(ls) >= MIN_PRACTICAL_MINUTES_FOR_READY) \in BOOLEAN
  OBVIOUS
<1> QED BY <1>1 DEF Summary, Practical

\* computeStageFromData awards a stage for what the data show.
LEMMA StageShowsFacts ==
    ASSUME NEW s \in StudentRow, NEW rn \in RenachRow, NEW p \in Practical, NEW now
    PROVE  /\ ComputeStage(s, rn, p, now) \in Stage
           /\ Needs[ComputeStage(s, rn, p, now)] \subseteq Facts(s, rn, p, now)
BY DEF ComputeStage, Stage, Order, Needs, Facts, RenachDone, RenachRow, Practical, StudentRow

\* computeStageFromData never takes a student back for having done more: rows that show
\* all that other rows show, and a declaration if they have one, give no lower stage.
THEOREM MoreFactsNoLowerStage ==
    ASSUME NEW s \in StudentRow, NEW rn \in RenachRow, NEW p \in Practical, NEW now,
           NEW t \in StudentRow, NEW sn \in RenachRow, NEW q \in Practical, NEW later,
           Facts(s, rn, p, now) \subseteq Facts(t, sn, q, later),
           s.ready => t.ready
    PROVE  Order[ComputeStage(s, rn, p, now)] <= Order[ComputeStage(t, sn, q, later)]
<1>1. /\ s.theory => t.theory
      /\ rn.status # "NONE" => sn.status # "NONE"
      /\ RenachDone(rn) => RenachDone(sn)
      /\ LadvValid(s, now) => LadvValid(t, later)
      /\ p.some => q.some
      /\ p.minimum => q.minimum
  BY DEF Facts
<1>2. CASE ~RenachDone(rn) /\ ~RenachDone(sn)
  BY <1>1, <1>2 DEF ComputeStage, Order
<1>3. CASE ~RenachDone(rn) /\ RenachDone(sn)
  <2>1. Order[ComputeStage(s, rn, p, now)] \in 0..2
    BY <1>3 DEF ComputeStage, Order
  <2>2. Order[ComputeStage(t, sn, q, later)] \in 3..6
    BY <1>3 DEF ComputeStage, Order
  <2> QED BY <2>1, <2>2
<1>4. CASE RenachDone(rn) /\ RenachDone(sn)
  BY <1>1, <1>4 DEF ComputeStage, Order
<1> QED BY <1>1, <1>2, <1>3, <1>4

\* The stage and the facts depend on nothing but these columns.
LEMMA SameColumns ==
    ASSUME NEW s, NEW t, NEW rn, NEW p, NEW now,
           s.number = t.number, s.until = t.until, s.status = t.status, s.theory = t.theory
    PROVE  /\ Facts(s, rn, p, now) = Facts(t, rn, p, now)
           /\ (s.ready <=> t.ready) => ComputeStage(s, rn, p, now) = ComputeStage(t, rn, p, now)
BY DEF ComputeStage, Facts, LadvValid

\* Facts of separate reads are facts of one of them.
LEMMA FactsMix ==
    ASSUME NEW s, NEW rn, NEW p, NEW t, NEW sn, NEW q, NEW now, NEW H,
           Facts(s, rn, p, now) \subseteq H, Facts(t, sn, q, now) \subseteq H
    PROVE  /\ Facts(t, rn, p, now) \subseteq H
           /\ Facts(s, sn, p, now) \subseteq H
           /\ Facts(s, rn, q, now) \subseteq H
BY DEF Facts

\* A day later nothing is true that was not true before.
LEMMA FactsLater ==
    ASSUME NEW s \in StudentRow, NEW rn, NEW p, NEW now \in Nat
    PROVE  Facts(s, rn, p, now + 1) \subseteq Facts(s, rn, p, now)
BY DEF Facts, LadvValid, StudentRow

LEMMA FactsTyped == ASSUME NEW s, NEW rn, NEW p, NEW now PROVE Facts(s, rn, p, now) \subseteq Fact
BY DEF Facts, Fact

LEMMA BookableStage ==
    ASSUME NEW st \in Stage, CanSchedule(st)
    PROVE  {"renachDone", "ladv"} \subseteq Needs[st]
BY DEF CanSchedule, Stage, Order, Needs

LEMMA NothingShown ==
    ASSUME NEW now \in Nat
    PROVE  /\ Registered \in StudentRow /\ NoRenach \in RenachRow /\ NoPractice \in Practical
           /\ ~Registered.ready
           /\ Facts(Registered, NoRenach, NoPractice, now) = {}
BY DEF Registered, NoRenach, NoPractice, StudentRow, RenachRow, Practical, OcrStatus,
       Facts, LadvValid, RenachDone

LEMMA IdleSlot == Idle \in Slot
<1> "REGISTERED" \in Stage BY DEF Stage, Order
<1> QED BY NothingShown DEF Idle, Slot

\* The slots after Goto.
LEMMA GotoSlot ==
    ASSUME TypeOK, NEW r \in Requests, NEW slot \in Slot, Goto(r, slot)
    PROVE  /\ req' \in [Requests -> Slot]
           /\ req'[r] = slot
           /\ \A q \in Requests : q # r => req'[q] = req[q]
BY DEF TypeOK, Goto

(***************************************************************************)
(* The initial state                                                       *)
(***************************************************************************)
LEMMA InitInv == Init => IndInv
<1> SUFFICES ASSUME Init PROVE IndInv
  OBVIOUS
<1> USE JourneyAssumption DEF JourneyAssumption
<1>1. /\ student = Registered /\ renach = NoRenach /\ stage = "REGISTERED" /\ today = 1
      /\ held = FactsNow /\ \A r \in Requests : req[r] = Idle
  BY DEF Init
<1>2. Idle.at = "idle" /\ Idle.read = {} /\ Idle.student = Registered
      /\ Idle.renach = NoRenach /\ Idle.practical = NoPractice
  BY DEF Idle
<1>3. TypeOK
  <2>1. "REGISTERED" \in Stage BY DEF Stage, Order
  <2>2. lesson \in [Lessons -> LessonRow] BY DEF Init, LessonRow, NoLesson
  <2>3. held \subseteq Fact BY <1>1, FactsTyped DEF FactsNow
  <2>4. today \in 1..Horizon + 1 /\ started \in 0..MaxStarts BY DEF Init
  <2>5. req \in [Requests -> Slot] BY IdleSlot DEF Init
  <2> QED BY <1>1, <2>1, <2>2, <2>3, <2>4, <2>5, NothingShown DEF Init, TypeOK
<1>6. StageIsEarned /\ ReadyWasEarned /\ BookedWithLadv
  BY <1>1, NothingShown DEF Init, StageIsEarned, ReadyWasEarned, BookedWithLadv, Needs
<1>7. StageIsCurrent
  BY <1>1 DEF StageIsCurrent, StageNow, ComputeStage, Registered, RenachDone, NoRenach
<1>8. \A r \in Requests : SnapshotInv(r) /\ At(r, "idle")
  BY <1>1, <1>2, NothingShown DEF SnapshotInv, At
<1> QED BY <1>1, <1>3, <1>6, <1>7, <1>8 DEF IndInv, Writes

(***************************************************************************)
(* What a step leaves as it was                                            *)
(***************************************************************************)
\* The history keeps what it had and gains what the rows now show.
LEMMA HistoryGrows ==
    ASSUME IndInv, Observe
    PROVE  held \subseteq held' /\ FactsNow' \subseteq held' /\ held' \subseteq Fact
BY FactsTyped DEF Observe, IndInv, TypeOK, FactsNow

LEMMA KeepEarned ==
    ASSUME IndInv, Observe, stage' = stage, booked' = booked, student'.ready => student.ready
    PROVE  StageIsEarned' /\ ReadyWasEarned' /\ BookedWithLadv'
BY HistoryGrows DEF IndInv, StageIsEarned, ReadyWasEarned, BookedWithLadv

LEMMA KeepSnapshot ==
    ASSUME IndInv, Observe, NEW q \in Requests, req'[q] = req[q],
           today' = today \/ today' = today + 1, student.ready => student'.ready
    PROVE  SnapshotInv(q)'
<1>1. SnapshotInv(q) /\ req[q].student \in StudentRow /\ today \in Nat
  <2>1. today \in 1..Horizon + 1 /\ Horizon \in Nat
    BY JourneyAssumption DEF IndInv, TypeOK, JourneyAssumption
  <2>2. today \in Nat BY <2>1
  <2> QED BY <2>2 DEF IndInv, TypeOK, Slot
<1>2. Facts(req[q].student, req[q].renach, req[q].practical, today') \subseteq
        Facts(req[q].student, req[q].renach, req[q].practical, today)
  BY <1>1, FactsLater
<1> QED BY <1>1, <1>2, HistoryGrows DEF SnapshotInv, At

\* A slot that holds no reads shows nothing.
LEMMA EmptySnapshot ==
    ASSUME TypeOK', NEW q \in Requests, req'[q].at \in {"idle", "student"}, req'[q].read = {},
           req'[q].student = Registered, req'[q].renach = NoRenach, req'[q].practical = NoPractice
    PROVE  SnapshotInv(q)'
<1>1. today' \in Nat
  <2>1. today' \in 1..Horizon + 1 /\ Horizon \in Nat
    BY JourneyAssumption DEF TypeOK, JourneyAssumption
  <2> QED BY <2>1
<1> QED BY <1>1, NothingShown DEF SnapshotInv, At

\* A step of one request that changes no row.
LEMMA RequestStep ==
    ASSUME IndInv, TypeOK', Observe, NEW r \in Requests,
           UNCHANGED <<student, stage, renach, lesson, today, booked>>,
           \A q \in Requests : q # r => req'[q] = req[q],
           drifted => drifted',
           Writes(r)' => Writes(r),
           Writes(r) /\ ~Writes(r)' => drifted',
           SnapshotInv(r)',
           Writes(r)' /\ ~drifted' => ReadsPresent(r)'
    PROVE  IndInv'
<1>1. FactsNow' \subseteq held' /\ StageIsEarned' /\ ReadyWasEarned' /\ BookedWithLadv'
  BY HistoryGrows, KeepEarned
<1>2. \A q \in Requests : q # r => (Writes(q)' <=> Writes(q))
  BY DEF Writes, At
<1>3. StageIsCurrent'
  <2>1. Quiet' /\ ~drifted' => Quiet /\ ~drifted BY <1>2 DEF Quiet
  <2> QED BY <2>1 DEF IndInv, StageIsCurrent, StageNow
<1>4. ASSUME NEW q \in Requests PROVE SnapshotInv(q)'
  <2>1. CASE q = r BY <2>1
  <2>2. CASE q # r BY <2>2, KeepSnapshot
  <2> QED BY <2>1, <2>2
<1>5. ASSUME NEW q \in Requests, Writes(q)', ~drifted' PROVE Alone(q)' /\ ReadsPresent(q)'
  <2>1. Writes(q) /\ ~drifted BY <1>2, <1>5
  <2>2. Alone(q) /\ ReadsPresent(q) BY <2>1 DEF IndInv
  <2>3. Alone(q)' BY <1>2, <2>2 DEF Alone
  <2>4. CASE q = r BY <1>5, <2>3, <2>4
  <2>5. CASE q # r
    <3>1. req'[q] = req[q] BY <2>5
    <3> QED BY <2>2, <2>3, <3>1 DEF ReadsPresent, At, StageNow
  <2> QED BY <2>4, <2>5
<1> QED BY <1>1, <1>3, <1>4, <1>5 DEF IndInv

\* A step that changes rows and is followed by no refresh.
LEMMA RowStep ==
    ASSUME IndInv, TypeOK', Observe, UNCHANGED <<stage, req, booked>>, drifted',
           today' = today \/ today' = today + 1, student'.ready = student.ready
    PROVE  IndInv'
<1>1. FactsNow' \subseteq held' /\ StageIsEarned' /\ ReadyWasEarned' /\ BookedWithLadv'
  BY HistoryGrows, KeepEarned
<1>2. \A q \in Requests : SnapshotInv(q)'
  BY KeepSnapshot
<1> QED BY <1>1, <1>2 DEF IndInv, StageIsCurrent

(***************************************************************************)
(* The steps                                                               *)
(***************************************************************************)
LEMMA BeginStep ==
    ASSUME TypeOK, NEW r \in Requests, NEW kind \in {"refresh", "declare", "book"}, Begin(r, kind)
    PROVE  /\ req' \in [Requests -> Slot]
           /\ req'[r].at = "student" /\ req'[r].kind = kind /\ req'[r].read = {}
           /\ req'[r].student = Registered /\ req'[r].renach = NoRenach
           /\ req'[r].practical = NoPractice
           /\ \A q \in Requests : q # r => req'[q] = req[q]
           /\ ~Writes(r) /\ started' \in 0..MaxStarts
<1> DEFINE n == [Idle EXCEPT !.at = "student", !.kind = kind]
<1>1. /\ n \in Slot /\ n.at = "student" /\ n.kind = kind /\ n.read = {}
      /\ n.student = Registered /\ n.renach = NoRenach /\ n.practical = NoPractice
  BY IdleSlot DEF Idle, Slot
<1>2. Goto(r, n) BY DEF Begin
<1> HIDE DEF n
<1>3. /\ req' \in [Requests -> Slot] /\ req'[r] = n
      /\ \A q \in Requests : q # r => req'[q] = req[q]
  BY <1>1, <1>2, GotoSlot
<1>4. started' \in 0..MaxStarts
  BY JourneyAssumption DEF Begin, TypeOK, JourneyAssumption
<1>5. ~Writes(r) BY DEF Begin, Writes
<1> QED BY <1>1, <1>3, <1>4, <1>5

\* The handlers that write a row, or none, and then the stage.
LEMMA WriteStep ==
    ASSUME IndInv, Observe, NEW r \in Requests, NEW kind \in {"refresh", "declare"},
           BeginWrite(r, kind), UNCHANGED <<stage, lesson, today, worker, booked>>,
           student' \in StudentRow, student'.ready = student.ready, renach' \in RenachRow
    PROVE  IndInv'
<1> TypeOK BY DEF IndInv
<1>1. /\ req' \in [Requests -> Slot]
      /\ req'[r].at = "student" /\ req'[r].kind = kind /\ req'[r].read = {}
      /\ req'[r].student = Registered /\ req'[r].renach = NoRenach
      /\ req'[r].practical = NoPractice
      /\ \A q \in Requests : q # r => req'[q] = req[q]
      /\ ~Writes(r) /\ started' \in 0..MaxStarts
  BY BeginStep DEF BeginWrite
<1>2. TypeOK'
  BY <1>1, HistoryGrows DEF TypeOK, BeginWrite
<1>3. FactsNow' \subseteq held' /\ StageIsEarned' /\ ReadyWasEarned' /\ BookedWithLadv'
  BY HistoryGrows, KeepEarned
<1>4. ASSUME NEW q \in Requests PROVE SnapshotInv(q)'
  <2>1. CASE q = r BY <1>1, <1>2, <2>1, EmptySnapshot
  <2>2. CASE q # r
    <3>1. req'[q] = req[q] BY <1>1, <2>2
    <3> QED BY <3>1, KeepSnapshot
  <2> QED BY <2>1, <2>2
<1>5. Writes(r)' BY <1>1 DEF Writes, At
<1>6. StageIsCurrent' BY <1>5 DEF StageIsCurrent, Quiet
<1>7. ASSUME NEW q \in Requests, Writes(q)', ~drifted' PROVE Alone(q)' /\ ReadsPresent(q)'
  <2>1. \A p \in Requests : Writes(p)' => p = r
    BY <1>1, <1>7 DEF BeginWrite, Quiet, Writes, At
  <2>2. q = r BY <2>1, <1>7
  <2> QED BY <1>1, <2>1, <2>2 DEF Alone, ReadsPresent, At
<1> QED BY <1>2, <1>3, <1>4, <1>6, <1>7 DEF IndInv

LEMMA BookStep ==
    ASSUME IndInv, Observe, NEW r \in Requests, BookLesson(r) PROVE IndInv'
<1> TypeOK BY DEF IndInv
<1>1. /\ req' \in [Requests -> Slot]
      /\ req'[r].at = "student" /\ req'[r].kind = "book" /\ req'[r].read = {}
      /\ req'[r].student = Registered /\ req'[r].renach = NoRenach
      /\ req'[r].practical = NoPractice
      /\ \A q \in Requests : q # r => req'[q] = req[q]
      /\ ~Writes(r) /\ started' \in 0..MaxStarts
  BY BeginStep DEF BookLesson
<1>2. TypeOK'
  BY <1>1, HistoryGrows DEF TypeOK, BookLesson
<1>3. SnapshotInv(r)' BY <1>1, <1>2, EmptySnapshot
<1>4. ~Writes(r)' BY <1>1 DEF Writes
<1> QED BY <1>1, <1>2, <1>3, <1>4, RequestStep DEF BookLesson

LEMMA LoadStudentStep ==
    ASSUME IndInv, Observe, NEW r \in Requests, LoadStudent(r) PROVE IndInv'
<1> TypeOK BY DEF IndInv
<1> DEFINE n == [req[r] EXCEPT !.at = "rest", !.student = student]
<1>1. /\ n \in Slot /\ n.at = "rest" /\ n.kind = req[r].kind /\ n.read = req[r].read
      /\ n.student = student /\ n.renach = req[r].renach /\ n.practical = req[r].practical
  BY DEF TypeOK, Slot
<1>2. Goto(r, n) BY DEF LoadStudent
<1> HIDE DEF n
<1>3. /\ req' \in [Requests -> Slot] /\ req'[r] = n
      /\ \A q \in Requests : q # r => req'[q] = req[q]
  BY <1>1, <1>2, GotoSlot
<1>4. TypeOK'
  BY <1>3, HistoryGrows DEF TypeOK, LoadStudent, Unwritten
<1>5. SnapshotInv(r) /\ At(r, "student")
  BY DEF IndInv, LoadStudent
<1>6. Facts(n.student, n.renach, n.practical, today) \subseteq held
  <2>1. Facts(student, renach, Summary(lesson), today) \subseteq held
    BY DEF IndInv, FactsNow
  <2>2. Facts(req[r].student, req[r].renach, req[r].practical, today) \subseteq held
    BY <1>5 DEF SnapshotInv
  <2>3. Facts(student, req[r].renach, req[r].practical, today) \subseteq held
    BY <2>1, <2>2, FactsMix
  <2> QED BY <1>1, <2>3
<1>7. SnapshotInv(r)'
  BY <1>1, <1>3, <1>6, HistoryGrows DEF SnapshotInv, At, LoadStudent, Unwritten
<1>8. Writes(r)' <=> Writes(r)
  BY <1>1, <1>3, <1>5 DEF Writes, At
<1>9. ReadsPresent(r)'
  BY <1>1, <1>3, <1>5 DEF ReadsPresent, SnapshotInv, At, LoadStudent, Unwritten
<1> QED BY <1>3, <1>4, <1>7, <1>8, <1>9, RequestStep DEF LoadStudent, Unwritten

LEMMA FinishSlot ==
    ASSUME TypeOK, NEW r \in Requests, Finish(r)
    PROVE  /\ req' \in [Requests -> Slot]
           /\ req'[r].at = "idle" /\ req'[r].read = {} /\ req'[r].student = Registered
           /\ req'[r].renach = NoRenach /\ req'[r].practical = NoPractice
           /\ \A q \in Requests : q # r => req'[q] = req[q]
<1>1. /\ Idle.at = "idle" /\ Idle.read = {} /\ Idle.student = Registered
      /\ Idle.renach = NoRenach /\ Idle.practical = NoPractice
  BY DEF Idle
<1> QED BY <1>1, IdleSlot, GotoSlot DEF Finish

\* What computeStage makes of the snapshot, with the declaration in it.
LEMMA ResultShown ==
    ASSUME NEW slot \in Slot, today \in Nat,
           Facts(slot.student, slot.renach, slot.practical, today) \subseteq held
    PROVE  Result(slot) \in Stage /\ Needs[Result(slot)] \subseteq held
<1> DEFINE s == [slot.student EXCEPT !.ready = @ \/ slot.kind = "declare"]
<1>1. slot.student \in StudentRow /\ slot.renach \in RenachRow /\ slot.practical \in Practical
  BY DEF Slot
<1>2. s \in StudentRow /\ s.number = slot.student.number /\ s.until = slot.student.until
      /\ s.status = slot.student.status /\ s.theory = slot.student.theory
  BY <1>1 DEF StudentRow
<1>3. Result(slot) = ComputeStage(s, slot.renach, slot.practical, today)
  BY DEF Result
<1> HIDE DEF s
<1>4. Facts(s, slot.renach, slot.practical, today) \subseteq held
  BY <1>2, SameColumns
<1> QED BY <1>1, <1>2, <1>3, <1>4, StageShowsFacts

LEMMA LoadedStep ==
    ASSUME IndInv, Observe, NEW r \in Requests, At(r, "rest"),
           NEW slot \in Slot, Loaded(r, slot), slot.at = "rest", slot.kind = req[r].kind,
           Facts(slot.student, slot.renach, slot.practical, today) \subseteq held,
           slot.student.ready => student.ready,
           Writes(r) /\ ~drifted =>
             /\ slot.student = student
             /\ "renach" \in slot.read => slot.renach = renach
             /\ "lessons" \in slot.read => slot.practical = Summary(lesson)
    PROVE  IndInv'
<1> TypeOK BY DEF IndInv
<1>0. today \in Nat /\ held' \subseteq Fact
  <2>1. today \in 1..Horizon + 1 /\ Horizon \in Nat
    BY JourneyAssumption DEF TypeOK, JourneyAssumption
  <2> QED BY <2>1, HistoryGrows
<1>1. CASE slot.read # {"renach", "lessons"} /\ Goto(r, slot) /\ UNCHANGED drifted
  <2>1. /\ req' \in [Requests -> Slot] /\ req'[r] = slot
        /\ \A q \in Requests : q # r => req'[q] = req[q]
    BY <1>1, GotoSlot
  <2>2. TypeOK' BY <1>0, <1>1, <2>1 DEF TypeOK, Loaded, Unwritten
  <2>3. SnapshotInv(r)' BY <2>1, HistoryGrows DEF SnapshotInv, At, Loaded, Unwritten
  <2>4. Writes(r)' <=> Writes(r) BY <2>1 DEF Writes, At
  <2>5. Writes(r) /\ ~drifted => ReadsPresent(r)'
    BY <2>1 DEF ReadsPresent, At, Loaded, Unwritten
  <2> QED BY <1>1, <2>1, <2>2, <2>3, <2>4, <2>5, RequestStep DEF Loaded, Unwritten
<1>2. CASE Refused(slot) /\ Finish(r) /\ drifted' = (drifted \/ slot.kind = "declare")
  <2>1. /\ req' \in [Requests -> Slot]
        /\ req'[r].at = "idle" /\ req'[r].read = {} /\ req'[r].student = Registered
        /\ req'[r].renach = NoRenach /\ req'[r].practical = NoPractice
        /\ \A q \in Requests : q # r => req'[q] = req[q]
    BY <1>2, FinishSlot
  <2>2. TypeOK' BY <1>0, <1>2, <2>1 DEF TypeOK, Loaded, Unwritten
  <2>3. SnapshotInv(r)' BY <2>1, <2>2, EmptySnapshot
  <2>4. ~Writes(r)' BY <2>1 DEF Writes, At
  <2>5. Writes(r) => slot.kind = "declare" BY <1>2 DEF Refused, Writes
  <2> QED BY <1>2, <2>1, <2>2, <2>3, <2>4, <2>5, RequestStep DEF Loaded, Unwritten
<1>3. CASE /\ slot.read = {"renach", "lessons"} /\ ~Refused(slot)
           /\ Goto(r, [Idle EXCEPT !.at = "save", !.kind = slot.kind, !.stage = Result(slot)])
           /\ UNCHANGED drifted
  <2> DEFINE n == [Idle EXCEPT !.at = "save", !.kind = slot.kind, !.stage = Result(slot)]
  <2>1. Result(slot) \in Stage /\ Needs[Result(slot)] \subseteq held
    BY <1>0, ResultShown
  <2>2. slot.kind \in {"refresh", "declare", "book"} BY DEF Slot
  <2>3. /\ n \in Slot /\ n.at = "save" /\ n.kind = slot.kind /\ n.stage = Result(slot)
        /\ n.student = Registered /\ n.renach = NoRenach /\ n.practical = NoPractice
    BY <2>1, <2>2, IdleSlot DEF Idle, Slot
  <2> HIDE DEF n
  <2>4. /\ req' \in [Requests -> Slot] /\ req'[r] = n
        /\ \A q \in Requests : q # r => req'[q] = req[q]
    BY <1>3, <2>3, GotoSlot DEF n
  <2>5. TypeOK' BY <1>0, <1>3, <2>4 DEF TypeOK, Loaded, Unwritten
  <2>6. slot.kind = "declare" => "minimum" \in held
    BY <1>3 DEF Refused, Facts
  <2>7. slot.kind = "book" => CanSchedule(Result(slot))
    BY <1>3 DEF Refused
  <2>8. SnapshotInv(r)'
    BY <1>0, <2>1, <2>3, <2>4, <2>6, <2>7, NothingShown, HistoryGrows
       DEF SnapshotInv, At, Loaded, Unwritten
  <2>9. Writes(r)' <=> Writes(r) BY <2>3, <2>4 DEF Writes, At
  <2>10. Writes(r) /\ ~drifted => Result(slot) = StageNow(slot.kind = "declare")
    BY <1>3 DEF Result, StageNow
  <2>11. Writes(r) /\ ~drifted => ReadsPresent(r)'
    BY <2>3, <2>4, <2>10 DEF ReadsPresent, At, Loaded, Unwritten, StageNow
  <2> QED BY <1>3, <2>4, <2>5, <2>8, <2>9, <2>11, RequestStep DEF Loaded, Unwritten
<1> QED BY <1>1, <1>2, <1>3 DEF Loaded

LEMMA LoadRenachStep ==
    ASSUME IndInv, Observe, NEW r \in Requests, LoadRenach(r) PROVE IndInv'
<1> DEFINE n == [req[r] EXCEPT !.read = @ \cup {"renach"}, !.renach = renach]
<1>1. SnapshotInv(r) /\ At(r, "rest") /\ (Writes(r) /\ ~drifted => ReadsPresent(r))
  BY DEF IndInv, LoadRenach
<1>2. /\ n \in Slot /\ n.at = "rest" /\ n.kind = req[r].kind /\ n.read = req[r].read \cup {"renach"}
      /\ n.student = req[r].student /\ n.renach = renach /\ n.practical = req[r].practical
  BY <1>1 DEF IndInv, TypeOK, Slot, At
<1>3. Loaded(r, n) BY DEF LoadRenach
<1> HIDE DEF n
<1>4. Facts(n.student, n.renach, n.practical, today) \subseteq held
  <2>1. /\ Facts(student, renach, Summary(lesson), today) \subseteq held
        /\ Facts(req[r].student, req[r].renach, req[r].practical, today) \subseteq held
    BY <1>1 DEF IndInv, FactsNow, SnapshotInv
  <2>2. Facts(req[r].student, renach, req[r].practical, today) \subseteq held
    BY <2>1, FactsMix
  <2> QED BY <1>2, <2>2
<1>5. n.student.ready => student.ready BY <1>1, <1>2 DEF SnapshotInv
<1>6. Writes(r) /\ ~drifted =>
        /\ n.student = student
        /\ "renach" \in n.read => n.renach = renach
        /\ "lessons" \in n.read => n.practical = Summary(lesson)
  BY <1>1, <1>2 DEF ReadsPresent
<1> QED BY <1>1, <1>2, <1>3, <1>4, <1>5, <1>6, LoadedStep

LEMMA LoadLessonsStep ==
    ASSUME IndInv, Observe, NEW r \in Requests, LoadLessons(r) PROVE IndInv'
<1> DEFINE n == [req[r] EXCEPT !.read = @ \cup {"lessons"}, !.practical = Summary(lesson)]
<1>1. SnapshotInv(r) /\ At(r, "rest") /\ (Writes(r) /\ ~drifted => ReadsPresent(r))
  BY DEF IndInv, LoadLessons
<1>2. /\ n \in Slot /\ n.at = "rest" /\ n.kind = req[r].kind /\ n.read = req[r].read \cup {"lessons"}
      /\ n.student = req[r].student /\ n.renach = req[r].renach /\ n.practical = Summary(lesson)
  BY <1>1, SummaryType DEF IndInv, TypeOK, Slot, At
<1>3. Loaded(r, n) BY DEF LoadLessons
<1> HIDE DEF n
<1>4. Facts(n.student, n.renach, n.practical, today) \subseteq held
  <2>1. /\ Facts(student, renach, Summary(lesson), today) \subseteq held
        /\ Facts(req[r].student, req[r].renach, req[r].practical, today) \subseteq held
    BY <1>1 DEF IndInv, FactsNow, SnapshotInv
  <2>2. Facts(req[r].student, req[r].renach, n.practical, today) \subseteq held
    BY <1>2, <2>1 DEF Facts
  <2> QED BY <1>2, <2>2
<1>5. n.student.ready => student.ready BY <1>1, <1>2 DEF SnapshotInv
<1>6. Writes(r) /\ ~drifted =>
        /\ n.student = student
        /\ "renach" \in n.read => n.renach = renach
        /\ "lessons" \in n.read => n.practical = Summary(lesson)
  BY <1>1, <1>2 DEF ReadsPresent
<1> QED BY <1>1, <1>2, <1>3, <1>4, <1>5, <1>6, LoadedStep

LEMMA SaveStep ==
    ASSUME IndInv, Observe, NEW r \in Requests, Save(r) PROVE IndInv'
<1> TypeOK BY DEF IndInv
<1>1. SnapshotInv(r) /\ At(r, "save") /\ (Writes(r) /\ ~drifted => Alone(r) /\ ReadsPresent(r))
  BY DEF IndInv, Save
<1>2. /\ req' \in [Requests -> Slot]
      /\ req'[r].at = "idle" /\ req'[r].read = {} /\ req'[r].student = Registered
      /\ req'[r].renach = NoRenach /\ req'[r].practical = NoPractice
      /\ \A q \in Requests : q # r => req'[q] = req[q]
  BY FinishSlot DEF Save
<1>3. /\ student' \in StudentRow /\ student'.number = student.number
      /\ student'.until = student.until /\ student'.status = student.status
      /\ student'.theory = student.theory
      /\ student'.ready <=> student.ready \/ req[r].kind = "declare"
  BY DEF Save, TypeOK, StudentRow
<1>4. req[r].stage \in Stage /\ Needs[req[r].stage] \subseteq held
  BY <1>1 DEF TypeOK, Slot, SnapshotInv
<1>5. TypeOK'
  BY <1>2, <1>3, <1>4, HistoryGrows DEF TypeOK, Save
<1>6. StageIsEarned'
  BY <1>4, HistoryGrows DEF Save, IndInv, StageIsEarned
<1>7. ReadyWasEarned'
  BY <1>1, <1>3, HistoryGrows DEF IndInv, ReadyWasEarned, SnapshotInv
<1>8. BookedWithLadv'
  <2>1. CASE req[r].kind = "book"
    <3>1. CanSchedule(req[r].stage) BY <1>1, <2>1 DEF SnapshotInv
    <3>2. {"renachDone", "ladv"} \subseteq held BY <3>1, <1>4, BookableStage
    <3> QED BY <3>2, HistoryGrows DEF BookedWithLadv
  <2>2. CASE req[r].kind # "book"
    <3>1. booked' = booked BY <2>2 DEF Save
    <3> QED BY <3>1, HistoryGrows DEF IndInv, BookedWithLadv
  <2> QED BY <2>1, <2>2
<1>9. ASSUME NEW q \in Requests PROVE SnapshotInv(q)'
  <2>1. CASE q = r BY <1>2, <1>5, <2>1, EmptySnapshot
  <2>2. CASE q # r
    <3>1. req'[q] = req[q] /\ today' = today BY <1>2, <2>2 DEF Save
    <3> QED BY <1>3, <3>1, KeepSnapshot
  <2> QED BY <2>1, <2>2
<1>10. \A q \in Requests : Writes(q)' => q # r /\ Writes(q)
  BY <1>2 DEF Writes, At
<1>11. CASE req[r].kind = "book"
  <2>1. UNCHANGED <<student, stage, renach, lesson, today, drifted>> BY <1>11 DEF Save
  <2>2. ~Writes(r) BY <1>11 DEF Writes
  <2>3. Writes(r)' => Writes(r) BY <1>10
  <2>4. ReadsPresent(r)' BY <1>2 DEF ReadsPresent, At
  <2>5. Quiet' => Quiet BY <1>2, <2>2 DEF Quiet, Writes, At
  <2>6. StageIsCurrent' BY <2>1, <2>5 DEF IndInv, StageIsCurrent, StageNow
  <2>7. ASSUME NEW q \in Requests, Writes(q)', ~drifted' PROVE Alone(q)' /\ ReadsPresent(q)'
    <3>1. q # r /\ Writes(q) BY <1>10, <2>7
    <3>2. Alone(q) /\ ReadsPresent(q) /\ req'[q] = req[q]
      BY <1>2, <2>1, <2>7, <3>1 DEF IndInv
    <3>3. Alone(q)' BY <1>10, <3>2 DEF Alone
    <3>4. ReadsPresent(q)' BY <2>1, <3>2 DEF ReadsPresent, At, StageNow
    <3> QED BY <3>3, <3>4
  <2> QED BY <1>5, <1>6, <1>7, <1>8, <1>9, <2>6, <2>7, HistoryGrows DEF IndInv
<1>12. CASE req[r].kind # "book"
  <2>1. Writes(r) /\ drifted' = drifted BY <1>1, <1>12 DEF Writes, At, Save
  <2>2. ~drifted => \A q \in Requests : ~Writes(q)'
    BY <1>1, <1>10, <2>1 DEF Alone
  <2>3. ASSUME ~drifted PROVE stage' = StageNow(FALSE)'
    <3> DEFINE s == [student EXCEPT !.ready = @ \/ (req[r].kind = "declare")]
               t == [student' EXCEPT !.ready = @ \/ FALSE]
    <3>1. stage' = req[r].stage BY <1>12 DEF Save
    <3>2. req[r].stage = ComputeStage(s, renach, Summary(lesson), today)
      BY <1>1, <2>1, <2>3 DEF ReadsPresent, StageNow
    <3>3. /\ s.number = t.number /\ s.until = t.until /\ s.status = t.status /\ s.theory = t.theory
          /\ s.ready <=> t.ready
      BY <1>3 DEF TypeOK, StudentRow
    <3>4. StageNow(FALSE)' = ComputeStage(t, renach, Summary(lesson), today)
      BY DEF StageNow, Save
    <3> HIDE DEF s, t
    <3>5. ComputeStage(s, renach, Summary(lesson), today) = ComputeStage(t, renach, Summary(lesson), today)
      BY <3>3, SameColumns
    <3> QED BY <3>1, <3>2, <3>4, <3>5
  <2>4. StageIsCurrent' BY <2>1, <2>3 DEF StageIsCurrent
  <2> QED BY <1>5, <1>6, <1>7, <1>8, <1>9, <2>1, <2>2, <2>4, HistoryGrows DEF IndInv
<1> QED BY <1>11, <1>12

LEMMA CrashStep ==
    ASSUME IndInv, Observe, NEW r \in Requests, Crash(r) PROVE IndInv'
<1> TypeOK BY DEF IndInv
<1>1. /\ req' \in [Requests -> Slot]
      /\ req'[r].at = "idle" /\ req'[r].read = {} /\ req'[r].student = Registered
      /\ req'[r].renach = NoRenach /\ req'[r].practical = NoPractice
      /\ \A q \in Requests : q # r => req'[q] = req[q]
  BY FinishSlot DEF Crash
<1>2. TypeOK' BY <1>1, HistoryGrows DEF TypeOK, Crash, Unwritten
<1>3. SnapshotInv(r)' BY <1>1, <1>2, EmptySnapshot
<1>4. ~Writes(r)' BY <1>1 DEF Writes, At
<1> QED BY <1>1, <1>2, <1>3, <1>4, RequestStep DEF Crash, Unwritten

(***************************************************************************)
(* The worker, the clock and the lessons                                   *)
(***************************************************************************)
LEMMA WorkerFindStep == ASSUME IndInv, Observe, WorkerFind PROVE IndInv'
<1>1. TypeOK' BY HistoryGrows DEF IndInv, TypeOK, WorkerFind
<1>2. FactsNow' \subseteq held' /\ StageIsEarned' /\ ReadyWasEarned' /\ BookedWithLadv'
  BY HistoryGrows, KeepEarned DEF WorkerFind
<1>3. \A q \in Requests : SnapshotInv(q)' BY KeepSnapshot DEF WorkerFind
<1>4. StageIsCurrent' BY DEF IndInv, StageIsCurrent, StageNow, Quiet, Writes, At, WorkerFind
<1>5. \A q \in Requests : Writes(q)' /\ ~drifted' => Alone(q)' /\ ReadsPresent(q)'
  BY DEF IndInv, Writes, Alone, ReadsPresent, At, StageNow, WorkerFind
<1> QED BY <1>1, <1>2, <1>3, <1>4, <1>5 DEF IndInv

LEMMA WorkerSaveStep == ASSUME IndInv, Observe, WorkerSave PROVE IndInv'
<1>1. student' \in StudentRow /\ student'.ready = student.ready
  BY DEF WorkerSave, IndInv, TypeOK, StudentRow, OcrStatus
<1>2. TypeOK' BY <1>1, HistoryGrows DEF IndInv, TypeOK, WorkerSave
<1> QED BY <1>1, <1>2, RowStep DEF WorkerSave

LEMMA TickStep == ASSUME IndInv, Observe, Tick PROVE IndInv'
<1>1. today' \in 1..Horizon + 1
  BY JourneyAssumption DEF Tick, IndInv, TypeOK, JourneyAssumption
<1>2. TypeOK' BY <1>1, HistoryGrows DEF IndInv, TypeOK, Tick
<1> QED BY <1>2, RowStep DEF Tick

LEMMA LessonStep ==
    ASSUME IndInv, Observe, NEW l \in Lessons, NEW row \in LessonRows, LessonChanges(l, row)
    PROVE  IndInv'
<1>1. lesson' \in [Lessons -> LessonRow]
  BY JourneyAssumption DEF LessonChanges, IndInv, TypeOK, JourneyAssumption
<1>2. TypeOK' BY <1>1, HistoryGrows DEF IndInv, TypeOK, LessonChanges
<1> QED BY <1>2, RowStep DEF LessonChanges

(***************************************************************************)
(* The theorems                                                            *)
(***************************************************************************)
LEMMA StartStep ==
    ASSUME IndInv, Observe, NEW r \in Requests, Start(r) PROVE IndInv'
<1> student \in StudentRow /\ renach \in RenachRow
  BY DEF IndInv, TypeOK
<1>1. CASE StartTheoryCourse(r)
  <2>1. student' \in StudentRow /\ student'.ready = student.ready
    BY <1>1 DEF StartTheoryCourse, StudentRow
  <2> QED BY <1>1, <2>1, WriteStep DEF StartTheoryCourse
<1>2. CASE ScheduleRenach(r)
  <2>1. renach' \in RenachRow BY <1>2 DEF ScheduleRenach, RenachRow
  <2> QED BY <1>2, <2>1, WriteStep DEF ScheduleRenach
<1>3. CASE FinishRenach(r)
  <2>1. renach' \in RenachRow BY <1>3 DEF FinishRenach, RenachRow
  <2> QED BY <1>3, <2>1, WriteStep DEF FinishRenach
<1>4. CASE DeclareReady(r) BY <1>4, WriteStep DEF DeclareReady
<1>5. CASE BookLesson(r) BY <1>5, BookStep
<1>6. ASSUME NEW number \in BOOLEAN, NEW until \in Nat, NEW status \in OcrStatus,
             SaveLadv(r, number, until, status)
      PROVE  IndInv'
  <2>1. student' \in StudentRow /\ student'.ready = student.ready
    BY <1>6 DEF SaveLadv, StudentRow
  <2> QED BY <1>6, <2>1, WriteStep DEF SaveLadv
<1>7. ASSUME NEW doc \in Documents, UploadLadv(r, doc) PROVE IndInv'
  <2>1. doc.number \in BOOLEAN /\ doc.until \in Nat
    BY JourneyAssumption DEF JourneyAssumption, Document
  <2>2. ParsedStatus(doc, today) \in OcrStatus BY DEF ParsedStatus, OcrStatus
  <2> QED BY <1>6, <1>7, <2>1, <2>2 DEF UploadLadv
<1>8. ASSUME NEW until \in 1..Horizon, EnterLadv(r, until) PROVE IndInv'
  <2>1. until \in Nat /\ "PASS" \in OcrStatus
    BY JourneyAssumption DEF JourneyAssumption, OcrStatus
  <2> QED BY <1>6, <1>8, <2>1 DEF EnterLadv
<1> QED BY <1>1, <1>2, <1>3, <1>4, <1>5, <1>7, <1>8 DEF Start

LEMMA NextInv == IndInv /\ [Next]_vars => IndInv'
<1>1. ASSUME IndInv, Step, Observe PROVE IndInv'
  <2>1. CASE \E r \in Requests : Start(r) \/ Continue(r) \/ Crash(r)
    <3>1. PICK r \in Requests : Start(r) \/ Continue(r) \/ Crash(r) BY <2>1
    <3>2. CASE Start(r) BY <1>1, <3>2, StartStep
    <3>3. CASE Continue(r)
      BY <1>1, <3>3, LoadStudentStep, LoadRenachStep, LoadLessonsStep, SaveStep DEF Continue
    <3>4. CASE Crash(r) BY <1>1, <3>4, CrashStep
    <3> QED BY <3>1, <3>2, <3>3, <3>4
  <2>2. CASE WorkerFind \/ WorkerSave \/ Tick
    BY <1>1, <2>2, WorkerFindStep, WorkerSaveStep, TickStep
  <2>3. CASE \E l \in Lessons, row \in LessonRows : LessonChanges(l, row)
    BY <1>1, <2>3, LessonStep
  <2> QED BY <1>1, <2>1, <2>2, <2>3 DEF Step
<1>2. ASSUME IndInv, UNCHANGED vars PROVE IndInv'
  BY <1>2 DEF vars, IndInv, TypeOK, FactsNow, StageIsEarned, ReadyWasEarned, BookedWithLadv,
              StageIsCurrent, StageNow, SnapshotInv, Quiet, Writes, Alone, ReadsPresent, At
<1> QED BY <1>1, <1>2 DEF Next

\* Snapshots in flight, rows and history agree at every moment.
THEOREM Agreement == Spec => []IndInv
<1> QED BY InitInv, NextInv, PTL DEF Spec

\* Rows and requests keep the columns and values of the code.
THEOREM Typed == Spec => []TypeOK
<1>1. IndInv => TypeOK BY DEF IndInv
<1> QED BY <1>1, Agreement, PTL

\* No race of refreshes stores a stage whose conditions have not each been true.
THEOREM StagesAreEarned == Spec => []StageIsEarned
<1>1. IndInv => StageIsEarned BY DEF IndInv
<1> QED BY <1>1, Agreement, PTL

\* Nobody is on record as ready for the exam without having had the minutes.
THEOREM ReadinessIsEarned == Spec => []ReadyWasEarned
<1>1. IndInv => ReadyWasEarned BY DEF IndInv
<1> QED BY <1>1, Agreement, PTL

\* LessonsService.create lets nobody through the journey gate without RENACH and LADV.
THEOREM GateHolds == Spec => []BookedWithLadv
<1>1. IndInv => BookedWithLadv BY DEF IndInv
<1> QED BY <1>1, Agreement, PTL

\* A refresh that ran alone has left the stage of the present rows.
THEOREM RefreshIsExact == Spec => []StageIsCurrent
<1>1. IndInv => StageIsCurrent BY DEF IndInv
<1> QED BY <1>1, Agreement, PTL
=============================================================================
