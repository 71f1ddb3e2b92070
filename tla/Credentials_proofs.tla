------------------------- MODULE Credentials_proofs -------------------------
(***************************************************************************)
(* Credentials: the inductive invariant and what follows from it, for any  *)
(* number of requests, any clock and any text of a CNH.                    *)
(***************************************************************************)
EXTENDS Credentials, TLAPS

\* The updates of the row keep its type.
LEMMA RowFields ==
    ASSUME instructor \in InstructorRow
    PROVE  /\ instructor.status \in {"PENDING", "APPROVED", "EXPIRED"}
           /\ instructor.validUntil \in Nat
           /\ \A u \in Nat :
                [instructor EXCEPT !.status = "APPROVED", !.validUntil = u] \in InstructorRow
           /\ \A s \in {"APPROVED", "EXPIRED"} : [instructor EXCEPT !.status = s] \in InstructorRow
           /\ [instructor EXCEPT !.status = "APPROVED", !.active = TRUE] \in InstructorRow
           /\ [instructor EXCEPT !.active = FALSE] \in InstructorRow
  BY DEF InstructorRow

\* The rows the provers meet after each update, field by field.
LEMMA RowUpdates ==
    ASSUME instructor \in InstructorRow
    PROVE  /\ \A u : [instructor EXCEPT !.status = "APPROVED", !.validUntil = u].status = "APPROVED"
           /\ \A u : [instructor EXCEPT !.status = "APPROVED", !.validUntil = u].validUntil = u
           /\ \A s : [instructor EXCEPT !.status = s].status = s
           /\ \A s : [instructor EXCEPT !.status = s].validUntil = instructor.validUntil
           /\ \A n, c : /\ [instructor EXCEPT !.cnhNumber = n, !.cnhExpiry = c].status = instructor.status
                        /\ [instructor EXCEPT !.cnhNumber = n, !.cnhExpiry = c].validUntil
                             = instructor.validUntil
           /\ [instructor EXCEPT !.status = "APPROVED", !.active = TRUE].status = "APPROVED"
           /\ [instructor EXCEPT !.status = "APPROVED", !.active = TRUE].validUntil
                = instructor.validUntil
           /\ [instructor EXCEPT !.active = FALSE].status = instructor.status
           /\ [instructor EXCEPT !.active = FALSE].validUntil = instructor.validUntil
  BY DEF InstructorRow

\* The invariant holds at the start.
LEMMA InitIndInv == Init => IndInv
<1> SUFFICES ASSUME Init PROVE IndInv
  OBVIOUS
<1>1. instructor \in InstructorRow /\ instructor.validUntil = 0 /\ instructor.status # "EXPIRED"
  <2>1. ASSUME NEW s \in {"APPROVED", "PENDING"}, NEW n \in BOOLEAN,
               NEW c \in CnhTexts \cup {None}
        PROVE  /\ New(s, n, c) \in InstructorRow
               /\ New(s, n, c).validUntil = 0 /\ New(s, n, c).status # "EXPIRED"
    BY DEF New, InstructorRow
  <2>2. \E s \in {"APPROVED", "PENDING"}, n \in BOOLEAN, c \in CnhTexts \cup {None} :
          instructor = New(s, n, c)
    BY Zenon DEF Init
  <2> QED BY <2>1, <2>2
<1>2. TypeOK
  <2>1. today \in 1..Horizon + 1
    BY CredentialsAssumption DEF Init
  <2> QED BY <1>1, <2>1 DEF Init, TypeOK, Idle, Worker, Slot
<1>3. CredentialInv
  BY <1>1 DEF Init, CredentialInv, NoLessonWithoutApproval, ExpiredIsPast, At, Idle
<1> QED BY <1>2, <1>3 DEF IndInv

\* A step of a request keeps the invariant.
LEMMA RequestStep ==
    ASSUME IndInv, NEW r \in Requests,
           ApproveFind(r) \/ ApproveSave(r) \/ BookFind(r) \/ BookSave(r) \/ Crash(r)
    PROVE  IndInv'
<1> USE CredentialsAssumption
<1>1. instructor \in InstructorRow /\ instructor.validUntil \in Nat /\ today \in Nat
  BY DEF IndInv, TypeOK, InstructorRow
<1>2. ASSUME ApproveFind(r) PROVE IndInv'
  <2> DEFINE u == IF instructor.validUntil > today THEN instructor.validUntil
                                                   ELSE today + TwoYears
  <2>1. u \in Nat /\ u >= instructor.validUntil
    BY <1>1
  <2>2. req' = [req EXCEPT ![r] = [at |-> "approve.save", until |-> u]]
    BY <1>2 DEF ApproveFind, Goto
  <2> HIDE DEF u
  <2>3. TypeOK'
    BY <1>2, <2>1, <2>2 DEF ApproveFind, IndInv, TypeOK, Slot
  <2>4. CredentialInv'
    BY <1>2, <2>1, <2>2
       DEF ApproveFind, IndInv, TypeOK, Slot, CredentialInv, NoLessonWithoutApproval,
           ExpiredIsPast, At
  <2> QED BY <2>3, <2>4 DEF IndInv
<1>3. ASSUME ApproveSave(r) PROVE IndInv'
  <2>1. req[r].until \in Nat
    BY DEF IndInv, TypeOK, Slot
  <2>2. instructor' \in InstructorRow /\ instructor'.status = "APPROVED"
        /\ instructor'.validUntil = req[r].until
    BY <1>1, <1>3, <2>1, RowFields, RowUpdates DEF ApproveSave
  <2>3. TypeOK'
    BY <1>3, <2>2 DEF ApproveSave, Finish, Goto, Idle, IndInv, TypeOK, Slot
  <2>4. CredentialInv'
    BY <1>3, <2>2
       DEF ApproveSave, Finish, Goto, Idle, IndInv, TypeOK, Slot, CredentialInv,
           NoLessonWithoutApproval, ExpiredIsPast, At
  <2> QED BY <2>3, <2>4 DEF IndInv
<1>4. ASSUME BookFind(r) PROVE IndInv'
  <2>1. instructor.validUntil # 0
    BY <1>1, <1>4 DEF BookFind, Fit
  <2>2. approved
    BY <2>1 DEF IndInv, CredentialInv
  <2> QED
    BY <1>4, <2>2
       DEF BookFind, Goto, Idle, IndInv, TypeOK, Slot, CredentialInv,
           NoLessonWithoutApproval, ExpiredIsPast, At
<1>5. ASSUME BookSave(r) PROVE IndInv'
  BY <1>5
     DEF BookSave, Finish, Goto, Idle, IndInv, TypeOK, Slot, CredentialInv,
         NoLessonWithoutApproval, ExpiredIsPast, At
<1>6. ASSUME Crash(r) PROVE IndInv'
  BY <1>6
     DEF Crash, Finish, Goto, Idle, IndInv, TypeOK, Slot, CredentialInv,
         NoLessonWithoutApproval, ExpiredIsPast, At
<1> QED BY <1>2, <1>3, <1>4, <1>5, <1>6

\* A step of the worker, the profile, the seed or the clock keeps it.
LEMMA OtherStep ==
    ASSUME IndInv,
           \/ \E number \in BOOLEAN, expiry \in CnhTexts \cup {None} : Update(number, expiry)
           \/ SeedTest \/ Sweep \/ WorkerCrash \/ Tick
    PROVE  IndInv'
<1> USE CredentialsAssumption
<1>1. instructor \in InstructorRow /\ instructor.validUntil \in Nat /\ today \in Nat
      /\ worker.now \in Nat /\ worker.now <= today
  BY DEF IndInv, TypeOK, InstructorRow, Worker, CredentialInv
<1>2. ASSUME NEW number \in BOOLEAN, NEW expiry \in CnhTexts \cup {None}, Update(number, expiry)
      PROVE  IndInv'
  <2>1. instructor' \in InstructorRow /\ instructor'.status = instructor.status
        /\ instructor'.validUntil = instructor.validUntil
    BY <1>1, <1>2 DEF Update, InstructorRow
  <2> QED
    BY <1>2, <2>1
       DEF Update, IndInv, TypeOK, CredentialInv, NoLessonWithoutApproval, ExpiredIsPast, At
<1>3. ASSUME SeedTest PROVE IndInv'
  <2>1. instructor' \in InstructorRow /\ instructor'.status = "APPROVED"
        /\ instructor'.validUntil = instructor.validUntil
    BY <1>1, <1>3, RowFields, RowUpdates DEF SeedTest
  <2> QED
    BY <1>3, <2>1
       DEF SeedTest, IndInv, TypeOK, CredentialInv, NoLessonWithoutApproval, ExpiredIsPast, At
<1>4. ASSUME FindCnh PROVE IndInv'
  BY <1>1, <1>4
     DEF FindCnh, IndInv, TypeOK, Worker, CredentialInv, NoLessonWithoutApproval,
         ExpiredIsPast, At
<1>5. ASSUME BlockCnh PROVE IndInv'
  <2>1. instructor' \in InstructorRow /\ instructor'.status = instructor.status
        /\ instructor'.validUntil = instructor.validUntil
    BY <1>1, <1>5, RowFields, RowUpdates DEF BlockCnh
  <2> QED
    BY <1>5, <2>1
       DEF BlockCnh, SweepStep, IndInv, TypeOK, Worker, CredentialInv,
           NoLessonWithoutApproval, ExpiredIsPast, At
<1>6. ASSUME FindCredential PROVE IndInv'
  <2>1. worker'.at = "credential.update" => instructor.validUntil < today
    BY <1>1, <1>6 DEF FindCredential, SweepStep, Behind, IndInv, TypeOK, Worker
  <2> QED
    BY <1>6, <2>1
       DEF FindCredential, SweepStep, IndInv, TypeOK, Worker, CredentialInv,
           NoLessonWithoutApproval, ExpiredIsPast, At
<1>7. ASSUME ExpireCredential PROVE IndInv'
  <2>1. instructor' \in InstructorRow /\ instructor'.status = "EXPIRED"
        /\ instructor'.validUntil = instructor.validUntil
    BY <1>1, <1>7, RowFields, RowUpdates DEF ExpireCredential
  <2> QED
    BY <1>7, <2>1
       DEF ExpireCredential, SweepStep, IndInv, TypeOK, Worker, CredentialInv,
           NoLessonWithoutApproval, ExpiredIsPast, At
<1>8. ASSUME WorkerCrash PROVE IndInv'
  BY <1>8
     DEF WorkerCrash, SweepStep, IndInv, TypeOK, Worker, CredentialInv,
         NoLessonWithoutApproval, ExpiredIsPast, At
<1>9. ASSUME Tick PROVE IndInv'
  BY <1>1, <1>9
     DEF Tick, IndInv, TypeOK, CredentialInv, NoLessonWithoutApproval, ExpiredIsPast, At
<1> QED BY <1>2, <1>3, <1>4, <1>5, <1>6, <1>7, <1>8, <1>9 DEF Sweep

\* So does every step.
LEMMA NextIndInv == IndInv /\ [Next]_vars => IndInv'
<1> SUFFICES ASSUME IndInv, [Next]_vars PROVE IndInv'
  OBVIOUS
<1>1. CASE UNCHANGED vars
  BY <1>1
     DEF vars, IndInv, TypeOK, CredentialInv, NoLessonWithoutApproval, ExpiredIsPast, At
<1>2. CASE Next
  BY <1>2, RequestStep, OtherStep DEF Next
<1> QED BY <1>1, <1>2

\* The row of an instructor, the worker and the requests agree on the credential.
THEOREM Agreement == Spec => []IndInv
<1> QED BY InitIndInv, NextIndInv, PTL DEF Spec

\* Rows, worker and requests keep the columns and values of the code.
THEOREM Typed == Spec => []TypeOK
<1>1. IndInv => TypeOK
  BY DEF IndInv
<1> QED BY <1>1, Agreement, PTL

\* create books no lesson with an instructor whom no admin has approved, although
\* register and seedTest write APPROVED.
THEOREM ApprovalComesFirst == Spec => []NoLessonWithoutApproval
<1>1. IndInv => NoLessonWithoutApproval
  BY DEF IndInv, CredentialInv
<1> QED BY <1>1, Agreement, PTL

\* handleExpiredCredentials marks EXPIRED only what has expired, unless an approval
\* comes between its find and its update.
THEOREM SweepIsRight == Spec => []ExpiredIsPast
<1>1. IndInv => ExpiredIsPast
  BY DEF IndInv, CredentialInv
<1> QED BY <1>1, Agreement, PTL

\* Only an approval that another has overtaken shortens a credential.
THEOREM ApprovalsExtend == Spec => DateNotLost
<1>1. ASSUME IndInv, Next, instructor'.validUntil < instructor.validUntil
      PROVE  \E r \in overtaken : ApproveSave(r)
  <2>1. instructor \in InstructorRow /\ instructor.validUntil \in Nat
    BY <1>1 DEF IndInv, TypeOK, InstructorRow
  <2>2. PICK r \in Requests : ApproveSave(r)
    <3>1. CASE ~ \E r \in Requests : ApproveSave(r)
      <4>1. instructor'.validUntil = instructor.validUntil
        BY <1>1, <2>1, <3>1
           DEF InstructorRow, Next, ApproveFind, BookFind, BookSave, Crash, Update, SeedTest, Sweep,
               FindCnh, BlockCnh, FindCredential, ExpireCredential, WorkerCrash, Tick
      <4> QED BY <1>1, <2>1, <4>1
    <3> QED BY <3>1
  <2>3. instructor'.validUntil = req[r].until /\ req[r].until \in Nat
    BY <1>1, <2>1, <2>2, RowUpdates DEF ApproveSave, IndInv, TypeOK, Slot
  <2>4. r \notin overtaken => req[r].until >= instructor.validUntil
    BY <1>1, <2>2 DEF ApproveSave, IndInv, CredentialInv
  <2> QED BY <1>1, <2>1, <2>2, <2>3, <2>4
<1>2. IndInv /\ [Next]_vars
        => [instructor'.validUntil < instructor.validUntil
              => \E r \in overtaken : ApproveSave(r)]_vars
  BY <1>1
<1> QED BY <1>2, Agreement, PTL DEF Spec, DateNotLost
=============================================================================
