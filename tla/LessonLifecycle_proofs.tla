----------------------- MODULE LessonLifecycle_proofs -----------------------
(***************************************************************************)
(* The safety of the money path for any set of lessons, any number of      *)
(* concurrent requests and any retry limit.  IndInv is inductive; every    *)
(* action is checked against it once, by its effect on the rows and the    *)
(* provider, on the slot that acts, and on what other slots remember.      *)
(***************************************************************************)
EXTENDS LessonLifecycleProps, TLAPS

\* What no step undoes: the facts other slots may have read.
Grows ==
    \A l \in Lessons :
        /\ charge[l] => charge'[l]
        /\ paid[l] => paid'[l]
        /\ transfers[l] \subseteq transfers'[l]
        /\ refunds[l] \subseteq refunds'[l]
        /\ lesson[l].checkedIn => lesson'[l].checkedIn
        /\ payment[l].status # "none" => /\ payment'[l].status # "none"
                                         /\ payment'[l].id = payment[l].id

\* A slot is given its new contents, the others keep theirs.
Others(r) == \A q \in Requests \ {r} : req'[q] = req[q]

\* The rows and the provider after a step.
RowsOK == TypeOK' /\ (\A l \in Lessons : MoneyInv(l)') /\ Grows

StepOK(r) == RowsOK /\ SlotInv(r)' /\ Others(r)

\* A slot that does not act keeps its invariant, because what it has read grows.
LEMMA SlotKeeps ==
    ASSUME TypeOK, Grows, NEW q \in Requests, SlotInv(q), req'[q] = req[q]
    PROVE  SlotInv(q)'
<1>1. req[q].pc \notin {"idle", "stale.save", "retry.next"} => req[q].lesson \in Lessons
  BY DEF SlotInv
<1>2. req[q].todo \subseteq Lessons
  BY DEF TypeOK, Slot
<1> QED BY <1>1, <1>2 DEF Grows, SlotInv, ResolvePc, RetryPc

\* One acting slot is enough for the whole invariant.
LEMMA StepSuffices ==
    ASSUME IndInv, NEW r \in Requests, StepOK(r)
    PROVE  IndInv'
<1>1. ASSUME NEW q \in Requests PROVE SlotInv(q)'
  <2>1. CASE q = r BY <2>1 DEF StepOK
  <2>2. CASE q # r
    BY <2>2, SlotKeeps DEF StepOK, RowsOK, Others, IndInv
  <2> QED BY <2>1, <2>2
<1> QED BY <1>1 DEF StepOK, RowsOK, IndInv

\* A step that only moves its slot leaves rows and provider in order.
LEMMA ReadOnly ==
    ASSUME IndInv, UNCHANGED <<lesson, payment, asaasVars>>, req' \in [Requests -> Slot]
    PROVE  RowsOK
<1>1. TypeOK' BY DEF IndInv, TypeOK, AsaasTypeOK, asaasVars
<1>2. \A l \in Lessons : MoneyInv(l)' BY DEF IndInv, MoneyInv, asaasVars
<1>3. Grows BY DEF Grows, asaasVars
<1> QED BY <1>1, <1>2, <1>3 DEF RowsOK

\* A step that writes lesson columns is as harmless when no check-in is undone and
\* a duration is written only for a lesson that was checked in.
LEMMA LessonOnly ==
    ASSUME IndInv, UNCHANGED paymentVars, req' \in [Requests -> Slot],
           lesson' \in [Lessons -> LessonRow],
           \A l \in Lessons : /\ lesson[l].checkedIn => lesson'[l].checkedIn
                              /\ lesson'[l].durationMinutes # None => lesson'[l].checkedIn
    PROVE  RowsOK
<1>1. TypeOK' BY DEF IndInv, TypeOK, AsaasTypeOK, paymentVars, asaasVars
<1>2. \A l \in Lessons : MoneyInv(l)' BY DEF IndInv, MoneyInv, paymentVars, asaasVars
<1>3. Grows BY DEF Grows, paymentVars, asaasVars
<1> QED BY <1>1, <1>2, <1>3 DEF RowsOK

\* Slots: the values the handlers put into them are slots.
LEMMA IdleIsSlot == Idle \in Slot
BY MaxAttemptsAssumption DEF Idle, Slot, Pc, Caller

LEMMA GotoSlot ==
    ASSUME TypeOK, NEW r \in Requests, NEW pc \in Pc, Goto(r, pc)
    PROVE  /\ req' \in [Requests -> Slot]
           /\ req'[r] = [req[r] EXCEPT !.pc = pc]
           /\ Others(r)
BY DEF TypeOK, Goto, Slot, Others

LEMMA FinishSlot ==
    ASSUME TypeOK, NEW r \in Requests, Finish(r)
    PROVE  /\ req' \in [Requests -> Slot]
           /\ req'[r] = Idle
           /\ Others(r)
BY IdleIsSlot DEF TypeOK, Finish, Others

LEMMA BeginSlot ==
    ASSUME TypeOK, NEW r \in Requests, NEW pc \in Pc, NEW caller \in Caller,
           NEW l \in Lessons, Begin(r, pc, caller, l)
    PROVE  /\ req' \in [Requests -> Slot]
           /\ req'[r].pc = pc /\ req'[r].caller = caller /\ req'[r].lesson = l
           /\ req'[r].todo = {}
           /\ Others(r)
BY IdleIsSlot DEF TypeOK, Begin, Others, Slot, Idle

\* An idle slot remembers nothing.
LEMMA IdleInv ==
    ASSUME NEW r \in Requests, req'[r] = Idle
    PROVE  SlotInv(r)'
BY DEF SlotInv, Idle, RetryPc, ResolvePc

LEMMA FinishInv ==
    ASSUME TypeOK, NEW r \in Requests, Finish(r)
    PROVE  SlotInv(r)' /\ Others(r) /\ req' \in [Requests -> Slot]
BY FinishSlot, IdleInv

\* A step that writes the payment row of one lesson: the new row must agree with
\* the provider, and keep the id of the row it replaces.
RowAgrees(l, row) ==
    /\ row.status # "none"
    /\ row.id # None
    /\ payment[l].status # "none" => row.id = payment[l].id
    /\ row.status \in {"HELD", "RELEASED", "RELEASE_FAILED"} => paid[l]
    /\ row.asaasTransferId # None => row.asaasTransferId \in transfers[l]
    /\ row.status = "RELEASED" => row.asaasTransferId # None
    /\ row.status = "REFUNDED" => refunds[l] # {}

LEMMA PaymentRows ==
    ASSUME IndInv, NEW l \in Lessons, NEW row \in PaymentRow, RowAgrees(l, row), charge[l],
           payment' = [payment EXCEPT ![l] = row],
           UNCHANGED <<lesson, asaasVars>>, req' \in [Requests -> Slot]
    PROVE  RowsOK
<1>1. payment'[l] = row /\ \A x \in Lessons : x # l => payment'[x] = payment[x]
  BY DEF IndInv, TypeOK
<1>2. TypeOK'
  BY DEF IndInv, TypeOK, AsaasTypeOK, asaasVars
<1>3. ASSUME NEW x \in Lessons PROVE MoneyInv(x)'
  <2>1. CASE x = l
    BY <1>1, <2>1 DEF IndInv, MoneyInv, RowAgrees, asaasVars
  <2>2. CASE x # l
    BY <1>1, <2>2 DEF IndInv, MoneyInv, asaasVars
  <2> QED BY <2>1, <2>2
<1>4. Grows
  BY <1>1 DEF Grows, RowAgrees, asaasVars
<1> QED BY <1>2, <1>3, <1>4 DEF RowsOK

(***************************************************************************)
(* charge                                                                  *)
(***************************************************************************)
LEMMA ChargeFindStep ==
    ASSUME IndInv, NEW r \in Requests, ChargeFind(r) PROVE StepOK(r)
<1> TypeOK /\ SlotInv(r) BY DEF IndInv
<1>1. CASE Finish(r)
  BY <1>1, FinishInv, ReadOnly DEF ChargeFind, StepOK
<1>2. CASE Goto(r, "accept.save") /\ payment[req[r].lesson].status # "none"
  <2>1. req'[r] = [req[r] EXCEPT !.pc = "accept.save"] /\ Others(r) /\ req' \in [Requests -> Slot]
    BY <1>2, GotoSlot DEF Pc, LessonPc
  <2>2. SlotInv(r)'
    BY <1>2, <2>1 DEF ChargeFind, At, SlotInv, TypeOK, Slot, RetryPc, ResolvePc, asaasVars
  <2> QED BY <2>1, <2>2, ReadOnly DEF ChargeFind, StepOK
<1>3. CASE Goto(r, "charge.call")
  <2>1. req'[r] = [req[r] EXCEPT !.pc = "charge.call"] /\ Others(r) /\ req' \in [Requests -> Slot]
    BY <1>3, GotoSlot DEF Pc, ChargePc
  <2>2. SlotInv(r)'
    BY <2>1 DEF ChargeFind, At, SlotInv, TypeOK, Slot, RetryPc, ResolvePc, asaasVars
  <2> QED BY <2>1, <2>2, ReadOnly DEF ChargeFind, StepOK
<1> QED BY <1>1, <1>2, <1>3 DEF ChargeFind

\* The provider takes the charge: only charge changes.
LEMMA ChargeRows ==
    ASSUME IndInv, NEW l \in Lessons, Charge_Accept(l), UNCHANGED <<lesson, payment>>,
           req' \in [Requests -> Slot]
    PROVE  RowsOK /\ charge'[l]
<1>1. charge' \in [Lessons -> BOOLEAN] /\ charge'[l] /\ \A x \in Lessons : charge[x] => charge'[x]
  BY DEF IndInv, TypeOK, AsaasTypeOK, Charge_Accept
<1>2. TypeOK'
  BY <1>1 DEF IndInv, TypeOK, AsaasTypeOK, Charge_Accept
<1>3. \A x \in Lessons : MoneyInv(x)'
  BY <1>1 DEF IndInv, MoneyInv, Charge_Accept
<1>4. Grows
  BY <1>1 DEF Grows, Charge_Accept
<1> QED BY <1>1, <1>2, <1>3, <1>4 DEF RowsOK

LEMMA ChargeCallStep ==
    ASSUME IndInv, NEW r \in Requests, ChargeCall(r) PROVE StepOK(r)
<1> TypeOK /\ SlotInv(r) BY DEF IndInv
<1> PICK l \in Lessons : l = req[r].lesson
  BY DEF SlotInv, ChargeCall, At
<1>1. CASE Finish(r) /\ UNCHANGED asaasVars
  BY <1>1, FinishInv, ReadOnly DEF ChargeCall, StepOK
<1>2. CASE Finish(r) /\ Charge_Accept(l)
  BY <1>2, FinishInv, ChargeRows DEF ChargeCall, StepOK
<1>3. CASE Goto(r, "charge.create") /\ Charge_Accept(l)
  <2>1. req'[r] = [req[r] EXCEPT !.pc = "charge.create"] /\ Others(r) /\ req' \in [Requests -> Slot]
    BY <1>3, GotoSlot DEF Pc, ChargePc
  <2>2. RowsOK /\ charge'[l]
    BY <1>3, <2>1, ChargeRows DEF ChargeCall
  <2>3. SlotInv(r)'
    BY <1>3, <2>1, <2>2 DEF ChargeCall, At, Charge_Accept, SlotInv, TypeOK, Slot, RetryPc, ResolvePc
  <2> QED BY <2>1, <2>2, <2>3 DEF StepOK
<1> QED BY <1>1, <1>2, <1>3 DEF ChargeCall

LEMMA ChargeCreateStep ==
    ASSUME IndInv, NEW r \in Requests, ChargeCreate(r) PROVE StepOK(r)
<1> TypeOK /\ SlotInv(r) BY DEF IndInv
<1> PICK l \in Lessons : l = req[r].lesson
  BY DEF SlotInv, ChargeCreate, At
<1>c. charge[l]
  BY DEF SlotInv, ChargeCreate, At
<1>1. CASE Finish(r) /\ UNCHANGED payment
  BY <1>1, FinishInv, ReadOnly DEF ChargeCreate, StepOK
<1>2. CASE /\ payment[l].status = "none"
           /\ payment' = [payment EXCEPT ![l] = Row("PENDING", r)]
           /\ Goto(r, "accept.save")
  <2> DEFINE row == Row("PENDING", r)
  <2>1. req'[r] = [req[r] EXCEPT !.pc = "accept.save"] /\ Others(r) /\ req' \in [Requests -> Slot]
    BY <1>2, GotoSlot DEF Pc, LessonPc
  <2>2. row = [status |-> "PENDING", id |-> r, releaseAttempts |-> 0, asaasTransferId |-> None]
    BY DEF Row
  <2>3. row \in PaymentRow
    BY <2>2, MaxAttemptsAssumption DEF PaymentRow, PaymentStatus
  <2>4. RowAgrees(l, row)
    BY <1>2, <2>2, NoneAssumption DEF RowAgrees
  <2>5. RowsOK
    BY <1>2, <1>c, <2>1, <2>3, <2>4, PaymentRows DEF ChargeCreate
  <2>6. payment'[l].status # "none"
    BY <1>2, <2>2 DEF TypeOK
  <2>7. SlotInv(r)'
    BY <1>2, <2>1, <2>6 DEF ChargeCreate, At, SlotInv, TypeOK, Slot, RetryPc, ResolvePc
  <2> QED BY <2>1, <2>5, <2>7 DEF StepOK
<1> QED BY <1>1, <1>2 DEF ChargeCreate

(***************************************************************************)
(* releaseEscrow                                                           *)
(***************************************************************************)
\* An actor with payment and money in view: the cron goes on, anybody else ends.
LEMMA ReleaseEnds ==
    ASSUME IndInv, RowsOK, NEW r \in Requests, NEW l \in Lessons, l = req[r].lesson,
           req[r].pc \notin {"idle", "stale.save", "retry.next"},
           ReleaseReturns(r) \/ ReleaseThrows(r)
    PROVE  SlotInv(r)' /\ Others(r)
<1> TypeOK /\ SlotInv(r) BY DEF IndInv
<1>1. CASE Finish(r)
  BY <1>1, FinishInv
<1>2. CASE req[r].caller = "retry" /\ \E pc \in {"retry.next", "retry.fail"} : Goto(r, pc)
  <2> PICK pc \in {"retry.next", "retry.fail"} : Goto(r, pc)
    BY <1>2
  <2>1. req'[r] = [req[r] EXCEPT !.pc = pc] /\ Others(r)
    BY GotoSlot DEF Pc, RetryPc
  <2>2. /\ req'[r].pc = pc /\ req'[r].lesson = l /\ req'[r].caller = "retry"
        /\ req'[r].todo = req[r].todo
    BY <1>2, <2>1 DEF TypeOK, Slot
  <2>3. req[r].todo \subseteq Lessons
    BY DEF TypeOK, Slot
  <2>4. SlotInv(r)'
    BY <1>2, <2>2, <2>3 DEF SlotInv, RowsOK, Grows, RetryPc, ResolvePc
  <2> QED BY <2>1, <2>4
<1> QED BY <1>1, <1>2 DEF ReleaseReturns, ReleaseThrows

LEMMA ReleaseEndsTyped ==
    ASSUME TypeOK, NEW r \in Requests, ReleaseReturns(r) \/ ReleaseThrows(r)
    PROVE  req' \in [Requests -> Slot]
BY FinishSlot, GotoSlot DEF ReleaseReturns, ReleaseThrows, Pc, RetryPc

LEMMA ReleaseFindStep ==
    ASSUME IndInv, NEW r \in Requests, ReleaseFind(r) PROVE StepOK(r)
<1> TypeOK /\ SlotInv(r) BY DEF IndInv
<1> PICK l \in Lessons : l = req[r].lesson
  BY DEF SlotInv, ReleaseFind, At
<1>1. CASE ReleaseReturns(r) \/ ReleaseThrows(r)
  <2>1. RowsOK
    BY <1>1, ReleaseEndsTyped, ReadOnly DEF ReleaseFind
  <2> QED BY <1>1, <2>1, ReleaseEnds DEF ReleaseFind, At, StepOK
<1>2. CASE payment[l].status = "HELD" /\ Goto(r, "release.lesson")
  <2>1. req'[r] = [req[r] EXCEPT !.pc = "release.lesson"] /\ Others(r) /\ req' \in [Requests -> Slot]
    BY <1>2, GotoSlot DEF Pc, ReleasePc
  <2>2. paid[l]
    BY <1>2 DEF IndInv, MoneyInv
  <2>3. SlotInv(r)'
    BY <1>2, <2>1, <2>2 DEF ReleaseFind, At, SlotInv, TypeOK, Slot, RetryPc, ResolvePc, asaasVars
  <2> QED BY <2>1, <2>3, ReadOnly DEF ReleaseFind, StepOK
<1> QED BY <1>1, <1>2 DEF ReleaseFind

LEMMA ReleaseCheckStep ==
    ASSUME IndInv, NEW r \in Requests, ReleaseCheck(r) PROVE StepOK(r)
<1> TypeOK /\ SlotInv(r) BY DEF IndInv
<1> PICK l \in Lessons : l = req[r].lesson
  BY DEF SlotInv, ReleaseCheck, At
<1>1. CASE ReleaseThrows(r)
  <2>1. RowsOK
    BY <1>1, ReleaseEndsTyped, ReadOnly DEF ReleaseCheck
  <2> QED BY <1>1, <2>1, ReleaseEnds DEF ReleaseCheck, At, StepOK
<1>2. CASE Compliant(l) /\ Goto(r, "release.transfer")
  <2>1. req'[r] = [req[r] EXCEPT !.pc = "release.transfer"] /\ Others(r) /\ req' \in [Requests -> Slot]
    BY <1>2, GotoSlot DEF Pc, ReleasePc
  <2>2. lesson[l].checkedIn /\ l \notin Disputed
    BY <1>2 DEF Compliant, IndInv, MoneyInv
  <2>3. SlotInv(r)'
    BY <1>2, <2>1, <2>2 DEF ReleaseCheck, At, SlotInv, TypeOK, Slot, RetryPc, ResolvePc, asaasVars
  <2> QED BY <2>1, <2>3, ReadOnly DEF ReleaseCheck, StepOK
<1> QED BY <1>1, <1>2 DEF ReleaseCheck

\* The provider takes the transfer of a paid, evidenced lesson under its row's id.
LEMMA TransferRows ==
    ASSUME IndInv, NEW l \in Lessons, Transfer_Accept(l, payment[l].id),
           UNCHANGED <<lesson, payment>>, req' \in [Requests -> Slot],
           payment[l].status # "none", paid[l], lesson[l].checkedIn, l \notin Disputed
    PROVE  RowsOK /\ payment[l].id \in transfers'[l]
<1>1. /\ payment[l].id \in Requests
      /\ transfers' = [transfers EXCEPT ![l] = @ \cup {payment[l].id}]
  BY DEF IndInv, MoneyInv, TypeOK, PaymentRow, Transfer_Accept
<1>2. /\ transfers'[l] = transfers[l] \cup {payment[l].id}
      /\ \A x \in Lessons : x # l => transfers'[x] = transfers[x]
  BY <1>1 DEF IndInv, TypeOK, AsaasTypeOK
<1>3. transfers' \in [Lessons -> SUBSET Requests]
  BY <1>1 DEF IndInv, TypeOK, AsaasTypeOK
<1>4. TypeOK'
  BY <1>3 DEF IndInv, TypeOK, AsaasTypeOK, Transfer_Accept
<1>5. ASSUME NEW x \in Lessons PROVE MoneyInv(x)'
  <2>1. CASE x = l BY <1>2, <2>1 DEF IndInv, MoneyInv, Transfer_Accept
  <2>2. CASE x # l BY <1>2, <2>2 DEF IndInv, MoneyInv, Transfer_Accept
  <2> QED BY <2>1, <2>2
<1>6. Grows
  BY <1>2 DEF Grows, Transfer_Accept
<1> QED BY <1>2, <1>4, <1>5, <1>6 DEF RowsOK

LEMMA ReleaseTransferStep ==
    ASSUME IndInv, NEW r \in Requests, ReleaseTransfer(r) PROVE StepOK(r)
<1> TypeOK /\ SlotInv(r) BY DEF IndInv
<1> PICK l \in Lessons : l = req[r].lesson
  BY DEF SlotInv, ReleaseTransfer, At
<1>l. payment[l].status # "none" /\ paid[l] /\ lesson[l].checkedIn /\ l \notin Disputed
  BY DEF SlotInv, ReleaseTransfer, At
<1>1. CASE ReleaseThrows(r) /\ UNCHANGED asaasVars
  <2>1. RowsOK
    BY <1>1, ReleaseEndsTyped, ReadOnly DEF ReleaseTransfer
  <2> QED BY <1>1, <2>1, ReleaseEnds DEF ReleaseTransfer, At, StepOK
<1>2. CASE Transfer_Accept(l, payment[l].id) /\ ReleaseThrows(r)
  <2>1. RowsOK
    BY <1>2, <1>l, ReleaseEndsTyped, TransferRows DEF ReleaseTransfer
  <2> QED BY <1>2, <2>1, ReleaseEnds DEF ReleaseTransfer, At, StepOK
<1>3. CASE Transfer_Accept(l, payment[l].id) /\ Goto(r, "release.save")
  <2>1. req'[r] = [req[r] EXCEPT !.pc = "release.save"] /\ Others(r) /\ req' \in [Requests -> Slot]
    BY <1>3, GotoSlot DEF Pc, ReleasePc
  <2>2. RowsOK /\ payment[l].id \in transfers'[l]
    BY <1>3, <1>l, <2>1, TransferRows DEF ReleaseTransfer
  <2>3. SlotInv(r)'
    BY <1>3, <1>l, <2>1, <2>2 DEF ReleaseTransfer, Transfer_Accept, At, SlotInv, TypeOK, Slot, RetryPc, ResolvePc
  <2> QED BY <2>1, <2>2, <2>3 DEF StepOK
<1> QED BY <1>1, <1>2, <1>3 DEF ReleaseTransfer

LEMMA ReleaseSaveStep ==
    ASSUME IndInv, NEW r \in Requests, ReleaseSave(r) PROVE StepOK(r)
<1> TypeOK /\ SlotInv(r) BY DEF IndInv
<1> PICK l \in Lessons : l = req[r].lesson
  BY DEF SlotInv, ReleaseSave, At
<1> DEFINE row == [payment[l] EXCEPT !.status = "RELEASED", !.asaasTransferId = payment[l].id]
<1>1. payment[l] \in PaymentRow /\ payment[l].status # "none" /\ paid[l] /\ payment[l].id \in transfers[l]
  BY DEF SlotInv, ReleaseSave, At, TypeOK
<1>2. payment[l].id # None /\ charge[l]
  BY <1>1 DEF IndInv, MoneyInv
<1>3. row \in PaymentRow
  BY <1>1 DEF PaymentRow, PaymentStatus
<1>4. RowAgrees(l, row)
  BY <1>1, <1>2 DEF RowAgrees, PaymentRow
<1>5. payment' = [payment EXCEPT ![l] = row]
  BY DEF ReleaseSave
<1>6. RowsOK
  BY <1>2, <1>3, <1>4, <1>5, ReleaseEndsTyped, PaymentRows DEF ReleaseSave
<1> QED BY <1>6, ReleaseEnds DEF ReleaseSave, At, StepOK

(***************************************************************************)
(* resolveDispute                                                          *)
(***************************************************************************)
\* A new request remembers its lesson and nothing it has read.
LEMMA BeginInv ==
    ASSUME TypeOK, NEW r \in Requests, NEW l \in Lessons,
           NEW pc \in {"charge.find", "reject.save", "cancel.save", "cancel.payment",
                       "release.find", "refund.find"},
           NEW caller \in {"none", "accept", "cancel", "admin"}, Begin(r, pc, caller, l)
    PROVE  SlotInv(r)' /\ Others(r) /\ req' \in [Requests -> Slot]
<1>0. pc \in Pc /\ caller \in Caller
  BY DEF Pc, Caller, ChargePc, ReleasePc, RefundPc, LessonPc
<1>1. /\ req' \in [Requests -> Slot] /\ Others(r)
      /\ req'[r].pc = pc /\ req'[r].caller = caller /\ req'[r].lesson = l
      /\ req'[r].todo = {}
  BY <1>0, BeginSlot
<1>2. SlotInv(r)'
  BY <1>1 DEF SlotInv, Idle, RetryPc, ResolvePc
<1> QED BY <1>1, <1>2

\* Steps of a request that add nothing to what it relies on.
LEMMA MoveInv ==
    ASSUME IndInv, RowsOK, NEW r \in Requests,
           req[r].pc \notin {"idle", "stale.save", "retry.next"},
           NEW pc \in {"refund.find", "cancel.save", "release.find"}, Goto(r, pc)
    PROVE  SlotInv(r)' /\ Others(r)
<1> TypeOK /\ SlotInv(r) BY DEF IndInv
<1>1. req'[r] = [req[r] EXCEPT !.pc = pc] /\ Others(r)
  BY GotoSlot DEF Pc, ReleasePc, RefundPc, LessonPc
<1>2. /\ req'[r].pc = pc /\ req'[r].lesson = req[r].lesson
      /\ req'[r].caller = req[r].caller /\ req'[r].todo = req[r].todo
  BY <1>1 DEF TypeOK, Slot
<1>3. req[r].todo \subseteq Lessons
  BY DEF TypeOK, Slot
<1>4. SlotInv(r)'
  BY <1>2, <1>3 DEF SlotInv, RowsOK, Grows, RetryPc, ResolvePc
<1> QED BY <1>1, <1>4

LEMMA RefundEnds ==
    ASSUME IndInv, RowsOK, NEW r \in Requests,
           req[r].pc \notin {"idle", "stale.save", "retry.next"}, RefundReturns(r)
    PROVE  SlotInv(r)' /\ Others(r)
<1> TypeOK BY DEF IndInv
<1> QED BY FinishInv, MoveInv DEF RefundReturns

LEMMA RefundEndsTyped ==
    ASSUME TypeOK, NEW r \in Requests, RefundReturns(r)
    PROVE  req' \in [Requests -> Slot]
BY FinishSlot, GotoSlot DEF RefundReturns, Pc, LessonPc

LEMMA ResolveDisputeStep ==
    ASSUME IndInv, NEW r \in Requests, NEW l \in Lessons, NEW action \in {"release", "refund"},
           ResolveDispute(r, l, action)
    PROVE  StepOK(r)
<1> TypeOK BY DEF IndInv
<1> QED BY BeginInv, ReadOnly DEF ResolveDispute, StepOK

LEMMA RefundFindStep ==
    ASSUME IndInv, NEW r \in Requests, RefundFind(r) PROVE StepOK(r)
<1> TypeOK /\ SlotInv(r) BY DEF IndInv
<1>1. CASE RefundReturns(r)
  <2>1. RowsOK BY <1>1, RefundEndsTyped, ReadOnly DEF RefundFind
  <2> QED BY <1>1, <2>1, RefundEnds DEF RefundFind, At, StepOK
<1>2. CASE payment[req[r].lesson].status # "none" /\ Goto(r, "refund.call")
  <2>1. req'[r] = [req[r] EXCEPT !.pc = "refund.call"] /\ Others(r) /\ req' \in [Requests -> Slot]
    BY <1>2, GotoSlot DEF Pc, RefundPc
  <2>2. SlotInv(r)'
    BY <1>2, <2>1 DEF RefundFind, At, SlotInv, TypeOK, Slot, RetryPc, ResolvePc, asaasVars
  <2> QED BY <2>1, <2>2, ReadOnly DEF RefundFind, StepOK
<1> QED BY <1>1, <1>2 DEF RefundFind

\* The provider takes a refund of a charged lesson: only refunds changes.
LEMMA RefundRows ==
    ASSUME IndInv, NEW l \in Lessons, NEW key \in RefundKeys, Refund_Accept(l, key),
           UNCHANGED <<lesson, payment>>, req' \in [Requests -> Slot]
    PROVE  RowsOK /\ refunds'[l] # {}
<1>1. /\ refunds'[l] = refunds[l] \cup {key}
      /\ \A x \in Lessons : x # l => refunds'[x] = refunds[x]
      /\ refunds' \in [Lessons -> SUBSET RefundKeys]
  BY DEF IndInv, TypeOK, AsaasTypeOK, Refund_Accept
<1>2. TypeOK'
  BY <1>1 DEF IndInv, TypeOK, AsaasTypeOK, Refund_Accept
<1>3. ASSUME NEW x \in Lessons PROVE MoneyInv(x)'
  <2>1. CASE x = l BY <1>1, <2>1 DEF IndInv, MoneyInv, Refund_Accept
  <2>2. CASE x # l BY <1>1, <2>2 DEF IndInv, MoneyInv, Refund_Accept
  <2> QED BY <2>1, <2>2
<1>4. Grows
  BY <1>1 DEF Grows, Refund_Accept
<1> QED BY <1>1, <1>2, <1>3, <1>4 DEF RowsOK

LEMMA RefundCallStep ==
    ASSUME IndInv, NEW r \in Requests, RefundCall(r) PROVE StepOK(r)
<1> TypeOK /\ SlotInv(r) BY DEF IndInv
<1> PICK l \in Lessons : l = req[r].lesson
  BY DEF SlotInv, RefundCall, At
<1>1. CASE RefundReturns(r) /\ UNCHANGED asaasVars
  <2>1. RowsOK BY <1>1, RefundEndsTyped, ReadOnly DEF RefundCall
  <2> QED BY <1>1, <2>1, RefundEnds DEF RefundCall, At, StepOK
<1>2. CASE Refund_Accept(l, "refund") /\ RefundReturns(r)
  <2>1. RowsOK BY <1>2, RefundEndsTyped, RefundRows DEF RefundCall, RefundKeys
  <2> QED BY <1>2, <2>1, RefundEnds DEF RefundCall, At, StepOK
<1>3. CASE Refund_Accept(l, "refund") /\ Goto(r, "refund.save")
  <2>1. req'[r] = [req[r] EXCEPT !.pc = "refund.save"] /\ Others(r) /\ req' \in [Requests -> Slot]
    BY <1>3, GotoSlot DEF Pc, RefundPc
  <2>2. RowsOK /\ refunds'[l] # {}
    BY <1>3, <2>1, RefundRows DEF RefundCall, RefundKeys
  <2>3. /\ payment'[l].status # "none"
        /\ req[r].caller = "retry" => /\ payment'[l].status # "none" /\ paid'[l]
                                      /\ \A x \in req[r].todo : payment'[x].status # "none" /\ paid'[x]
    BY <1>3 DEF RefundCall, Refund_Accept, At, SlotInv
  <2>4. /\ req'[r].pc = "refund.save" /\ req'[r].lesson = l
        /\ req'[r].caller = req[r].caller /\ req'[r].todo = req[r].todo
    BY <2>1 DEF TypeOK, Slot
  <2>5. SlotInv(r)'
    BY <2>2, <2>3, <2>4 DEF SlotInv, RetryPc, ResolvePc
  <2> QED BY <2>1, <2>2, <2>5 DEF StepOK
<1> QED BY <1>1, <1>2, <1>3 DEF RefundCall

\* A new status for an existing row, supported by what the provider has done.
LEMMA StatusRows ==
    ASSUME IndInv, NEW l \in Lessons, NEW status \in {"HELD", "RELEASED", "FAILED", "REFUNDED"},
           payment[l].status # "none",
           status \in {"HELD", "RELEASED"} => paid[l],
           status = "RELEASED" => payment[l].asaasTransferId # None,
           status = "REFUNDED" => refunds[l] # {},
           SetStatus(l, status), UNCHANGED <<lesson, asaasVars>>, req' \in [Requests -> Slot]
    PROVE  RowsOK
<1> DEFINE row == [payment[l] EXCEPT !.status = status]
<1>1. payment[l] \in PaymentRow
  BY DEF IndInv, TypeOK
<1>2. row \in PaymentRow
  BY <1>1 DEF PaymentRow, PaymentStatus
<1>3. RowAgrees(l, row) /\ charge[l]
  BY <1>1 DEF IndInv, MoneyInv, RowAgrees, PaymentRow
<1>4. payment' = [payment EXCEPT ![l] = row]
  BY DEF SetStatus
<1> QED BY <1>2, <1>3, <1>4, PaymentRows

LEMMA RefundSaveStep ==
    ASSUME IndInv, NEW r \in Requests, RefundSave(r) PROVE StepOK(r)
<1> TypeOK /\ SlotInv(r) BY DEF IndInv
<1> PICK l \in Lessons : l = req[r].lesson
  BY DEF SlotInv, RefundSave, At
<1>1. payment[l].status # "none" /\ refunds[l] # {}
  BY DEF SlotInv, RefundSave, At
<1>2. RowsOK
  BY <1>1, StatusRows, RefundEndsTyped DEF RefundSave
<1> QED BY <1>2, RefundEnds DEF RefundSave, At, StepOK

(***************************************************************************)
(* resolveReleaseFailed                                                    *)
(***************************************************************************)
LEMMA ResolveReleaseFailedStep ==
    ASSUME IndInv, NEW r \in Requests, NEW l \in Lessons, NEW action \in {"retry", "refund"},
           ResolveReleaseFailed(r, l, action)
    PROVE  StepOK(r)
<1> TypeOK BY DEF IndInv
<1> PICK pc \in {"resolve.retry", "resolve.refund"} : Begin(r, pc, "admin", l)
  BY DEF ResolveReleaseFailed
<1>0. pc \in Pc /\ "admin" \in Caller
  BY DEF Pc, Caller, ResolvePc
<1>1. /\ req' \in [Requests -> Slot] /\ Others(r)
      /\ req'[r].pc = pc /\ req'[r].caller = "admin" /\ req'[r].lesson = l
      /\ req'[r].todo = {}
  BY <1>0, BeginSlot
<1>2. RowsOK
  BY <1>1, ReadOnly DEF ResolveReleaseFailed
<1>3. payment[l].status # "none" /\ paid[l]
  BY DEF ResolveReleaseFailed, IndInv, MoneyInv
<1>4. payment'[l].status # "none" /\ paid'[l]
  BY <1>3, <1>2 DEF RowsOK, Grows
<1>5. SlotInv(r)'
  BY <1>1, <1>4 DEF SlotInv, Idle, RetryPc, ResolvePc
<1> QED BY <1>1, <1>2, <1>5 DEF StepOK

LEMMA ResolveRetryStep ==
    ASSUME IndInv, NEW r \in Requests, ResolveRetry(r) PROVE StepOK(r)
<1> TypeOK /\ SlotInv(r) BY DEF IndInv
<1> PICK l \in Lessons : l = req[r].lesson
  BY DEF SlotInv, ResolveRetry, At
<1> DEFINE row == [payment[l] EXCEPT !.status = "HELD", !.releaseAttempts = 0]
<1>1. payment[l] \in PaymentRow /\ payment[l].status # "none" /\ paid[l]
  BY DEF SlotInv, ResolveRetry, At, TypeOK, ResolvePc
<1>0. 0 \in 0..MaxAttempts
  BY MaxAttemptsAssumption
<1>2. row \in PaymentRow
  BY <1>0, <1>1 DEF PaymentRow, PaymentStatus
<1>3. RowAgrees(l, row) /\ charge[l]
  BY <1>1 DEF IndInv, MoneyInv, RowAgrees, PaymentRow
<1>4. payment' = [payment EXCEPT ![l] = row]
  BY DEF ResolveRetry
<1> QED BY <1>2, <1>3, <1>4, FinishInv, PaymentRows DEF ResolveRetry, StepOK

LEMMA ResolveRefundStep ==
    ASSUME IndInv, NEW r \in Requests, ResolveRefund(r) PROVE StepOK(r)
<1> TypeOK /\ SlotInv(r) BY DEF IndInv
<1> PICK l \in Lessons : l = req[r].lesson
  BY DEF SlotInv, ResolveRefund, At
<1>1. CASE Finish(r) /\ UNCHANGED asaasVars
  BY <1>1, FinishInv, ReadOnly DEF ResolveRefund, StepOK
<1>2. CASE Refund_Accept(l, "refund-release-failed") /\ Finish(r)
  BY <1>2, FinishInv, RefundRows DEF ResolveRefund, RefundKeys, StepOK
<1>3. CASE Refund_Accept(l, "refund-release-failed") /\ Goto(r, "resolve.save")
  <2>1. req'[r] = [req[r] EXCEPT !.pc = "resolve.save"] /\ Others(r) /\ req' \in [Requests -> Slot]
    BY <1>3, GotoSlot DEF Pc, ResolvePc
  <2>2. RowsOK /\ refunds'[l] # {}
    BY <1>3, <2>1, RefundRows DEF ResolveRefund, RefundKeys
  <2>3. SlotInv(r)'
    BY <1>3, <2>1, <2>2 DEF ResolveRefund, Refund_Accept, At, SlotInv, TypeOK, Slot, RetryPc, ResolvePc
  <2> QED BY <2>1, <2>2, <2>3 DEF StepOK
<1> QED BY <1>1, <1>2, <1>3 DEF ResolveRefund

LEMMA ResolveSaveStep ==
    ASSUME IndInv, NEW r \in Requests, ResolveSave(r) PROVE StepOK(r)
<1> TypeOK /\ SlotInv(r) BY DEF IndInv
<1> PICK l \in Lessons : l = req[r].lesson
  BY DEF SlotInv, ResolveSave, At
<1>1. payment[l].status # "none" /\ refunds[l] # {}
  BY DEF SlotInv, ResolveSave, At, ResolvePc
<1> QED BY <1>1, StatusRows, FinishInv DEF ResolveSave, StepOK

(***************************************************************************)
(* retryPendingReleases                                                    *)
(***************************************************************************)
LEMMA RetryStartStep ==
    ASSUME IndInv, NEW r \in Requests, RetryStart(r) PROVE StepOK(r)
<1> TypeOK BY DEF IndInv
<1> DEFINE attempts == [l \in Lessons |->
                          IF Retriable(l) THEN payment[l].releaseAttempts ELSE 0]
           slot == [Idle EXCEPT !.pc = "retry.next", !.caller = "retry",
                                !.todo = {l \in Lessons : Retriable(l)}, !.attempts = attempts]
<1>1. attempts \in [Lessons -> 0..MaxAttempts - 1]
  <2>1. ASSUME NEW l \in Lessons, Retriable(l)
        PROVE  payment[l].releaseAttempts \in 0..MaxAttempts - 1
    BY <2>1, MaxAttemptsAssumption DEF Retriable, TypeOK, PaymentRow
  <2>2. 0 \in 0..MaxAttempts - 1
    BY MaxAttemptsAssumption
  <2> QED BY <2>1, <2>2
<1>2. slot \in Slot
  BY <1>1, IdleIsSlot DEF Idle, Slot, Pc, RetryPc, Caller
<1>3. req' \in [Requests -> Slot] /\ req'[r] = slot /\ Others(r)
  BY <1>2 DEF RetryStart, TypeOK, Others
<1>4. RowsOK
  BY <1>3, ReadOnly DEF RetryStart
<1>5. \A l \in Lessons : Retriable(l) => payment[l].status # "none" /\ paid[l]
  BY DEF Retriable, IndInv, MoneyInv
<1>6. slot.pc = "retry.next" /\ slot.caller = "retry" /\ slot.todo = {l \in Lessons : Retriable(l)}
  BY DEF Idle
<1>7. SlotInv(r)'
  BY <1>3, <1>4, <1>5, <1>6 DEF SlotInv, RowsOK, Grows, RetryPc, ResolvePc
<1> QED BY <1>3, <1>4, <1>7 DEF StepOK

LEMMA RetryNextStep ==
    ASSUME IndInv, NEW r \in Requests, RetryNext(r) PROVE StepOK(r)
<1> TypeOK /\ SlotInv(r) BY DEF IndInv
<1>1. CASE Finish(r)
  BY <1>1, FinishInv, ReadOnly DEF RetryNext, StepOK
<1>2. ASSUME NEW l \in req[r].todo,
             req' = [req EXCEPT ![r] = [@ EXCEPT !.pc = "release.find", !.lesson = l,
                                                 !.todo = req[r].todo \ {l}]]
      PROVE  StepOK(r)
  <2> DEFINE slot == [req[r] EXCEPT !.pc = "release.find", !.lesson = l, !.todo = req[r].todo \ {l}]
  <2>1. req[r] \in Slot /\ l \in Lessons
    BY DEF TypeOK, Slot
  <2>2. slot \in Slot
    BY <2>1 DEF Slot, Pc, ReleasePc
  <2>3. req' \in [Requests -> Slot] /\ req'[r] = slot /\ Others(r)
    BY <1>2, <2>2 DEF TypeOK, Others
  <2>4. RowsOK
    BY <2>3, ReadOnly DEF RetryNext
  <2>5. /\ slot.pc = "release.find" /\ slot.lesson = l /\ slot.todo = req[r].todo \ {l}
        /\ slot.caller = "retry"
    BY <2>1 DEF RetryNext, At, SlotInv, RetryPc, Slot
  <2>6. \A x \in req[r].todo : x \in Lessons /\ payment[x].status # "none" /\ paid[x]
    BY <2>1 DEF RetryNext, At, SlotInv, RetryPc, Slot
  <2>7. SlotInv(r)'
    BY <2>1, <2>3, <2>4, <2>5, <2>6 DEF SlotInv, RowsOK, Grows, RetryPc, ResolvePc
  <2> QED BY <2>3, <2>4, <2>7 DEF StepOK
<1> QED BY <1>1, <1>2 DEF RetryNext

LEMMA RetryFailStep ==
    ASSUME IndInv, NEW r \in Requests, RetryFail(r) PROVE StepOK(r)
<1> TypeOK /\ SlotInv(r) BY DEF IndInv
<1> PICK l \in Lessons : l = req[r].lesson
  BY DEF SlotInv, RetryFail, At
<1> DEFINE attempts == req[r].attempts[l] + 1
           row == [payment[l] EXCEPT !.releaseAttempts = attempts,
                       !.status = IF attempts >= MaxAttempts THEN "RELEASE_FAILED"
                                                          ELSE payment[l].status]
<1>1. payment[l] \in PaymentRow /\ payment[l].status # "none" /\ paid[l]
  BY DEF SlotInv, RetryFail, At, TypeOK
<1>2. attempts \in 0..MaxAttempts
  <2>1. req[r].attempts \in [Lessons -> 0..MaxAttempts - 1]
    BY DEF TypeOK, Slot
  <2>2. req[r].attempts[l] \in 0..MaxAttempts - 1
    BY <2>1
  <2> QED BY <2>2, MaxAttemptsAssumption
<1> HIDE DEF attempts
<1>3. row \in PaymentRow
  BY <1>1, <1>2 DEF PaymentRow, PaymentStatus
<1>4. RowAgrees(l, row) /\ charge[l]
  BY <1>1 DEF IndInv, MoneyInv, RowAgrees, PaymentRow
<1>5. payment' = [payment EXCEPT ![l] = row]
  BY DEF RetryFail, attempts
<1>6. req'[r] = [req[r] EXCEPT !.pc = "retry.next"] /\ Others(r) /\ req' \in [Requests -> Slot]
  BY GotoSlot DEF RetryFail, Pc, RetryPc
<1>7. RowsOK
  BY <1>3, <1>4, <1>5, <1>6, PaymentRows DEF RetryFail
<1>8. ReleaseReturns(r)
  BY DEF RetryFail, ReleaseReturns, SlotInv, At, RetryPc
<1> QED BY <1>7, <1>8, ReleaseEnds DEF RetryFail, At, StepOK

(***************************************************************************)
(* Webhooks: no slot acts.                                                 *)
(***************************************************************************)
LEMMA SlotsKeep ==
    ASSUME IndInv, RowsOK, UNCHANGED req
    PROVE  IndInv'
<1>1. \A q \in Requests : SlotInv(q)'
  BY SlotKeeps DEF RowsOK, IndInv
<1> QED BY <1>1 DEF RowsOK, IndInv

LEMMA StatusAt ==
    ASSUME TypeOK, NEW l \in Lessons, NEW status \in PaymentStatus, SetStatus(l, status)
    PROVE  /\ payment' \in [Lessons -> PaymentRow]
           /\ payment'[l].status = status
           /\ payment'[l].id = payment[l].id
           /\ payment'[l].asaasTransferId = payment[l].asaasTransferId
           /\ \A x \in Lessons : x # l => payment'[x] = payment[x]
<1> DEFINE row == [payment[l] EXCEPT !.status = status]
<1>1. payment[l] \in PaymentRow
  BY DEF TypeOK
<1>2. /\ row \in PaymentRow /\ row.status = status /\ row.id = payment[l].id
      /\ row.asaasTransferId = payment[l].asaasTransferId
  BY <1>1 DEF PaymentRow, PaymentStatus
<1>3. payment' = [payment EXCEPT ![l] = row]
  BY DEF SetStatus
<1> HIDE DEF row
<1> QED BY <1>2, <1>3 DEF TypeOK

LEMMA PaymentWebhookStep ==
    ASSUME IndInv, NEW l \in Lessons, NEW event \in SUCCESS_EVENTS \cup FAILURE_EVENTS,
           PaymentWebhook(l, event)
    PROVE  IndInv'
<1> TypeOK BY DEF IndInv
<1> DEFINE status == IF event \in SUCCESS_EVENTS THEN "HELD" ELSE "FAILED"
<1>1. /\ paid' \in [Lessons -> BOOLEAN]
      /\ charge[l]
      /\ event \in SUCCESS_EVENTS => paid'[l]
      /\ \A x \in Lessons : paid[x] => paid'[x]
      /\ \A x \in Lessons : x # l => paid'[x] = paid[x]
  BY DEF PaymentWebhook, PaymentEvent_Sent, TypeOK, AsaasTypeOK
<1>2. UNCHANGED <<lesson, req, charge, transfers, outcome, refunds>>
  BY DEF PaymentWebhook, PaymentEvent_Sent
<1>3. \/ UNCHANGED payment
      \/ payment[l].status # "none" /\ SetStatus(l, status)
  BY DEF PaymentWebhook
<1>4. status \in PaymentStatus /\ (status = "HELD" \/ status = "FAILED")
  BY DEF PaymentStatus
<1>5. status = "HELD" => paid'[l]
  BY <1>1
<1> HIDE DEF status
<1>6. CASE UNCHANGED payment
  <2>1. TypeOK' BY <1>1, <1>2, <1>6 DEF TypeOK, AsaasTypeOK
  <2>2. \A x \in Lessons : MoneyInv(x)'
    BY <1>1, <1>2, <1>6 DEF IndInv, MoneyInv
  <2>3. Grows BY <1>1, <1>2, <1>6 DEF Grows
  <2> QED BY <2>1, <2>2, <2>3, <1>2, SlotsKeep DEF RowsOK
<1>7. CASE payment[l].status # "none" /\ SetStatus(l, status)
  <2>0. /\ payment' \in [Lessons -> PaymentRow]
        /\ payment'[l].status = status
        /\ payment'[l].id = payment[l].id
        /\ payment'[l].asaasTransferId = payment[l].asaasTransferId
        /\ \A x \in Lessons : x # l => payment'[x] = payment[x]
    BY <1>4, <1>7, StatusAt
  <2>1. TypeOK' BY <1>1, <1>2, <2>0 DEF TypeOK, AsaasTypeOK
  <2>2. ASSUME NEW x \in Lessons PROVE MoneyInv(x)'
    <3>1. CASE x = l
      BY <1>1, <1>2, <1>4, <1>5, <1>7, <2>0, <3>1 DEF IndInv, MoneyInv
    <3>2. CASE x # l
      BY <1>1, <1>2, <2>0, <3>2 DEF IndInv, MoneyInv
    <3> QED BY <3>1, <3>2
  <2>3. Grows BY <1>1, <1>2, <1>4, <2>0 DEF Grows
  <2> QED BY <2>1, <2>2, <2>3, <1>2, SlotsKeep DEF RowsOK
<1> QED BY <1>3, <1>6, <1>7

LEMMA TransferWebhookStep ==
    ASSUME IndInv, NEW l \in Lessons, NEW event \in TRANSFER_EVENTS, TransferWebhook(l, event)
    PROVE  IndInv'
<1> TypeOK BY DEF IndInv
<1> DEFINE status == IF event = "TRANSFER_DONE" THEN "RELEASED" ELSE "HELD"
<1>1. outcome' \in [Lessons -> {"open"} \cup TRANSFER_EVENTS]
  BY DEF TransferWebhook, TransferEvent_Sent, TypeOK, AsaasTypeOK
<1>2. UNCHANGED <<lesson, req, charge, paid, transfers, refunds>> /\ transfers[l] # {}
  BY DEF TransferWebhook, TransferEvent_Sent
<1>3. \/ UNCHANGED payment
      \/ payment[l].asaasTransferId # None /\ SetStatus(l, status)
  BY DEF TransferWebhook
<1>4. status \in PaymentStatus /\ (status = "HELD" \/ status = "RELEASED")
  BY DEF PaymentStatus
<1> HIDE DEF status
<1>6. CASE UNCHANGED payment
  <2>1. TypeOK' BY <1>1, <1>2, <1>6 DEF TypeOK, AsaasTypeOK
  <2>2. \A x \in Lessons : MoneyInv(x)'
    BY <1>2, <1>6 DEF IndInv, MoneyInv
  <2>3. Grows BY <1>2, <1>6 DEF Grows
  <2> QED BY <2>1, <2>2, <2>3, <1>2, SlotsKeep DEF RowsOK
<1>7. CASE payment[l].asaasTransferId # None /\ SetStatus(l, status)
  <2>0. /\ payment' \in [Lessons -> PaymentRow]
        /\ payment'[l].status = status
        /\ payment'[l].id = payment[l].id
        /\ payment'[l].asaasTransferId = payment[l].asaasTransferId
        /\ \A x \in Lessons : x # l => payment'[x] = payment[x]
    BY <1>4, <1>7, StatusAt
  <2>1. TypeOK' BY <1>1, <1>2, <2>0 DEF TypeOK, AsaasTypeOK
  <2>2. ASSUME NEW x \in Lessons PROVE MoneyInv(x)'
    <3>1. CASE x = l
      BY <1>2, <1>4, <1>7, <2>0, <3>1 DEF IndInv, MoneyInv
    <3>2. CASE x # l
      BY <1>2, <2>0, <3>2 DEF IndInv, MoneyInv
    <3> QED BY <3>1, <3>2
  <2>3. Grows BY <1>2, <1>4, <2>0 DEF Grows
  <2> QED BY <2>1, <2>2, <2>3, <1>2, SlotsKeep DEF RowsOK
<1> QED BY <1>3, <1>6, <1>7

(***************************************************************************)
(* LessonsService                                                          *)
(***************************************************************************)
\* Columns of lesson l are written, and its duration only if it was checked in.
LEMMA LessonAt ==
    ASSUME IndInv, NEW l \in Lessons, NEW row \in LessonRow,
           lesson[l].checkedIn => row.checkedIn, row.durationMinutes # None => row.checkedIn,
           lesson' = [lesson EXCEPT ![l] = row]
    PROVE  /\ lesson' \in [Lessons -> LessonRow]
           /\ \A x \in Lessons : /\ lesson[x].checkedIn => lesson'[x].checkedIn
                                 /\ lesson'[x].durationMinutes # None => lesson'[x].checkedIn
BY DEF IndInv, TypeOK, MoneyInv

LEMMA SetLessonAt ==
    ASSUME IndInv, NEW l \in Lessons, NEW status \in LessonStatus, SetLesson(l, status)
    PROVE  /\ lesson' \in [Lessons -> LessonRow]
           /\ \A x \in Lessons : /\ lesson[x].checkedIn => lesson'[x].checkedIn
                                 /\ lesson'[x].durationMinutes # None => lesson'[x].checkedIn
<1> DEFINE row == [lesson[l] EXCEPT !.status = status]
<1>1. lesson[l] \in LessonRow /\ (lesson[l].durationMinutes # None => lesson[l].checkedIn)
  BY DEF IndInv, TypeOK, MoneyInv
<1>2. /\ row \in LessonRow /\ (lesson[l].checkedIn => row.checkedIn)
      /\ row.durationMinutes # None => row.checkedIn
  BY <1>1 DEF LessonRow
<1>3. lesson' = [lesson EXCEPT ![l] = row]
  BY DEF SetLesson
<1> QED BY <1>2, <1>3, LessonAt

LEMMA AcceptStep ==
    ASSUME IndInv, NEW r \in Requests, NEW l \in Lessons, Accept(r, l) PROVE StepOK(r)
<1> TypeOK BY DEF IndInv
<1> QED BY BeginInv, ReadOnly DEF Accept, paymentVars, StepOK

LEMMA RejectStep ==
    ASSUME IndInv, NEW r \in Requests, NEW l \in Lessons, Reject(r, l) PROVE StepOK(r)
<1> TypeOK BY DEF IndInv
<1> QED BY BeginInv, ReadOnly DEF Reject, paymentVars, StepOK

LEMMA CancelLessonStep ==
    ASSUME IndInv, NEW r \in Requests, NEW l \in Lessons, CancelLesson(r, l) PROVE StepOK(r)
<1> TypeOK BY DEF IndInv
<1> QED BY BeginInv, ReadOnly DEF CancelLesson, paymentVars, StepOK

LEMMA CancelPaymentStep ==
    ASSUME IndInv, NEW r \in Requests, CancelPayment(r) PROVE StepOK(r)
<1> TypeOK BY DEF IndInv
<1> PICK pc \in {"refund.find", "cancel.save"} : Goto(r, pc)
  BY DEF CancelPayment
<1>1. req' \in [Requests -> Slot]
  BY GotoSlot DEF Pc, RefundPc, LessonPc
<1>2. RowsOK
  BY <1>1, ReadOnly DEF CancelPayment, paymentVars
<1> QED BY <1>2, MoveInv DEF CancelPayment, At, StepOK

\* The requests that end by writing the status of their lesson.
LEMMA SaveStep ==
    ASSUME IndInv, NEW r \in Requests, AcceptSave(r) \/ RejectSave(r) \/ CancelSave(r)
    PROVE  StepOK(r)
<1> TypeOK /\ SlotInv(r) BY DEF IndInv
<1> PICK l \in Lessons : l = req[r].lesson
  BY DEF SlotInv, AcceptSave, RejectSave, CancelSave, At
<1> PICK status \in LessonStatus : SetLesson(l, status)
  BY DEF AcceptSave, RejectSave, CancelSave, LessonStatus
<1>1. UNCHANGED paymentVars /\ Finish(r)
  BY DEF AcceptSave, RejectSave, CancelSave
<1> QED BY <1>1, SetLessonAt, FinishInv, LessonOnly DEF StepOK

LEMMA CancelStaleStep ==
    ASSUME IndInv, NEW r \in Requests, NEW stale \in SUBSET Lessons, CancelStale(r, stale)
    PROVE  StepOK(r)
<1> TypeOK BY DEF IndInv
<1> DEFINE slot == [Idle EXCEPT !.pc = "stale.save", !.todo = stale]
<1>1. slot \in Slot /\ slot.pc = "stale.save" /\ slot.caller = "none"
  BY IdleIsSlot DEF Idle, Slot, Pc, LessonPc
<1>2. req' \in [Requests -> Slot] /\ req'[r] = slot /\ Others(r)
  BY <1>1 DEF CancelStale, TypeOK, Others
<1>3. SlotInv(r)'
  BY <1>1, <1>2 DEF SlotInv, RetryPc, ResolvePc
<1> QED BY <1>2, <1>3, ReadOnly DEF CancelStale, paymentVars, StepOK

LEMMA CancelStaleSaveStep ==
    ASSUME IndInv, NEW r \in Requests, CancelStaleSave(r) PROVE StepOK(r)
<1> TypeOK BY DEF IndInv
<1>1. ASSUME NEW x \in Lessons
      PROVE  /\ lesson'[x] \in LessonRow
             /\ lesson[x].checkedIn => lesson'[x].checkedIn
             /\ lesson'[x].durationMinutes # None => lesson'[x].checkedIn
  <2>1. lesson[x] \in LessonRow /\ (lesson[x].durationMinutes # None => lesson[x].checkedIn)
    BY DEF IndInv, TypeOK, MoneyInv
  <2>2. lesson'[x] = lesson[x] \/ lesson'[x] = [lesson[x] EXCEPT !.status = "cancelled"]
    BY DEF CancelStaleSave
  <2> QED BY <2>1, <2>2 DEF LessonRow, LessonStatus
<1>2. lesson' \in [Lessons -> LessonRow]
  BY <1>1 DEF CancelStaleSave
<1> QED BY <1>1, <1>2, FinishInv, LessonOnly DEF CancelStaleSave, StepOK

LEMMA CheckOutStep ==
    ASSUME IndInv, NEW r \in Requests, NEW l \in Lessons, NEW elapsed \in Elapsed,
           CheckOut(r, l, elapsed)
    PROVE  StepOK(r)
<1> TypeOK BY DEF IndInv
<1> DEFINE duration == IF lesson[l].checkedIn THEN RoundToMinutes(elapsed) ELSE None
           slot == [Idle EXCEPT !.pc = "checkOut.save", !.caller = "checkOut", !.lesson = l,
                                !.duration = duration]
<1>1. duration \in Nat \cup {None}
  BY EnvironmentAssumption DEF RoundToMinutes
<1> HIDE DEF duration
<1>2. slot \in Slot
  BY <1>1, IdleIsSlot DEF Idle, Slot, Pc, LessonPc, Caller
<1>3. /\ slot.pc = "checkOut.save" /\ slot.caller = "checkOut" /\ slot.lesson = l
      /\ slot.duration = None \/ lesson[l].checkedIn
  BY DEF Idle, duration
<1>4. req' = [req EXCEPT ![r] = slot]
  BY DEF CheckOut, duration
<1>5. req' \in [Requests -> Slot] /\ req'[r] = slot /\ Others(r)
  BY <1>2, <1>4 DEF TypeOK, Others
<1>6. SlotInv(r)'
  BY <1>3, <1>5 DEF CheckOut, SlotInv, RetryPc, ResolvePc
<1> QED BY <1>5, <1>6, ReadOnly DEF CheckOut, paymentVars, StepOK

LEMMA CheckOutSaveStep ==
    ASSUME IndInv, NEW r \in Requests, CheckOutSave(r) PROVE StepOK(r)
<1> TypeOK /\ SlotInv(r) BY DEF IndInv
<1> PICK l \in Lessons : l = req[r].lesson
  BY DEF SlotInv, CheckOutSave, At
<1> DEFINE row == [lesson[l] EXCEPT !.status = "completed", !.durationMinutes = req[r].duration,
                                    !.hash = TRUE]
<1>1. lesson[l] \in LessonRow /\ req[r].duration \in Nat \cup {None}
  BY DEF TypeOK, Slot
<1>2. req[r].duration # None => lesson[l].checkedIn
  BY DEF SlotInv, CheckOutSave, At
<1>3. /\ row \in LessonRow /\ (lesson[l].checkedIn => row.checkedIn)
      /\ row.durationMinutes # None => row.checkedIn
  BY <1>1, <1>2 DEF LessonRow, LessonStatus
<1>4. lesson' = [lesson EXCEPT ![l] = row]
  BY DEF CheckOutSave
<1>5. req' \in [Requests -> Slot]
  BY GotoSlot DEF CheckOutSave, Pc, ReleasePc
<1>6. RowsOK
  BY <1>3, <1>4, <1>5, LessonAt, LessonOnly DEF CheckOutSave
<1> QED BY <1>6, MoveInv DEF CheckOutSave, At, StepOK

LEMMA CrashStep ==
    ASSUME IndInv, NEW r \in Requests, Crash(r) PROVE StepOK(r)
<1> TypeOK BY DEF IndInv
<1> DEFINE slot == [Idle EXCEPT !.caller = "crashed"]
<1>1. slot \in Slot /\ slot.pc = "idle" /\ slot.caller = "crashed"
  BY IdleIsSlot DEF Idle, Slot, Caller
<1>2. req' \in [Requests -> Slot] /\ req'[r] = slot /\ Others(r)
  BY <1>1 DEF Crash, TypeOK, Others
<1>3. SlotInv(r)'
  BY <1>1, <1>2 DEF SlotInv, RetryPc, ResolvePc
<1> QED BY <1>2, <1>3, ReadOnly DEF Crash, paymentVars, StepOK

\* Handlers with a single write to the lesson.
LEMMA LessonWriteStep ==
    ASSUME IndInv, NEW l \in Lessons, NEW row \in LessonRow,
           lesson[l].checkedIn => row.checkedIn, row.durationMinutes # None => row.checkedIn,
           lesson' = [lesson EXCEPT ![l] = row], UNCHANGED <<req, paymentVars>>
    PROVE  IndInv'
<1> TypeOK BY DEF IndInv
<1>1. req' \in [Requests -> Slot]
  BY DEF TypeOK
<1> QED BY <1>1, LessonAt, LessonOnly, SlotsKeep

\* What the invariant says of a lesson row.
LEMMA LessonTyped ==
    ASSUME IndInv, NEW l \in Lessons
    PROVE  lesson[l] \in LessonRow /\ (lesson[l].durationMinutes # None => lesson[l].checkedIn)
BY DEF IndInv, TypeOK, MoneyInv

LEMMA CheckInStep ==
    ASSUME IndInv, NEW l \in Lessons, CheckIn(l) PROVE IndInv'
<1> DEFINE row == [lesson[l] EXCEPT !.status = "in-progress", !.checkedIn = TRUE]
<1>1. row \in LessonRow /\ row.checkedIn
  BY LessonTyped DEF LessonRow, LessonStatus
<1>2. lesson' = [lesson EXCEPT ![l] = row]
  BY DEF CheckIn
<1> QED BY <1>1, <1>2, LessonWriteStep DEF CheckIn

LEMMA RegisterBiometryStep ==
    ASSUME IndInv, NEW l \in Lessons, NEW step \in Steps, NEW success \in BOOLEAN,
           RegisterBiometry(l, step, success)
    PROVE  IndInv'
<1> DEFINE done == IF success THEN lesson[l].biometry \cup {step} ELSE lesson[l].biometry \ {step}
           row == [lesson[l] EXCEPT !.biometry = done]
<1>1. done \in SUBSET Steps
  BY LessonTyped DEF LessonRow
<1>2. lesson' = [lesson EXCEPT ![l] = row]
  BY DEF RegisterBiometry
<1> HIDE DEF done
<1>3. /\ row \in LessonRow /\ (lesson[l].checkedIn => row.checkedIn)
      /\ row.durationMinutes # None => row.checkedIn
  BY <1>1, LessonTyped DEF LessonRow
<1> QED BY <1>2, <1>3, LessonWriteStep DEF RegisterBiometry

LEMMA UpdateStep ==
    ASSUME IndInv, NEW l \in Lessons, NEW status \in PatchStatuses,
           NEW hash \in {"absent", "text", "null"}, Update(l, status, hash)
    PROVE  IndInv'
<1> DEFINE newStatus == IF status = None THEN lesson[l].status ELSE status
           newHash == IF hash = "absent" THEN lesson[l].hash ELSE hash = "text"
           row == [lesson[l] EXCEPT !.status = newStatus, !.hash = newHash]
<1>1. newStatus \in LessonStatus
  BY EnvironmentAssumption, LessonTyped DEF LessonRow
<1>2. newHash \in BOOLEAN
  BY LessonTyped DEF LessonRow
<1>3. lesson' = [lesson EXCEPT ![l] = row]
  BY DEF Update
<1> HIDE DEF newStatus, newHash
<1>4. /\ row \in LessonRow /\ (lesson[l].checkedIn => row.checkedIn)
      /\ row.durationMinutes # None => row.checkedIn
  BY <1>1, <1>2, LessonTyped DEF LessonRow
<1> QED BY <1>3, <1>4, LessonWriteStep DEF Update

(***************************************************************************)
(* The invariant                                                           *)
(***************************************************************************)
LEMMA InitInv == Init => IndInv
<1> SUFFICES ASSUME Init PROVE IndInv
  OBVIOUS
<1>1. Booked \in LessonRow /\ NoPayment \in PaymentRow
  BY MaxAttemptsAssumption DEF Booked, LessonRow, LessonStatus, NoPayment, Row, PaymentRow, PaymentStatus
<1>2. TypeOK
  BY <1>1, IdleIsSlot DEF Init, TypeOK, AsaasInit, AsaasTypeOK
<1>3. \A l \in Lessons : MoneyInv(l)
  BY DEF Init, AsaasInit, MoneyInv, Booked, NoPayment, Row
<1>4. \A r \in Requests : SlotInv(r)
  BY DEF Init, SlotInv, Idle, RetryPc, ResolvePc
<1> QED BY <1>2, <1>3, <1>4 DEF IndInv

LEMMA StartStep ==
    ASSUME IndInv, NEW r \in Requests, Start(r) PROVE StepOK(r)
<1>1. ASSUME NEW l \in Lessons, Accept(r, l) PROVE StepOK(r)
  BY <1>1, AcceptStep
<1>2. ASSUME NEW l \in Lessons, Reject(r, l) PROVE StepOK(r)
  BY <1>2, RejectStep
<1>3. ASSUME NEW l \in Lessons, CancelLesson(r, l) PROVE StepOK(r)
  BY <1>3, CancelLessonStep
<1>4. ASSUME NEW l \in Lessons, NEW elapsed \in Elapsed, CheckOut(r, l, elapsed) PROVE StepOK(r)
  BY <1>4, CheckOutStep
<1>5. ASSUME NEW l \in Lessons, NEW action \in {"release", "refund"}, ResolveDispute(r, l, action)
      PROVE  StepOK(r)
  BY <1>5, ResolveDisputeStep
<1>6. ASSUME NEW l \in Lessons, NEW action \in {"retry", "refund"}, ResolveReleaseFailed(r, l, action)
      PROVE  StepOK(r)
  BY <1>6, ResolveReleaseFailedStep
<1>7. ASSUME NEW stale \in SUBSET Lessons, CancelStale(r, stale) PROVE StepOK(r)
  BY <1>7, CancelStaleStep
<1>8. ASSUME RetryStart(r) PROVE StepOK(r)
  BY <1>8, RetryStartStep
<1> QED BY <1>1, <1>2, <1>3, <1>4, <1>5, <1>6, <1>7, <1>8 DEF Start

LEMMA ContinueStep ==
    ASSUME IndInv, NEW r \in Requests, Continue(r) PROVE StepOK(r)
BY ChargeFindStep, ChargeCallStep, ChargeCreateStep, SaveStep, CancelPaymentStep,
   CancelStaleSaveStep, CheckOutSaveStep, ReleaseFindStep, ReleaseCheckStep,
   ReleaseTransferStep, ReleaseSaveStep, RefundFindStep, RefundCallStep, RefundSaveStep,
   ResolveRetryStep, ResolveRefundStep, ResolveSaveStep, RetryNextStep, RetryFailStep
   DEF Continue

LEMMA ImmediateStep ==
    ASSUME IndInv, NEW l \in Lessons, Immediate(l) PROVE IndInv'
<1>1. ASSUME NEW event \in PaymentEvents, PaymentWebhook(l, event) PROVE IndInv'
  BY <1>1, PaymentWebhookStep, EnvironmentAssumption
<1>2. ASSUME NEW event \in TRANSFER_EVENTS, TransferWebhook(l, event) PROVE IndInv'
  BY <1>2, TransferWebhookStep
<1>3. ASSUME CheckIn(l) PROVE IndInv'
  BY <1>3, CheckInStep
<1>4. ASSUME NEW step \in Steps, NEW success \in BOOLEAN, RegisterBiometry(l, step, success)
      PROVE  IndInv'
  BY <1>4, RegisterBiometryStep
<1>5. ASSUME NEW status \in PatchStatuses, NEW hash \in {"absent", "text", "null"},
             Update(l, status, hash)
      PROVE  IndInv'
  BY <1>5, UpdateStep
<1> QED BY <1>1, <1>2, <1>3, <1>4, <1>5 DEF Immediate

LEMMA NextInv == IndInv /\ [Next]_vars => IndInv'
<1> SUFFICES ASSUME IndInv, [Next]_vars PROVE IndInv'
  OBVIOUS
<1>1. ASSUME NEW r \in Requests, Start(r) \/ Continue(r) \/ Crash(r) PROVE IndInv'
  BY <1>1, StartStep, ContinueStep, CrashStep, StepSuffices
<1>2. ASSUME NEW l \in Lessons, Immediate(l) PROVE IndInv'
  BY <1>2, ImmediateStep
<1>3. CASE UNCHANGED vars
  <2>1. RowsOK
    BY <1>3, ReadOnly DEF vars, IndInv, TypeOK
  <2> QED BY <1>3, <2>1, SlotsKeep DEF vars
<1> QED BY <1>1, <1>2, <1>3 DEF Next

\* Rows, provider and handlers in flight agree for any number of lessons and of
\* concurrent requests, whatever crashes, repeats or arrives late.
THEOREM Agreement == Spec => []IndInv
BY InitInv, NextInv, PTL DEF Spec

\* Types, and with them the bound on releaseAttempts under overlapping cron runs.
THEOREM Typed == Spec => []TypeOK
<1>1. IndInv => TypeOK
  BY DEF IndInv
<1> QED BY <1>1, Agreement, PTL

\* No PIX transfer for a charge that was never announced as paid.
THEOREM FundsFirst == Spec => []NoTransferWithoutFunds
<1>1. IndInv => NoTransferWithoutFunds
  BY DEF IndInv, MoneyInv, NoTransferWithoutFunds
<1> QED BY <1>1, Agreement, PTL

\* A lesson is paid out under one idempotency key, so at most once.
THEOREM PaidOnce == Spec => []OneTransferPerLesson
<1>1. IndInv => OneTransferPerLesson
  BY DEF IndInv, MoneyInv, OneTransferPerLesson
<1> QED BY <1>1, Agreement, PTL

\* A row that says RELEASED or REFUNDED tells the truth.
THEOREM RowsAreTrue == Spec => []RowsTellTheTruth
<1>1. IndInv => RowsTellTheTruth
  BY DEF IndInv, MoneyInv, RowsTellTheTruth
<1> QED BY <1>1, Agreement, PTL

\* No transfer for a lesson nobody checked in to, or in dispute.
THEOREM PaidForLessons == Spec => []PaidLessonWasGiven
<1>1. IndInv => PaidLessonWasGiven
  BY DEF IndInv, MoneyInv, PaidLessonWasGiven
<1> QED BY <1>1, Agreement, PTL

(***************************************************************************)
(* A lesson becomes upcoming only after its charge: inductive next to      *)
(* IndInv, because accept.save is reached only with a payment row.         *)
(***************************************************************************)
LEMMA PaymentStays ==
    ASSUME IndInv, Next, NEW x \in Lessons, payment[x].status # "none"
    PROVE  payment'[x].status # "none"
<1> TypeOK BY DEF IndInv
<1>1. ASSUME NEW r \in Requests, Start(r) \/ Continue(r) \/ Crash(r)
      PROVE  payment'[x].status # "none"
  BY <1>1, StartStep, ContinueStep, CrashStep DEF StepOK, RowsOK, Grows
<1>2. ASSUME NEW l \in Lessons, Immediate(l) PROVE payment'[x].status # "none"
  <2>1. CASE UNCHANGED payment
    BY <2>1
  <2>2. ASSUME NEW status \in {"HELD", "FAILED", "RELEASED"}, SetStatus(l, status)
        PROVE  payment'[x].status # "none"
    <3>1. payment'[l].status = status /\ (x # l => payment'[x] = payment[x])
      BY <2>2, StatusAt DEF PaymentStatus
    <3> QED BY <3>1
  <2> QED
    BY <1>2, <2>1, <2>2
    DEF Immediate, CheckIn, RegisterBiometry, Update, PaymentWebhook, TransferWebhook, paymentVars
<1> QED BY <1>1, <1>2 DEF Next

LEMMA UpcomingWritten ==
    ASSUME IndInv, Next, "upcoming" \notin PatchStatuses, NEW x \in Lessons,
           lesson'[x].status = "upcoming"
    PROVE  lesson[x].status = "upcoming" \/ payment[x].status # "none"
<1> TypeOK BY DEF IndInv
<1>1. ASSUME NEW r \in Requests, Start(r) \/ Crash(r) PROVE UNCHANGED lesson
  BY <1>1 DEF Start, Crash, Accept, Reject, CancelLesson, CheckOut, ResolveDispute,
              ResolveReleaseFailed, CancelStale, RetryStart
<1>2. ASSUME NEW r \in Requests, Continue(r)
      PROVE  lesson[x].status = "upcoming" \/ payment[x].status # "none"
  <2>1. CASE AcceptSave(r)
    <3>1. req[r].lesson \in Lessons /\ payment[req[r].lesson].status # "none"
      BY <2>1 DEF AcceptSave, At, IndInv, SlotInv
    <3>2. x # req[r].lesson => lesson'[x] = lesson[x]
      BY <2>1, <3>1 DEF AcceptSave, SetLesson, TypeOK
    <3> QED BY <3>1, <3>2
  <2>2. CASE RejectSave(r) \/ CancelSave(r)
    <3>1. req[r].lesson \in Lessons
      BY <2>2 DEF RejectSave, CancelSave, At, IndInv, SlotInv
    <3>2. lesson'[req[r].lesson].status = "cancelled"
      BY <2>2, <3>1, LessonTyped DEF RejectSave, CancelSave, SetLesson, TypeOK, LessonRow
    <3>3. x # req[r].lesson => lesson'[x] = lesson[x]
      BY <2>2, <3>1 DEF RejectSave, CancelSave, SetLesson, TypeOK
    <3> QED BY <3>2, <3>3
  <2>3. CASE CancelStaleSave(r)
    BY <2>3, LessonTyped DEF CancelStaleSave, LessonRow
  <2>4. CASE CheckOutSave(r)
    <3>1. req[r].lesson \in Lessons
      BY <2>4 DEF CheckOutSave, At, IndInv, SlotInv
    <3>2. lesson'[req[r].lesson].status = "completed"
      BY <2>4, <3>1, LessonTyped DEF CheckOutSave, TypeOK, LessonRow
    <3>3. x # req[r].lesson => lesson'[x] = lesson[x]
      BY <2>4, <3>1 DEF CheckOutSave, TypeOK
    <3> QED BY <3>2, <3>3
  <2>5. \/ AcceptSave(r) \/ RejectSave(r) \/ CancelSave(r) \/ CancelStaleSave(r)
        \/ CheckOutSave(r) \/ UNCHANGED lesson
    BY <1>2 DEF Continue, ChargeFind, ChargeCall, ChargeCreate, CancelPayment, ReleaseFind,
                ReleaseCheck, ReleaseTransfer, ReleaseSave, RefundFind, RefundCall, RefundSave,
                ResolveRetry, ResolveRefund, ResolveSave, RetryNext, RetryFail
  <2> QED BY <2>1, <2>2, <2>3, <2>4, <2>5
<1>3. ASSUME NEW l \in Lessons, Immediate(l) PROVE lesson[x].status = "upcoming"
  <2>1. CASE UNCHANGED lesson
    BY <2>1
  <2>2. CASE CheckIn(l)
    BY <2>2, LessonTyped DEF CheckIn, TypeOK, LessonRow
  <2>3. ASSUME NEW step \in Steps, NEW success \in BOOLEAN, RegisterBiometry(l, step, success)
        PROVE  lesson[x].status = "upcoming"
    BY <2>3, LessonTyped DEF RegisterBiometry, TypeOK, LessonRow
  <2>4. ASSUME NEW status \in PatchStatuses, NEW hash \in {"absent", "text", "null"},
               Update(l, status, hash)
        PROVE  lesson[x].status = "upcoming"
    BY <2>4, LessonTyped DEF Update, TypeOK, LessonRow
  <2> QED BY <1>3, <2>1, <2>2, <2>3, <2>4 DEF Immediate, PaymentWebhook, TransferWebhook
<1> QED BY <1>1, <1>2, <1>3 DEF Next

\* As long as no client writes upcoming with PATCH, a lesson is upcoming only with
\* its charge accepted by the provider and its payment row in place.
THEOREM ChargedBeforeUpcoming ==
    ASSUME "upcoming" \notin PatchStatuses
    PROVE  Spec => []UpcomingIsCharged
<1> DEFINE Upcoming == \A l \in Lessons : lesson[l].status = "upcoming" => payment[l].status # "none"
<1>1. Init => Upcoming
  BY DEF Init, Booked
<1>2. IndInv /\ Upcoming /\ [Next]_vars => Upcoming'
  <2> SUFFICES ASSUME IndInv, Upcoming, [Next]_vars PROVE Upcoming'
    OBVIOUS
  <2>1. CASE Next
    <3>1. ASSUME NEW x \in Lessons, lesson'[x].status = "upcoming"
          PROVE  payment[x].status # "none"
      BY <2>1, <3>1, UpcomingWritten
    <3>2. ASSUME NEW x \in Lessons, lesson'[x].status = "upcoming"
          PROVE  payment'[x].status # "none"
      BY <2>1, <3>1, <3>2, PaymentStays
    <3> QED BY <3>2
  <2>2. CASE UNCHANGED vars
    BY <2>2 DEF vars
  <2> QED BY <2>1, <2>2
<1>3. IndInv /\ Upcoming => UpcomingIsCharged
  BY DEF IndInv, MoneyInv, UpcomingIsCharged
<1> HIDE DEF Upcoming
<1> QED BY <1>1, <1>2, <1>3, Agreement, PTL DEF Spec

(***************************************************************************)
(* The services implement the ledger: what each step does to the lessons   *)
(* under review, to the rows the ledger sees, and to the money.            *)
(***************************************************************************)
Money == <<charge, paid, transfers, refunds>>

LedgerOK == [Ledger!Next]_(Ledger!ledgerVars)

\* A slot that is not resolving a given-up release, before and after, reviews nothing.
LEMMA ReviewStays ==
    ASSUME NEW r \in Requests, Others(r),
           req[r].pc \notin ResolvePc, req'[r].pc \notin ResolvePc
    PROVE  UnderReview' = UnderReview
BY DEF UnderReview, Reviews, Others

\* A slot that stops reviewing takes at most its lesson out of review.
LEMMA ReviewEnds ==
    ASSUME NEW r \in Requests, NEW l \in Lessons, Others(r), l = req[r].lesson,
           req'[r].pc \notin ResolvePc
    PROVE  UnderReview' \in {UnderReview, UnderReview \ {l}}
<1>1. \A x \in Lessons : x # l => (x \in UnderReview' <=> x \in UnderReview)
  BY DEF UnderReview, Reviews, Others
<1>2. l \in UnderReview' => l \in UnderReview
  BY DEF UnderReview, Reviews, Others
<1>3. UnderReview \subseteq Lessons /\ UnderReview' \subseteq Lessons
  BY DEF UnderReview
<1> QED BY <1>1, <1>2, <1>3

\* A step that moves no money, writes no payment and reviews nothing is a stutter.
LEMMA Quiet ==
    ASSUME UNCHANGED <<payment, Money>>, UnderReview' = UnderReview
    PROVE  LedgerOK
BY DEF LedgerOK, Money, Ledger!ledgerVars, Ledger!moneyVars, Charged, Recorded, Collected, GivenUp

\* A row on record that is given a status other than RELEASE_FAILED stays on
\* record, and only this lesson's release may cease to be given up.
LEMMA SettledRows ==
    ASSUME NEW l \in Lessons, payment[l].status # "none",
           payment'[l].status \notin {"none", "RELEASE_FAILED"},
           \A x \in Lessons : x # l => payment'[x] = payment[x]
    PROVE  Recorded' = Recorded /\ GivenUp' \in {GivenUp, GivenUp \ {l}}
<1>1. Recorded' = Recorded
  BY DEF Recorded
<1>2. \A x \in Lessons : x # l => (x \in GivenUp' <=> x \in GivenUp)
  BY DEF GivenUp
<1>3. l \notin GivenUp' /\ GivenUp \subseteq Lessons /\ GivenUp' \subseteq Lessons
  BY DEF GivenUp
<1> QED BY <1>1, <1>2, <1>3

LEMMA Settles ==
    ASSUME NEW l \in Lessons, UNCHANGED Money, Recorded' = Recorded,
           GivenUp' \in {GivenUp, GivenUp \ {l}},
           UnderReview' \in {UnderReview, UnderReview \ {l}}
    PROVE  LedgerOK
<1>1. Ledger!Settle(l)
  BY DEF Ledger!Settle, Ledger!moneyVars, Money, Charged, Collected
<1> QED BY <1>1 DEF LedgerOK, Ledger!Next

\* The program counter a slot is left with.
LEMMA SlotMoves ==
    ASSUME TypeOK, NEW r \in Requests
    PROVE  /\ Finish(r) => req'[r].pc = "idle"
           /\ \A pc : Goto(r, pc) => req'[r].pc = pc /\ req'[r].lesson = req[r].lesson
           /\ \A pc, caller, l : Begin(r, pc, caller, l) => req'[r].pc = pc /\ req'[r].lesson = l
<1>1. req \in [Requests -> Slot] /\ req[r] \in Slot
  BY DEF TypeOK
<1>2. Finish(r) => req'[r].pc = "idle"
  BY <1>1 DEF Finish, Idle
<1>3. ASSUME NEW pc, Goto(r, pc) PROVE req'[r].pc = pc /\ req'[r].lesson = req[r].lesson
  BY <1>1, <1>3 DEF Goto, Slot
<1>4. ASSUME NEW pc, NEW caller, NEW l, Begin(r, pc, caller, l)
      PROVE  req'[r].pc = pc /\ req'[r].lesson = l
  BY <1>1, <1>4 DEF Begin, Idle
<1> QED BY <1>2, <1>3, <1>4

\* The ends of releaseEscrow and of resolveDispute review nothing.
LEMMA EndsOutside ==
    ASSUME TypeOK, NEW r \in Requests, ReleaseReturns(r) \/ ReleaseThrows(r) \/ RefundReturns(r)
    PROVE  req'[r].pc \notin ResolvePc
BY SlotMoves DEF ReleaseReturns, ReleaseThrows, RefundReturns, ResolvePc

\* Requests that begin: only resolveReleaseFailed opens a review.
LEMMA LedgerStart ==
    ASSUME IndInv, NEW r \in Requests, Start(r) PROVE LedgerOK
<1> TypeOK /\ Others(r)
  BY StartStep DEF IndInv, StepOK
<1> UNCHANGED <<payment, Money>>
  BY DEF Start, Accept, Reject, CancelLesson, CheckOut, ResolveDispute, ResolveReleaseFailed,
         CancelStale, RetryStart, paymentVars, asaasVars, Money
<1> req[r].pc \notin ResolvePc
  BY DEF Start, Accept, Reject, CancelLesson, CheckOut, ResolveDispute, ResolveReleaseFailed,
         CancelStale, RetryStart, Begin, At, ResolvePc
<1>1. CASE req'[r].pc \notin ResolvePc
  BY <1>1, ReviewStays, Quiet
<1>2. ASSUME NEW l \in Lessons, NEW action \in {"retry", "refund"}, ResolveReleaseFailed(r, l, action)
      PROVE  LedgerOK
  <2>1. req'[r].pc \in ResolvePc /\ req'[r].lesson = l /\ l \in GivenUp
    BY <1>2, SlotMoves DEF ResolveReleaseFailed, ResolvePc, GivenUp
  <2>2. \A x \in Lessons : x \in UnderReview' <=> x \in UnderReview \/ x = l
    BY <2>1 DEF UnderReview, Reviews, Others
  <2>3. UnderReview' = UnderReview \cup {l}
    BY <2>2 DEF UnderReview
  <2>4. Ledger!Review(l)
    BY <2>1, <2>3 DEF Ledger!Review, Ledger!moneyVars, Money, Charged, Collected, Recorded, GivenUp
  <2> QED BY <2>4 DEF LedgerOK, Ledger!Next
<1>3. ASSUME ~\E l \in Lessons, action \in {"retry", "refund"} : ResolveReleaseFailed(r, l, action)
      PROVE  req'[r].pc \notin ResolvePc
  <2>1. ASSUME NEW l \in Lessons, Accept(r, l) \/ Reject(r, l) \/ CancelLesson(r, l)
        PROVE  req'[r].pc \notin ResolvePc
    BY <2>1, SlotMoves DEF Accept, Reject, CancelLesson, ResolvePc
  <2>2. ASSUME NEW l \in Lessons, NEW action \in {"release", "refund"}, ResolveDispute(r, l, action)
        PROVE  req'[r].pc \notin ResolvePc
    BY <2>2, SlotMoves DEF ResolveDispute, ResolvePc
  <2>3. ASSUME NEW l \in Lessons, NEW elapsed \in Elapsed, CheckOut(r, l, elapsed)
        PROVE  req'[r].pc \notin ResolvePc
    BY <2>3 DEF CheckOut, Idle, ResolvePc, TypeOK
  <2>4. ASSUME (\E stale \in SUBSET Lessons : CancelStale(r, stale)) \/ RetryStart(r)
        PROVE  req'[r].pc \notin ResolvePc
    BY <2>4 DEF CancelStale, RetryStart, Idle, ResolvePc, TypeOK
  <2> QED BY <1>3, <2>1, <2>2, <2>3, <2>4 DEF Start
<1> QED BY <1>1, <1>2, <1>3

\* Steps of a request that read, or write lessons.
LEMMA LedgerQuiet ==
    ASSUME IndInv, NEW r \in Requests, Continue(r),
           \/ ChargeFind(r) \/ AcceptSave(r) \/ RejectSave(r) \/ CancelPayment(r) \/ CancelSave(r)
           \/ CancelStaleSave(r) \/ CheckOutSave(r) \/ ReleaseFind(r) \/ ReleaseCheck(r)
           \/ RefundFind(r) \/ RetryNext(r)
    PROVE  LedgerOK
<1> TypeOK /\ Others(r)
  BY ContinueStep DEF IndInv, StepOK
<1>1. UNCHANGED <<payment, Money>>
  BY DEF ChargeFind, AcceptSave, RejectSave, CancelPayment, CancelSave, CancelStaleSave,
         CheckOutSave, ReleaseFind, ReleaseCheck, RefundFind, RetryNext, paymentVars, asaasVars, Money
<1>2. req[r].pc \notin ResolvePc
  BY DEF ChargeFind, AcceptSave, RejectSave, CancelPayment, CancelSave, CancelStaleSave,
         CheckOutSave, ReleaseFind, ReleaseCheck, RefundFind, RetryNext, At, ResolvePc
<1>3. req'[r].pc \notin ResolvePc
  <2>1. CASE ChargeFind(r) \/ AcceptSave(r) \/ RejectSave(r) \/ CancelPayment(r) \/ CancelSave(r)
             \/ CancelStaleSave(r) \/ CheckOutSave(r)
    BY <2>1, SlotMoves DEF ChargeFind, AcceptSave, RejectSave, CancelPayment, CancelSave,
                           CancelStaleSave, CheckOutSave, ResolvePc
  <2>2. CASE ReleaseFind(r) \/ ReleaseCheck(r) \/ RefundFind(r)
    BY <2>2, SlotMoves, EndsOutside DEF ReleaseFind, ReleaseCheck, RefundFind, ResolvePc
  <2>3. CASE RetryNext(r)
    <3>1. req \in [Requests -> Slot] /\ req[r] \in Slot
      BY DEF TypeOK
    <3>2. CASE Finish(r)
      BY <3>2, SlotMoves DEF ResolvePc
    <3>3. ASSUME NEW l \in Lessons,
                 req' = [req EXCEPT ![r] = [@ EXCEPT !.pc = "release.find", !.lesson = l,
                                                     !.todo = req[r].todo \ {l}]]
          PROVE  req'[r].pc = "release.find"
      BY <3>1, <3>3 DEF Slot
    <3>4. req[r].todo \subseteq Lessons
      BY <3>1 DEF Slot
    <3> QED BY <2>3, <3>2, <3>3, <3>4 DEF RetryNext, ResolvePc
  <2> QED BY <2>1, <2>2, <2>3
<1> QED BY <1>1, <1>2, <1>3, ReviewStays, Quiet

\* charge: the call moves the money, the row puts it on record.
LEMMA LedgerCharge ==
    ASSUME IndInv, NEW r \in Requests, Continue(r), ChargeCall(r) \/ ChargeCreate(r)
    PROVE  LedgerOK
<1> TypeOK /\ SlotInv(r) /\ Others(r)
  BY ContinueStep DEF IndInv, StepOK
<1> PICK l \in Lessons : l = req[r].lesson
  BY DEF SlotInv, ChargeCall, ChargeCreate, At
<1>1. UnderReview' = UnderReview
  BY SlotMoves, ReviewStays DEF ChargeCall, ChargeCreate, At, ResolvePc
<1>2. CASE UNCHANGED <<payment, Money>>
  BY <1>1, <1>2, Quiet
<1>3. CASE ChargeCall(r) /\ Charge_Accept(l)
  <2>1. UNCHANGED <<payment, paid, transfers, refunds>>
    BY <1>3 DEF ChargeCall, Charge_Accept
  <2>2. \A x \in Lessons : charge'[x] <=> charge[x] \/ x = l
    BY <1>3 DEF Charge_Accept, TypeOK, AsaasTypeOK
  <2>3. Charged' = Charged \cup {l}
    BY <2>2 DEF Charged
  <2>4. Ledger!Charge(l)
    BY <1>1, <2>1, <2>3 DEF Ledger!Charge, Collected, Recorded, GivenUp
  <2> QED BY <2>4 DEF LedgerOK, Ledger!Next
<1>4. CASE ChargeCreate(r) /\ payment[l].status = "none"
           /\ payment' = [payment EXCEPT ![l] = Row("PENDING", r)]
  <2>1. payment'[l].status = "PENDING" /\ \A x \in Lessons : x # l => payment'[x] = payment[x]
    BY <1>4 DEF Row, TypeOK
  <2>2. Recorded' = Recorded \cup {l} /\ GivenUp' = GivenUp
    BY <1>4, <2>1 DEF Recorded, GivenUp
  <2>3. UNCHANGED Money /\ charge[l]
    BY <1>4 DEF ChargeCreate, Money, asaasVars, SlotInv, At
  <2>4. Ledger!Record(l)
    BY <1>1, <2>2, <2>3 DEF Ledger!Record, Ledger!moneyVars, Money, Charged, Collected
  <2> QED BY <2>4 DEF LedgerOK, Ledger!Next
<1> QED BY <1>2, <1>3, <1>4 DEF ChargeCall, ChargeCreate, Money, asaasVars

\* A transfer has the key of the one payment row, so that a second one is none.
LEMMA LedgerTransfer ==
    ASSUME IndInv, NEW r \in Requests, Continue(r), ReleaseTransfer(r)
    PROVE  LedgerOK
<1> TypeOK /\ SlotInv(r) /\ Others(r)
  BY ContinueStep DEF IndInv, StepOK
<1> PICK l \in Lessons : l = req[r].lesson
  BY DEF SlotInv, ReleaseTransfer, At
<1>1. UnderReview' = UnderReview /\ UNCHANGED payment
  BY SlotMoves, EndsOutside, ReviewStays DEF ReleaseTransfer, At, ResolvePc
<1>2. CASE UNCHANGED asaasVars
  BY <1>1, <1>2, Quiet DEF asaasVars, Money
<1>3. CASE Transfer_Accept(l, payment[l].id)
  <2>1. payment[l].status # "none" /\ paid[l]
    BY DEF ReleaseTransfer, At, SlotInv
  <2>2. payment[l].id \in Requests
    BY <2>1 DEF IndInv, MoneyInv, TypeOK, PaymentRow
  <2>3. UNCHANGED <<charge, paid, refunds>>
    BY <1>3 DEF Transfer_Accept
  <2>4. CASE transfers[l] = {}
    <3>1. transfers' = [transfers EXCEPT ![l] = {payment[l].id}]
      BY <1>3, <2>4 DEF Transfer_Accept
    <3>2. l \in Recorded \cap Collected
      BY <2>1 DEF Recorded, Collected
    <3>3. Ledger!PayOut(l, payment[l].id)
      BY <1>1, <2>3, <2>4, <3>1, <3>2 DEF Ledger!PayOut, Charged, Collected, Recorded, GivenUp
    <3> QED BY <2>2, <3>3 DEF LedgerOK, Ledger!Next
  <2>5. CASE transfers[l] # {}
    <3>1. transfers[l] = {payment[l].id}
      BY <2>5 DEF IndInv, MoneyInv
    <3>2. transfers' = transfers
      BY <1>3, <3>1 DEF Transfer_Accept, TypeOK, AsaasTypeOK
    <3> QED BY <1>1, <2>3, <3>2, Quiet DEF Money
  <2> QED BY <2>4, <2>5
<1> QED BY <1>2, <1>3 DEF ReleaseTransfer

\* The refund of a dispute or a cancellation, of a payment that is on record.
LEMMA LedgerRefund ==
    ASSUME IndInv, NEW r \in Requests, Continue(r), RefundCall(r)
    PROVE  LedgerOK
<1> TypeOK /\ SlotInv(r) /\ Others(r)
  BY ContinueStep DEF IndInv, StepOK
<1> PICK l \in Lessons : l = req[r].lesson
  BY DEF SlotInv, RefundCall, At
<1>1. UnderReview' = UnderReview /\ UNCHANGED payment
  BY SlotMoves, EndsOutside, ReviewStays DEF RefundCall, At, ResolvePc
<1>2. CASE UNCHANGED asaasVars
  BY <1>1, <1>2, Quiet DEF asaasVars, Money
<1>3. CASE Refund_Accept(l, "refund")
  <2>1. l \in Recorded
    BY DEF RefundCall, At, SlotInv, Recorded
  <2>2. Ledger!Refund(l)
    BY <1>1, <1>3, <2>1 DEF Refund_Accept, Ledger!Refund, Charged, Collected, Recorded, GivenUp
  <2> QED BY <2>2 DEF LedgerOK, Ledger!Next
<1> QED BY <1>2, <1>3 DEF RefundCall

\* The refund of a given-up release, inside its review, which may end with it.
LEMMA LedgerResolve ==
    ASSUME IndInv, NEW r \in Requests, Continue(r), ResolveRefund(r)
    PROVE  LedgerOK
<1> TypeOK /\ SlotInv(r) /\ Others(r)
  BY ContinueStep DEF IndInv, StepOK
<1> PICK l \in Lessons : l = req[r].lesson
  BY DEF SlotInv, ResolveRefund, At
<1>1. Reviews(r, l) /\ UNCHANGED payment
  BY DEF ResolveRefund, At, Reviews, ResolvePc
<1>2. UnderReview' \in {UnderReview, UnderReview \ {l}}
  <2>1. CASE Finish(r)
    BY <2>1, SlotMoves, ReviewEnds DEF ResolvePc
  <2>2. CASE Goto(r, "resolve.save")
    <3>1. Reviews(r, l)' /\ req'[r].lesson = l
      BY <2>2, SlotMoves DEF Reviews, ResolvePc
    <3>2. UnderReview' = UnderReview
      BY <1>1, <3>1 DEF UnderReview, Reviews, Others
    <3> QED BY <3>2
  <2> QED BY <2>1, <2>2 DEF ResolveRefund
<1>3. Recorded' = Recorded /\ GivenUp' = GivenUp
  BY <1>1 DEF Recorded, GivenUp
<1>4. CASE UNCHANGED asaasVars
  BY <1>2, <1>3, <1>4, Settles DEF asaasVars, Money
<1>5. CASE Refund_Accept(l, "refund-release-failed")
  <2>1. l \in UnderReview
    BY <1>1 DEF UnderReview
  <2>2. Ledger!RefundUnreleased(l)
    BY <1>2, <1>3, <1>5, <2>1 DEF Refund_Accept, Ledger!RefundUnreleased, Charged, Collected
  <2> QED BY <2>2 DEF LedgerOK, Ledger!Next
<1> QED BY <1>4, <1>5 DEF ResolveRefund
\* A request writes a status: the release is decided, one way or the other.
LEMMA LedgerSave ==
    ASSUME IndInv, NEW r \in Requests, Continue(r),
           ReleaseSave(r) \/ RefundSave(r) \/ ResolveRetry(r) \/ ResolveSave(r)
    PROVE  LedgerOK
<1> TypeOK /\ SlotInv(r) /\ Others(r)
  BY ContinueStep DEF IndInv, StepOK
<1> PICK l \in Lessons : l = req[r].lesson
  BY DEF SlotInv, ReleaseSave, RefundSave, ResolveRetry, ResolveSave, At
<1>1. payment \in [Lessons -> PaymentRow] /\ payment[l] \in PaymentRow
  BY DEF TypeOK
<1>2. payment[l].status # "none" /\ UNCHANGED Money
  BY DEF SlotInv, ReleaseSave, RefundSave, ResolveRetry, ResolveSave, At, ResolvePc, Money, asaasVars
<1>3. PICK status \in {"RELEASED", "REFUNDED", "HELD"} : payment'[l].status = status
  BY <1>1 DEF ReleaseSave, RefundSave, ResolveRetry, ResolveSave, SetStatus, PaymentRow
<1>4. \A x \in Lessons : x # l => payment'[x] = payment[x]
  BY <1>1 DEF ReleaseSave, RefundSave, ResolveRetry, ResolveSave, SetStatus
<1>5. Recorded' = Recorded /\ GivenUp' \in {GivenUp, GivenUp \ {l}}
  BY <1>2, <1>3, <1>4, SettledRows
<1>6. req'[r].pc \notin ResolvePc
  <2>1. CASE ReleaseSave(r) \/ RefundSave(r)
    BY <2>1, EndsOutside DEF ReleaseSave, RefundSave
  <2>2. CASE ResolveRetry(r) \/ ResolveSave(r)
    BY <2>2, SlotMoves DEF ResolveRetry, ResolveSave, ResolvePc
  <2> QED BY <2>1, <2>2
<1> QED BY <1>2, <1>5, <1>6, ReviewEnds, Settles

\* The cron counts a failure, and with the last one gives the release up.
LEMMA LedgerGiveUp ==
    ASSUME IndInv, NEW r \in Requests, Continue(r), RetryFail(r)
    PROVE  LedgerOK
<1> TypeOK /\ SlotInv(r) /\ Others(r)
  BY ContinueStep DEF IndInv, StepOK
<1> PICK l \in Lessons : l = req[r].lesson
  BY DEF SlotInv, RetryFail, At
<1>1. payment \in [Lessons -> PaymentRow] /\ payment[l] \in PaymentRow
  BY DEF TypeOK
<1>2. payment[l].status # "none" /\ paid[l] /\ UNCHANGED Money
  BY DEF SlotInv, RetryFail, At, Money, asaasVars
<1>3. UnderReview' = UnderReview
  BY SlotMoves, ReviewStays DEF RetryFail, At, ResolvePc
<1>4. payment'[l].status \in {"RELEASE_FAILED", payment[l].status}
  BY <1>1 DEF RetryFail, PaymentRow
<1>5. \A x \in Lessons : x # l => payment'[x] = payment[x]
  BY <1>1 DEF RetryFail
<1>6. Recorded' = Recorded
  BY <1>2, <1>4, <1>5 DEF Recorded
<1>7. CASE payment'[l].status = payment[l].status
  <2>1. GivenUp' = GivenUp
    BY <1>5, <1>7 DEF GivenUp
  <2> QED BY <1>2, <1>3, <1>6, <2>1, Settles
<1>8. CASE payment'[l].status = "RELEASE_FAILED"
  <2>1. GivenUp' = GivenUp \cup {l}
    BY <1>5, <1>8 DEF GivenUp
  <2>2. l \in Recorded \cap Collected
    BY <1>2 DEF Recorded, Collected
  <2>3. Ledger!GiveUp(l)
    BY <1>2, <1>3, <1>6, <2>1, <2>2
    DEF Ledger!GiveUp, Ledger!moneyVars, Money, Charged, Collected
  <2> QED BY <2>3 DEF LedgerOK, Ledger!Next
<1> QED BY <1>4, <1>7, <1>8

\* A crash may end a review.
LEMMA LedgerCrash ==
    ASSUME IndInv, NEW r \in Requests, Crash(r) PROVE LedgerOK
<1> TypeOK /\ SlotInv(r) /\ Others(r)
  BY CrashStep DEF IndInv, StepOK
<1>1. req'[r].pc \notin ResolvePc /\ UNCHANGED <<payment, Money>>
  BY DEF Crash, Idle, ResolvePc, TypeOK, paymentVars, asaasVars, Money
<1>2. CASE req[r].pc \notin ResolvePc
  BY <1>1, <1>2, ReviewStays, Quiet
<1>3. CASE req[r].pc \in ResolvePc
  <2> PICK l \in Lessons : l = req[r].lesson
    BY <1>3 DEF SlotInv, ResolvePc
  <2>1. Recorded' = Recorded /\ GivenUp' = GivenUp
    BY <1>1 DEF Recorded, GivenUp
  <2> QED BY <1>1, <2>1, ReviewEnds, Settles
<1> QED BY <1>2, <1>3

\* A payment event collects the money; a given-up release was collected before.
LEMMA LedgerPaymentWebhook ==
    ASSUME IndInv, NEW l \in Lessons, NEW event \in PaymentEvents, PaymentWebhook(l, event)
    PROVE  LedgerOK
<1> TypeOK BY DEF IndInv
<1> DEFINE status == IF event \in SUCCESS_EVENTS THEN "HELD" ELSE "FAILED"
<1>1. charge[l] /\ UNCHANGED <<req, charge, transfers, refunds>>
  BY DEF PaymentWebhook, PaymentEvent_Sent
<1>2. UnderReview' = UnderReview
  BY <1>1 DEF UnderReview, Reviews
<1>3. status \in PaymentStatus /\ status \notin {"none", "RELEASE_FAILED"}
  BY DEF PaymentStatus
<1>4. UNCHANGED payment \/ (payment[l].status # "none" /\ SetStatus(l, status))
  BY DEF PaymentWebhook
<1> HIDE DEF status
<1>5. Recorded' = Recorded /\ GivenUp' \in {GivenUp, GivenUp \ {l}}
  <2>1. CASE UNCHANGED payment
    BY <2>1 DEF Recorded, GivenUp
  <2>2. CASE payment[l].status # "none" /\ SetStatus(l, status)
    <3>1. payment'[l].status = status /\ \A x \in Lessons : x # l => payment'[x] = payment[x]
      BY <1>3, <2>2, StatusAt
    <3> QED BY <1>3, <2>2, <3>1, SettledRows
  <2> QED BY <1>4, <2>1, <2>2
<1>6. \A x \in Lessons : paid'[x] <=> paid[x] \/ (x = l /\ event \in SUCCESS_EVENTS)
  BY DEF PaymentWebhook, PaymentEvent_Sent, TypeOK, AsaasTypeOK
<1>7. CASE paid[l] \/ event \notin SUCCESS_EVENTS
  <2>1. paid' = paid
    BY <1>7 DEF PaymentWebhook, PaymentEvent_Sent, TypeOK, AsaasTypeOK
  <2> QED BY <1>1, <1>2, <1>5, <2>1, Settles DEF Money
<1>8. CASE ~paid[l] /\ event \in SUCCESS_EVENTS
  <2>1. l \notin GivenUp
    BY <1>8 DEF GivenUp, IndInv, MoneyInv
  <2>2. GivenUp' = GivenUp
    BY <1>5, <2>1
  <2>3. Collected' = Collected \cup {l}
    BY <1>6, <1>8 DEF Collected
  <2>4. Ledger!Collect(l)
    BY <1>1, <1>2, <1>5, <2>2, <2>3 DEF Ledger!Collect, Charged
  <2> QED BY <2>4 DEF LedgerOK, Ledger!Next
<1> QED BY <1>7, <1>8

LEMMA LedgerTransferWebhook ==
    ASSUME IndInv, NEW l \in Lessons, NEW event \in TRANSFER_EVENTS, TransferWebhook(l, event)
    PROVE  LedgerOK
<1> TypeOK BY DEF IndInv
<1> DEFINE status == IF event = "TRANSFER_DONE" THEN "RELEASED" ELSE "HELD"
<1>1. UNCHANGED <<req, Money>>
  BY DEF TransferWebhook, TransferEvent_Sent, Money
<1>2. UnderReview' = UnderReview
  BY <1>1 DEF UnderReview, Reviews
<1>3. status \in PaymentStatus /\ status \notin {"none", "RELEASE_FAILED"}
  BY DEF PaymentStatus
<1>4. UNCHANGED payment \/ (payment[l].status # "none" /\ SetStatus(l, status))
  BY DEF TransferWebhook, IndInv, MoneyInv
<1> HIDE DEF status
<1>5. CASE UNCHANGED payment
  BY <1>1, <1>2, <1>5, Quiet
<1>6. CASE payment[l].status # "none" /\ SetStatus(l, status)
  <2>1. payment'[l].status = status /\ \A x \in Lessons : x # l => payment'[x] = payment[x]
    BY <1>3, <1>6, StatusAt
  <2>2. Recorded' = Recorded /\ GivenUp' \in {GivenUp, GivenUp \ {l}}
    BY <1>3, <1>6, <2>1, SettledRows
  <2> QED BY <1>1, <1>2, <2>2, Settles
<1> QED BY <1>4, <1>5, <1>6

LEMMA LedgerStep ==
    ASSUME IndInv, [Next]_vars
    PROVE  LedgerOK
<1>1. ASSUME NEW r \in Requests, Continue(r) PROVE LedgerOK
  BY <1>1, LedgerQuiet, LedgerCharge, LedgerTransfer, LedgerRefund, LedgerResolve, LedgerSave,
     LedgerGiveUp DEF Continue
<1>2. ASSUME NEW l \in Lessons, Immediate(l) PROVE LedgerOK
  <2>1. CASE UNCHANGED <<req, payment, asaasVars>>
    BY <2>1, Quiet DEF UnderReview, Reviews, asaasVars, Money
  <2> QED BY <1>2, <2>1, LedgerPaymentWebhook, LedgerTransferWebhook
          DEF Immediate, CheckIn, RegisterBiometry, Update, paymentVars
<1>3. CASE UNCHANGED vars
  BY <1>3, Quiet DEF UnderReview, Reviews, vars, asaasVars, Money
<1> QED BY <1>1, <1>2, <1>3, LedgerStart, LedgerCrash DEF Next

\* Whatever the rows say, money moves as the ledger allows: charged, put on record and
\* collected, then paid out under a single key; refunded from the record under the key
\* of the payment, and under a second key only in the review of a given-up release.
THEOREM Refinement == Spec => ImplementsLedger
<1>1. Init => Ledger!Init
  BY DEF Init, AsaasInit, NoPayment, Row, Idle, ResolvePc, Ledger!Init, Charged, Recorded,
         Collected, GivenUp, UnderReview, Reviews
<1> QED BY <1>1, LedgerStep, Agreement, PTL DEF Spec, ImplementsLedger, Ledger!Spec, LedgerOK
=============================================================================
