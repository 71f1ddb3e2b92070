------------------------------- MODULE Escrow -------------------------------
(***************************************************************************)
(* PaymentsService, EscrowRetryService and the admin and webhook endpoints *)
(* that reach them.  A handler runs in a request slot and gives up control *)
(* at every await: the steps between two awaits are one action, and what   *)
(* it read before an await is kept in its slot and may be stale when used. *)
(***************************************************************************)
EXTENDS Asaas

CONSTANTS
    None,           \* SQL NULL, and "no lesson" in an idle slot
    MaxAttempts,    \* ESCROW_MAX_RETRY_ATTEMPTS
    Steps,          \* biometry steps: start, mid, end
    Disputed        \* lessons seeded with disputeOpened = true; no code writes the column

ASSUME NoneAssumption == None \notin Lessons /\ None \notin Requests /\ None \notin Nat
ASSUME MaxAttemptsAssumption == MaxAttempts \in Nat \ {0}
ASSUME DisputedAssumption == Disputed \subseteq Lessons

VARIABLES
    lesson,         \* [Lessons -> Lesson row], the columns that decide anything
    payment,        \* [Lessons -> Payment row] (Payment.lessonId is unique)
    req             \* [Requests -> handler in flight]

(***************************************************************************)
(* Rows                                                                    *)
(***************************************************************************)
\* The column is text: "other" is any text a client has written with PATCH.
LessonStatus ==
    {"pending_acceptance", "upcoming", "in-progress", "completed", "cancelled", "other"}

LessonRow ==
    [status : LessonStatus, checkedIn : BOOLEAN, durationMinutes : Nat \cup {None},
     biometry : SUBSET Steps, hash : BOOLEAN]

\* "none" is the absence of the row.
PaymentStatus ==
    {"none", "PENDING", "HELD", "RELEASED", "FAILED", "RELEASE_FAILED", "REFUNDED"}

PaymentRow ==
    [status : PaymentStatus, id : Requests \cup {None}, releaseAttempts : 0..MaxAttempts,
     asaasTransferId : Requests \cup {None}]

Row(status, id) ==
    [status |-> status, id |-> id, releaseAttempts |-> 0, asaasTransferId |-> None]

NoPayment == Row("none", None)

(***************************************************************************)
(* Request slots.  `attempts` and `todo` belong to the cron loops,         *)
(* `duration` to checkOut; `caller` says who awaits releaseEscrow or       *)
(* resolveDispute.                                                         *)
(***************************************************************************)
ChargePc == {"charge.find", "charge.call", "charge.create"}
ReleasePc == {"release.find", "release.lesson", "release.transfer", "release.save"}
RefundPc == {"refund.find", "refund.call", "refund.save"}
ResolvePc == {"resolve.retry", "resolve.refund", "resolve.save"}
RetryPc == {"retry.next", "retry.fail"}
LessonPc == {"accept.save", "reject.save", "cancel.payment", "cancel.save",
             "checkOut.save", "stale.save"}
Pc == {"idle"} \cup ChargePc \cup ReleasePc \cup RefundPc \cup ResolvePc \cup RetryPc \cup LessonPc

Caller == {"none", "accept", "cancel", "checkOut", "admin", "retry", "crashed"}

Slot ==
    [pc : Pc, caller : Caller, lesson : Lessons \cup {None}, todo : SUBSET Lessons,
     attempts : [Lessons -> 0..MaxAttempts - 1], duration : Nat \cup {None}]

Idle ==
    [pc |-> "idle", caller |-> "none", lesson |-> None, todo |-> {},
     attempts |-> [l \in Lessons |-> 0], duration |-> None]

At(r, pc) == req[r].pc = pc
Goto(r, pc) == req' = [req EXCEPT ![r].pc = pc]
Finish(r) == req' = [req EXCEPT ![r] = Idle]

\* A request for lesson l takes a free slot and stops before its next await.
Begin(r, pc, caller, l) ==
    /\ At(r, "idle")
    /\ req' = [req EXCEPT ![r] = [Idle EXCEPT !.pc = pc, !.caller = caller, !.lesson = l]]

SetStatus(l, status) == payment' = [payment EXCEPT ![l] = [@ EXCEPT !.status = status]]

(***************************************************************************)
(* charge, called by LessonsService.accept                                 *)
(***************************************************************************)
\* An existing row is returned whatever its status; a student without card or
\* customer id, or an instructor without PIX key, ends the accept with 402.
ChargeFind(r) ==
    /\ At(r, "charge.find")
    /\ \/ payment[req[r].lesson].status # "none" /\ Goto(r, "accept.save")
       \/ payment[req[r].lesson].status = "none" /\ (Goto(r, "charge.call") \/ Finish(r))
    /\ UNCHANGED <<lesson, payment, asaasVars>>

\* Mutant: a refused charge does not end the accept.
ChargeCall_RefusalIgnored(r) ==
    /\ At(r, "charge.call")
    /\ \/ Charge_Accept(req[r].lesson) /\ (Goto(r, "charge.create") \/ Finish(r))
       \/ Goto(r, "accept.save") /\ UNCHANGED asaasVars
    /\ UNCHANGED <<lesson, payment>>

\* Accepted and answered; accepted with the answer lost; or refused.
ChargeCall(r) ==
    /\ At(r, "charge.call")
    /\ \/ Charge_Accept(req[r].lesson) /\ (Goto(r, "charge.create") \/ Finish(r))
       \/ Finish(r) /\ UNCHANGED asaasVars
    /\ UNCHANGED <<lesson, payment>>

\* Mutant: no unique index, the last create wins.
ChargeCreate_NotUnique(r) ==
    /\ At(r, "charge.create")
    /\ payment' = [payment EXCEPT ![req[r].lesson] = Row("PENDING", r)]
    /\ Goto(r, "accept.save")
    /\ UNCHANGED <<lesson, asaasVars>>

\* The unique index on lessonId makes a second row fail.
ChargeCreate(r) ==
    /\ At(r, "charge.create")
    /\ LET l == req[r].lesson IN
       \/ /\ payment[l].status = "none"
          /\ payment' = [payment EXCEPT ![l] = Row("PENDING", r)]
          /\ Goto(r, "accept.save")
       \/ payment[l].status # "none" /\ Finish(r) /\ UNCHANGED payment
    /\ UNCHANGED <<lesson, asaasVars>>

(***************************************************************************)
(* releaseEscrow, called by checkOut, by the admin and by the cron         *)
(***************************************************************************)
\* Mutant: the dispute is not looked at.
Compliant_Undisputed(l) ==
    /\ lesson[l].status = "completed"
    /\ lesson[l].durationMinutes # None /\ lesson[l].durationMinutes >= 50
    /\ lesson[l].biometry = Steps
    /\ lesson[l].hash

Compliant(l) ==
    /\ lesson[l].status = "completed"
    /\ lesson[l].durationMinutes # None /\ lesson[l].durationMinutes >= 50
    /\ lesson[l].biometry = Steps
    /\ lesson[l].hash
    /\ l \notin Disputed

\* checkOut swallows the error, the admin gets it, the cron counts it.
ReleaseReturns(r) == IF req[r].caller = "retry" THEN Goto(r, "retry.next") ELSE Finish(r)
ReleaseThrows(r) == IF req[r].caller = "retry" THEN Goto(r, "retry.fail") ELSE Finish(r)

\* Mutant: a payment that is still PENDING is released too.
ReleaseFind_Pending(r) ==
    /\ At(r, "release.find")
    /\ LET status == payment[req[r].lesson].status IN
       \/ status = "RELEASED" /\ ReleaseReturns(r)
       \/ status \in {"PENDING", "HELD"} /\ Goto(r, "release.lesson")
       \/ status \notin {"RELEASED", "PENDING", "HELD"} /\ ReleaseThrows(r)
    /\ UNCHANGED <<lesson, payment, asaasVars>>

ReleaseFind(r) ==
    /\ At(r, "release.find")
    /\ LET status == payment[req[r].lesson].status IN
       \/ status = "RELEASED" /\ ReleaseReturns(r)
       \/ status = "HELD" /\ Goto(r, "release.lesson")
       \/ status \notin {"RELEASED", "HELD"} /\ ReleaseThrows(r)
    /\ UNCHANGED <<lesson, payment, asaasVars>>

\* The instructor's PIX key may be missing or of an unknown type.
ReleaseCheck(r) ==
    /\ At(r, "release.lesson")
    /\ \/ Compliant(req[r].lesson) /\ Goto(r, "release.transfer")
       \/ ReleaseThrows(r)
    /\ UNCHANGED <<lesson, payment, asaasVars>>

\* Mutant: a key of the attempt, not of the payment.
ReleaseTransfer_FreshKey(r) ==
    /\ At(r, "release.transfer")
    /\ \/ /\ Transfer_Accept(req[r].lesson, r)
          /\ Goto(r, "release.save") \/ ReleaseThrows(r)
       \/ ReleaseThrows(r) /\ UNCHANGED asaasVars
    /\ UNCHANGED <<lesson, payment>>

ReleaseTransfer(r) ==
    /\ At(r, "release.transfer")
    /\ \/ /\ Transfer_Accept(req[r].lesson, payment[req[r].lesson].id)
          /\ Goto(r, "release.save") \/ ReleaseThrows(r)
       \/ ReleaseThrows(r) /\ UNCHANGED asaasVars
    /\ UNCHANGED <<lesson, payment>>

\* By primary key, whatever the status has become meanwhile.
ReleaseSave(r) ==
    /\ At(r, "release.save")
    /\ payment' = [payment EXCEPT ![req[r].lesson] =
                     [@ EXCEPT !.status = "RELEASED",
                               !.asaasTransferId = payment[req[r].lesson].id]]
    /\ ReleaseReturns(r)
    /\ UNCHANGED <<lesson, asaasVars>>

(***************************************************************************)
(* resolveDispute, called by the admin and by cancelLesson                 *)
(***************************************************************************)
ResolveDispute(r, l, action) ==
    /\ payment[l].status # "none"
    /\ Begin(r, IF action = "release" THEN "release.find" ELSE "refund.find", "admin", l)
    /\ UNCHANGED <<lesson, payment, asaasVars>>

\* cancelLesson swallows the error and goes on to cancel.
RefundReturns(r) == IF req[r].caller = "cancel" THEN Goto(r, "cancel.save") ELSE Finish(r)

RefundFind(r) ==
    /\ At(r, "refund.find")
    /\ \/ payment[req[r].lesson].status \in {"none", "REFUNDED"} /\ RefundReturns(r)
       \/ payment[req[r].lesson].status \notin {"none", "REFUNDED"} /\ Goto(r, "refund.call")
    /\ UNCHANGED <<lesson, payment, asaasVars>>

\* Mutant: the row says REFUNDED although the provider refused.
RefundCall_RefusalIgnored(r) ==
    /\ At(r, "refund.call")
    /\ \/ Refund_Accept(req[r].lesson, "refund")
       \/ UNCHANGED asaasVars
    /\ Goto(r, "refund.save")
    /\ UNCHANGED <<lesson, payment>>

RefundCall(r) ==
    /\ At(r, "refund.call")
    /\ \/ Refund_Accept(req[r].lesson, "refund") /\ (Goto(r, "refund.save") \/ RefundReturns(r))
       \/ RefundReturns(r) /\ UNCHANGED asaasVars
    /\ UNCHANGED <<lesson, payment>>

RefundSave(r) ==
    /\ At(r, "refund.save")
    /\ SetStatus(req[r].lesson, "REFUNDED")
    /\ RefundReturns(r)
    /\ UNCHANGED <<lesson, asaasVars>>

(***************************************************************************)
(* resolveReleaseFailed: the admin retries or refunds                      *)
(***************************************************************************)
ResolveReleaseFailed(r, l, action) ==
    /\ payment[l].status = "RELEASE_FAILED"
    /\ Begin(r, IF action = "retry" THEN "resolve.retry" ELSE "resolve.refund", "admin", l)
    /\ UNCHANGED <<lesson, payment, asaasVars>>

ResolveRetry(r) ==
    /\ At(r, "resolve.retry")
    /\ payment' = [payment EXCEPT ![req[r].lesson] =
                     [@ EXCEPT !.status = "HELD", !.releaseAttempts = 0]]
    /\ Finish(r)
    /\ UNCHANGED <<lesson, asaasVars>>

ResolveRefund(r) ==
    /\ At(r, "resolve.refund")
    /\ \/ /\ Refund_Accept(req[r].lesson, "refund-release-failed")
          /\ Goto(r, "resolve.save") \/ Finish(r)
       \/ Finish(r) /\ UNCHANGED asaasVars
    /\ UNCHANGED <<lesson, payment>>

ResolveSave(r) ==
    /\ At(r, "resolve.save")
    /\ SetStatus(req[r].lesson, "REFUNDED")
    /\ Finish(r)
    /\ UNCHANGED <<lesson, asaasVars>>

(***************************************************************************)
(* EscrowRetryService.retryPendingReleases, the cron                       *)
(***************************************************************************)
\* Mutant: off by one, an exhausted payment is retried.
Retriable_OnceMore(l) ==
    /\ payment[l].status = "HELD"
    /\ payment[l].releaseAttempts <= MaxAttempts
    /\ lesson[l].status = "completed"

Retriable(l) ==
    /\ payment[l].status = "HELD"
    /\ payment[l].releaseAttempts < MaxAttempts
    /\ lesson[l].status = "completed"

\* findMany: the counters are read here and used after every await of the loop.
RetryStart(r) ==
    /\ At(r, "idle")
    /\ \E l \in Lessons : Retriable(l)
    /\ req' = [req EXCEPT ![r] =
                 [Idle EXCEPT !.pc = "retry.next", !.caller = "retry",
                              !.todo = {l \in Lessons : Retriable(l)},
                              !.attempts = [l \in Lessons |->
                                  IF Retriable(l) THEN payment[l].releaseAttempts ELSE 0]]]
    /\ UNCHANGED <<lesson, payment, asaasVars>>

\* Mutant: the loop does not move past the payment it has handled.
RetryNext_Again(r) ==
    /\ At(r, "retry.next")
    /\ \/ req[r].todo = {} /\ Finish(r)
       \/ \E l \in req[r].todo :
            req' = [req EXCEPT ![r] = [@ EXCEPT !.pc = "release.find", !.lesson = l]]
    /\ UNCHANGED <<lesson, payment, asaasVars>>

RetryNext(r) ==
    /\ At(r, "retry.next")
    /\ \/ req[r].todo = {} /\ Finish(r)
       \/ \E l \in req[r].todo :
            req' = [req EXCEPT ![r] = [@ EXCEPT !.pc = "release.find", !.lesson = l,
                                                !.todo = req[r].todo \ {l}]]
    /\ UNCHANGED <<lesson, payment, asaasVars>>

\* Mutant: the failure is not counted.
RetryFail_Uncounted(r) ==
    /\ At(r, "retry.fail")
    /\ Goto(r, "retry.next")
    /\ UNCHANGED <<lesson, payment, asaasVars>>

RetryFail(r) ==
    /\ At(r, "retry.fail")
    /\ LET l == req[r].lesson
           newAttempts == req[r].attempts[l] + 1
       IN  payment' = [payment EXCEPT ![l] =
                         [@ EXCEPT !.releaseAttempts = newAttempts,
                                   !.status = IF newAttempts >= MaxAttempts
                                              THEN "RELEASE_FAILED" ELSE payment[l].status]]
    /\ Goto(r, "retry.next")
    /\ UNCHANGED <<lesson, asaasVars>>

(***************************************************************************)
(* Webhooks.  Each reads the row and writes a status that does not depend  *)
(* on it, so one action covers every moment the write can happen.          *)
(***************************************************************************)
PaymentWebhook(l, event) ==
    /\ PaymentEvent_Sent(l, event)
    /\ IF payment[l].status # "none"
       THEN SetStatus(l, IF event \in SUCCESS_EVENTS THEN "HELD" ELSE "FAILED")
       ELSE UNCHANGED payment
    /\ UNCHANGED <<lesson, req>>

\* The row is found by asaasTransferId, which only ReleaseSave stores.
TransferWebhook(l, event) ==
    /\ TransferEvent_Sent(l, event)
    /\ IF payment[l].asaasTransferId # None
       THEN SetStatus(l, IF event = "TRANSFER_DONE" THEN "RELEASED" ELSE "HELD")
       ELSE UNCHANGED payment
    /\ UNCHANGED <<lesson, req>>
=============================================================================
