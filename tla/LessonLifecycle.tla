--------------------------- MODULE LessonLifecycle ---------------------------
(***************************************************************************)
(* LessonsService and the composition of the money path: a lesson from     *)
(* pending_acceptance to completed or cancelled, the payment it owns, the  *)
(* provider, the two crons and the admin, with requests interleaved at     *)
(* every await and lost at any of them by a crash of their server.         *)
(***************************************************************************)
EXTENDS Escrow

CONSTANTS
    Calls,              \* the endpoints and crons that are called
    PaymentEvents,      \* the charge webhooks the provider sends
    PatchStatuses,      \* the statuses in clients' PATCH /lessons/:id; None: left out
    Elapsed             \* seconds between check-in and check-out

\* What can be called; a run may leave some of it out.
Endpoints ==
    {"accept", "reject", "cancel", "checkIn", "checkOut", "biometry", "update",
     "resolveDispute", "resolveReleaseFailed", "cancelStale", "escrowRetry"}

ASSUME EnvironmentAssumption ==
    /\ Calls \subseteq Endpoints
    /\ PaymentEvents \subseteq SUCCESS_EVENTS \cup FAILURE_EVENTS
    /\ PatchStatuses \subseteq LessonStatus \cup {None}
    /\ Elapsed \subseteq Nat

vars == <<lesson, payment, req, asaasVars>>
paymentVars == <<payment, asaasVars>>

\* What LessonsService.create leaves: a booked lesson, not accepted, not paid.
Booked ==
    [status |-> "pending_acceptance", checkedIn |-> FALSE, durationMinutes |-> None,
     biometry |-> {}, hash |-> FALSE]

Init ==
    /\ lesson = [l \in Lessons |-> Booked]
    /\ payment = [l \in Lessons |-> NoPayment]
    /\ req = [r \in Requests |-> Idle]
    /\ AsaasInit

SetLesson(l, status) == lesson' = [lesson EXCEPT ![l] = [@ EXCEPT !.status = status]]

(***************************************************************************)
(* Acceptance                                                              *)
(***************************************************************************)
Accept(r, l) ==
    /\ lesson[l].status = "pending_acceptance"
    /\ Begin(r, "charge.find", "accept", l)
    /\ UNCHANGED <<lesson, paymentVars>>

\* The status read before the charge is not read again.
AcceptSave(r) ==
    /\ At(r, "accept.save")
    /\ SetLesson(req[r].lesson, "upcoming")
    /\ Finish(r)
    /\ UNCHANGED paymentVars

Reject(r, l) ==
    /\ lesson[l].status = "pending_acceptance"
    /\ Begin(r, "reject.save", "none", l)
    /\ UNCHANGED <<lesson, paymentVars>>

RejectSave(r) ==
    /\ At(r, "reject.save")
    /\ SetLesson(req[r].lesson, "cancelled")
    /\ Finish(r)
    /\ UNCHANGED paymentVars

(***************************************************************************)
(* Cancellation, by a party or by the hourly cron                          *)
(***************************************************************************)
CancelLesson(r, l) ==
    /\ lesson[l].status \notin {"in-progress", "completed", "cancelled"}
    /\ Begin(r, IF lesson[l].status = "pending_acceptance" THEN "cancel.save"
                                                           ELSE "cancel.payment", "cancel", l)
    /\ UNCHANGED <<lesson, paymentVars>>

CancelPayment(r) ==
    /\ At(r, "cancel.payment")
    /\ IF payment[req[r].lesson].status \in {"PENDING", "HELD"}
       THEN Goto(r, "refund.find") ELSE Goto(r, "cancel.save")
    /\ UNCHANGED <<lesson, paymentVars>>

CancelSave(r) ==
    /\ At(r, "cancel.save")
    /\ SetLesson(req[r].lesson, "cancelled")
    /\ Finish(r)
    /\ UNCHANGED paymentVars

\* Any pending lesson may be older than 24 hours when the cron looks.
CancelStale(r, stale) ==
    /\ stale # {} /\ \A l \in stale : lesson[l].status = "pending_acceptance"
    /\ At(r, "idle")
    /\ req' = [req EXCEPT ![r] = [Idle EXCEPT !.pc = "stale.save", !.todo = stale]]
    /\ UNCHANGED <<lesson, paymentVars>>

\* updateMany by id: the status is not part of its where clause.
CancelStaleSave(r) ==
    /\ At(r, "stale.save")
    /\ lesson' = [l \in Lessons |->
                    IF l \in req[r].todo THEN [lesson[l] EXCEPT !.status = "cancelled"]
                                         ELSE lesson[l]]
    /\ Finish(r)
    /\ UNCHANGED paymentVars

(***************************************************************************)
(* The lesson itself                                                       *)
(***************************************************************************)
\* No condition on the status: any lesson of the instructor can be checked in.
CheckIn(l) ==
    /\ lesson' = [lesson EXCEPT ![l] = [@ EXCEPT !.status = "in-progress", !.checkedIn = TRUE]]
    /\ UNCHANGED <<req, paymentVars>>

\* Math.round of milliseconds to minutes.
RoundToMinutes(seconds) == (seconds + 30) \div 60

CheckOut(r, l, elapsed) ==
    /\ At(r, "idle")
    /\ req' = [req EXCEPT ![r] =
                 [Idle EXCEPT !.pc = "checkOut.save", !.caller = "checkOut", !.lesson = l,
                              !.duration = IF lesson[l].checkedIn
                                           THEN RoundToMinutes(elapsed) ELSE None]]
    /\ UNCHANGED <<lesson, paymentVars>>

CheckOutSave(r) ==
    /\ At(r, "checkOut.save")
    /\ lesson' = [lesson EXCEPT ![req[r].lesson] =
                    [@ EXCEPT !.status = "completed", !.durationMinutes = req[r].duration,
                              !.hash = TRUE]]
    /\ Goto(r, "release.find")
    /\ UNCHANGED paymentVars

\* The app reports a step, in any status of the lesson, as often as it likes;
\* a report further than 50 m from the last telemetry point changes nothing.
RegisterBiometry(l, step, success) ==
    /\ LET done == lesson[l].biometry IN
       lesson' = [lesson EXCEPT ![l] =
                    [@ EXCEPT !.biometry = IF success THEN done \cup {step} ELSE done \ {step}]]
    /\ UNCHANGED <<req, paymentVars>>

\* PATCH /lessons/:id, open to every authenticated user.  A null hash passes the
\* validation of the body and the dispute guard, and clears the column.
Update(l, status, hash) ==
    /\ ~(l \in Disputed /\ hash = "text")
    /\ lesson' = [lesson EXCEPT ![l] =
                    [@ EXCEPT !.status = IF status = None THEN lesson[l].status ELSE status,
                              !.hash = IF hash = "absent" THEN lesson[l].hash ELSE hash = "text"]]
    /\ UNCHANGED <<req, paymentVars>>

(***************************************************************************)
(* Next                                                                    *)
(***************************************************************************)
\* The server of a request dies between two of its steps.  The free slot it
\* leaves is marked, so that a crash is told from a request that returned.
Crash(r) ==
    /\ ~At(r, "idle")
    /\ req' = [req EXCEPT ![r] = [Idle EXCEPT !.caller = "crashed"]]
    /\ UNCHANGED <<lesson, paymentVars>>

Start(r) ==
    \/ \E l \in Lessons :
         \/ "accept" \in Calls /\ Accept(r, l)
         \/ "reject" \in Calls /\ Reject(r, l)
         \/ "cancel" \in Calls /\ CancelLesson(r, l)
         \/ "checkOut" \in Calls /\ \E elapsed \in Elapsed : CheckOut(r, l, elapsed)
         \/ "resolveDispute" \in Calls
            /\ \E action \in {"release", "refund"} : ResolveDispute(r, l, action)
         \/ "resolveReleaseFailed" \in Calls
            /\ \E action \in {"retry", "refund"} : ResolveReleaseFailed(r, l, action)
    \/ "cancelStale" \in Calls /\ \E stale \in SUBSET Lessons : CancelStale(r, stale)
    \/ "escrowRetry" \in Calls /\ RetryStart(r)

Continue(r) ==
    \/ ChargeFind(r) \/ ChargeCall(r) \/ ChargeCreate(r)
    \/ AcceptSave(r) \/ RejectSave(r)
    \/ CancelPayment(r) \/ CancelSave(r) \/ CancelStaleSave(r)
    \/ CheckOutSave(r)
    \/ ReleaseFind(r) \/ ReleaseCheck(r) \/ ReleaseTransfer(r) \/ ReleaseSave(r)
    \/ RefundFind(r) \/ RefundCall(r) \/ RefundSave(r)
    \/ ResolveRetry(r) \/ ResolveRefund(r) \/ ResolveSave(r)
    \/ RetryNext(r) \/ RetryFail(r)

\* Handlers with a single write, and the provider's webhooks.
Immediate(l) ==
    \/ "checkIn" \in Calls /\ CheckIn(l)
    \/ "biometry" \in Calls
       /\ \E step \in Steps, success \in BOOLEAN : RegisterBiometry(l, step, success)
    \/ "update" \in Calls
       /\ \E status \in PatchStatuses, hash \in {"absent", "text", "null"} : Update(l, status, hash)
    \/ \E event \in PaymentEvents : PaymentWebhook(l, event)
    \/ \E event \in TRANSFER_EVENTS : TransferWebhook(l, event)

Next ==
    \/ \E r \in Requests : Start(r) \/ Continue(r) \/ Crash(r)
    \/ \E l \in Lessons : Immediate(l)

Spec == Init /\ [][Next]_vars

(***************************************************************************)
(* Fairness.  A server runs the awaits of a request to their end, the      *)
(* provider answers, and the escrow cron fires for ever.  Cron runs and    *)
(* other requests share the slots of the model, not of the server, so a    *)
(* slot being busy again and again is no reason for the cron not to run:   *)
(* its fairness is strong.  Servers stop crashing at some point.  Clients, *)
(* the admin and the webhooks owe nothing.                                 *)
(***************************************************************************)
Fairness ==
    /\ \A r \in Requests : WF_vars(Continue(r))
    /\ SF_vars(\E r \in Requests : RetryStart(r))
    /\ <>[][\A r \in Requests : ~Crash(r)]_vars

LiveSpec == Spec /\ Fairness
=============================================================================
