------------------------ MODULE LessonLifecycleProps ------------------------
(***************************************************************************)
(* What the lesson and escrow services are expected to guarantee.          *)
(***************************************************************************)
EXTENDS LessonLifecycle

(***************************************************************************)
(* Invariants                                                              *)
(***************************************************************************)
\* Rows, provider and request slots have the columns and values of the code;
\* releaseAttempts never passes ESCROW_MAX_RETRY_ATTEMPTS although every retry
\* writes a counter it read before awaiting the provider.
TypeOK ==
    /\ lesson \in [Lessons -> LessonRow]
    /\ payment \in [Lessons -> PaymentRow]
    /\ req \in [Requests -> Slot]
    /\ AsaasTypeOK

\* The instructor is paid only with money the provider has announced as paid:
\* no order of retries, webhooks, crashes and admin decisions starts a PIX
\* transfer for a charge that was never confirmed (releaseEscrow's HELD check).
NoTransferWithoutFunds ==
    \A l \in Lessons : transfers[l] # {} => paid[l]

\* At most one transfer per lesson: releases by checkOut, cron and admin that
\* overlap, or repeat after a lost answer, all use the key of one payment row.
OneTransferPerLesson ==
    \A l \in Lessons : \A p, q \in transfers[l] : p = q

\* A row that says RELEASED names a transfer the provider has accepted, and one that
\* says REFUNDED was refunded there, by one key or the other: whichever of release,
\* refund, retry and webhook was the last to write the row.
RowsTellTheTruth ==
    \A l \in Lessons :
        /\ payment[l].status = "RELEASED" => payment[l].asaasTransferId \in transfers[l]
        /\ payment[l].status = "REFUNDED" => refunds[l] # {}

\* The instructor is paid only for a lesson that was checked in and is not in
\* dispute, although PATCH writes status and hash at will, check-out may be called
\* at any moment, and lesson and payment are read and written in separate steps.
PaidLessonWasGiven ==
    \A l \in Lessons : transfers[l] # {} => lesson[l].checkedIn /\ l \notin Disputed

\* A lesson becomes upcoming only once its card was charged and the charge is on
\* record, as long as no client writes upcoming with PATCH.
UpcomingIsCharged ==
    \A l \in Lessons :
        lesson[l].status = "upcoming" => charge[l] /\ payment[l].status # "none"

(***************************************************************************)
(* The inductive invariant behind them                                     *)
(***************************************************************************)
\* Rows and provider agree on what has happened to a lesson's money.
MoneyInv(l) ==
    /\ paid[l] \/ refunds[l] # {} \/ payment[l].status # "none" => charge[l]
    /\ payment[l].status \in {"HELD", "RELEASED", "RELEASE_FAILED"} \/ transfers[l] # {} => paid[l]
    /\ payment[l].status = "none" => payment[l].asaasTransferId = None /\ transfers[l] = {}
    /\ payment[l].status # "none" => payment[l].id # None
    /\ transfers[l] \subseteq {payment[l].id}
    /\ lesson[l].durationMinutes # None => lesson[l].checkedIn
    /\ transfers[l] # {} => lesson[l].checkedIn /\ l \notin Disputed
    /\ payment[l].asaasTransferId # None => payment[l].asaasTransferId \in transfers[l]
    /\ payment[l].status = "RELEASED" => payment[l].asaasTransferId # None
    /\ payment[l].status = "REFUNDED" => refunds[l] # {}

\* What a handler has read stays true, as far as it matters, until it acts on it.
SlotInv(r) ==
    LET l == req[r].lesson
        pc == req[r].pc IN
    /\ pc \notin {"idle", "stale.save", "retry.next"} => l \in Lessons
    /\ pc \in RetryPc => req[r].caller = "retry"
    /\ pc \in {"idle", "stale.save"} => req[r].caller # "retry"
    /\ pc = "charge.create" => charge[l]
    /\ pc = "accept.save" => payment[l].status # "none"
    /\ pc \in {"release.lesson", "release.transfer", "release.save", "retry.fail"} \cup ResolvePc
         => payment[l].status # "none" /\ paid[l]
    /\ pc = "checkOut.save" => req[r].duration = None \/ lesson[l].checkedIn
    /\ pc = "release.transfer" => lesson[l].checkedIn /\ l \notin Disputed
    /\ pc = "release.save" => payment[l].id \in transfers[l]
    /\ pc \in {"refund.call", "refund.save"} => payment[l].status # "none"
    /\ pc \in {"refund.save", "resolve.save"} => refunds[l] # {}
    /\ req[r].caller = "retry" =>
         /\ \A x \in req[r].todo : payment[x].status # "none" /\ paid[x]
         /\ pc # "retry.next" => payment[l].status # "none" /\ paid[l]

\* Inductive: each of the invariants above but UpcomingIsCharged follows from it.
IndInv ==
    /\ TypeOK
    /\ \A l \in Lessons : MoneyInv(l)
    /\ \A r \in Requests : SlotInv(r)

(***************************************************************************)
(* Refinement: the money moves as the ledger promises.  Every movement is  *)
(* kept with its key, and a lesson is under review while an administrator  *)
(* is between reading RELEASE_FAILED and the last write of his decision.   *)
(***************************************************************************)
Charged == {l \in Lessons : charge[l]}
Recorded == {l \in Lessons : payment[l].status # "none"}
Collected == {l \in Lessons : paid[l]}
GivenUp == {l \in Lessons : payment[l].status = "RELEASE_FAILED"}
Reviews(r, l) == req[r].pc \in ResolvePc /\ req[r].lesson = l
UnderReview == {l \in Lessons : \E r \in Requests : Reviews(r, l)}

Ledger == INSTANCE EscrowLedger WITH
    PayoutKeys <- Requests,
    charged <- Charged,
    recorded <- Recorded,
    collected <- Collected,
    givenUp <- GivenUp,
    underReview <- UnderReview,
    payouts <- transfers

\* Every step of services and provider is a ledger step or moves no money: however
\* releases, refunds, retries, events, lost answers and crashes interleave, a lesson
\* is paid out under one key, and sent a refund under a second key only by an
\* administrator who found its release given up.
ImplementsLedger == Ledger!Spec

(***************************************************************************)
(* Liveness                                                                *)
(***************************************************************************)
\* Money in custody for a completed lesson does not stay there for ever: the cron
\* releases it, gives up on it in RELEASE_FAILED, or loses sight of it because
\* the lesson left completed or the attempts are used up.
HeldIsDecided ==
    \A l \in Lessons : Retriable(l) ~> ~Retriable(l)

\* Every request ends: no handler, and no cron loop over a batch, runs for ever.
RequestsEnd ==
    \A r \in Requests : ~At(r, "idle") ~> At(r, "idle")

(***************************************************************************)
(* Claims of the documentation that the code does not keep                 *)
(***************************************************************************)
\* docs/architecture.md:99, the administrator decides between release and refund:
\* no lesson's money goes both to the instructor and back to the student.
ReleaseOrRefund ==
    \A l \in Lessons : ~(outcome[l] = "TRANSFER_DONE" /\ refunds[l] # {})

\* lessons.controller.ts:75, reject cancels without charging: when a reject is
\* done, the lesson was not charged.
RejectedIsNotCharged ==
    [][\A r \in Requests : RejectSave(r) => ~charge[req[r].lesson]]_vars
=============================================================================
