-------------------------------- MODULE Asaas --------------------------------
(***************************************************************************)
(* The external payment provider, as payments/asaas.client.ts uses it.     *)
(*                                                                         *)
(* Every mutating call carries an idempotency key: a call whose key the    *)
(* provider has already accepted is answered with the first result and     *)
(* moves no money.  A call may be refused, and an accepted call may lose   *)
(* its answer, in which case `request` throws although the money moved.    *)
(* Operators named X_Accept are the provider's half of a call; the service *)
(* decides what an answer, a refusal and a lost answer mean.               *)
(***************************************************************************)
EXTENDS Naturals, FiniteSets

CONSTANTS
    Lessons,        \* lesson ids: a charge is keyed charge-<lessonId>
    Requests        \* request slots; the slot that creates a Payment row stands for the row's uuid

VARIABLES
    charge,         \* [Lessons -> BOOLEAN]: the charge of the lesson exists
    paid,           \* [Lessons -> BOOLEAN]: the provider has announced the card payment
    transfers,      \* [Lessons -> SUBSET Requests]: payment ids of the transfer keys accepted
    outcome,        \* [Lessons -> ...]: how the PIX transfer ended
    refunds         \* [Lessons -> SUBSET RefundKeys]: the refund keys accepted

asaasVars == <<charge, paid, transfers, outcome, refunds>>

\* `refund-<id>` is the key of resolveDispute, the other that of resolveReleaseFailed.
RefundKeys == {"refund", "refund-release-failed"}

SUCCESS_EVENTS == {"PAYMENT_CONFIRMED", "PAYMENT_RECEIVED"}
FAILURE_EVENTS == {"PAYMENT_OVERDUE", "PAYMENT_DELETED"}
TRANSFER_EVENTS == {"TRANSFER_DONE", "TRANSFER_FAILED"}

AsaasTypeOK ==
    /\ charge \in [Lessons -> BOOLEAN]
    /\ paid \in [Lessons -> BOOLEAN]
    /\ transfers \in [Lessons -> SUBSET Requests]
    /\ outcome \in [Lessons -> {"open"} \cup TRANSFER_EVENTS]
    /\ refunds \in [Lessons -> SUBSET RefundKeys]

AsaasInit ==
    /\ charge = [l \in Lessons |-> FALSE]
    /\ paid = [l \in Lessons |-> FALSE]
    /\ transfers = [l \in Lessons |-> {}]
    /\ outcome = [l \in Lessons |-> "open"]
    /\ refunds = [l \in Lessons |-> {}]

\* POST /v3/payments with key charge-<lessonId>.
Charge_Accept(l) ==
    /\ charge' = [charge EXCEPT ![l] = TRUE]
    /\ UNCHANGED <<paid, transfers, outcome, refunds>>

\* POST /v3/transfers with key transfer-<payment.id>.
Transfer_Accept(l, paymentId) ==
    /\ transfers' = [transfers EXCEPT ![l] = @ \cup {paymentId}]
    /\ UNCHANGED <<charge, paid, outcome, refunds>>

\* POST /v3/payments/<id>/refund; nothing in the repository says that the
\* provider turns down a second refund sent under another key.
Refund_Accept(l, key) ==
    /\ charge[l]
    /\ refunds' = [refunds EXCEPT ![l] = @ \cup {key}]
    /\ UNCHANGED <<charge, paid, transfers, outcome>>

(***************************************************************************)
(* Webhooks.  The provider may announce an event any number of times and   *)
(* at any later moment, so delivery needs no channel: an event that may    *)
(* have been sent may be delivered now, a lost one is never delivered.     *)
(***************************************************************************)
PaymentEvent_Sent(l, event) ==
    /\ charge[l]
    /\ paid' = [paid EXCEPT ![l] = @ \/ event \in SUCCESS_EVENTS]
    /\ UNCHANGED <<charge, transfers, outcome, refunds>>

\* A transfer ends once, one way; its event may then be repeated.
TransferEvent_Sent(l, event) ==
    /\ transfers[l] # {}
    /\ outcome[l] \in {"open", event}
    /\ outcome' = [outcome EXCEPT ![l] = event]
    /\ UNCHANGED <<charge, paid, transfers, refunds>>
=============================================================================
