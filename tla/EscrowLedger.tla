---------------------------- MODULE EscrowLedger ----------------------------
(***************************************************************************)
(* What the escrow promises about money, whatever the rows say.  Each      *)
(* movement stands under the idempotency key it was sent with, so that a   *)
(* repetition under the same key is no movement and one under another key  *)
(* is a second one.                                                        *)
(*                                                                         *)
(* A lesson is paid out under one key only, from collected money whose     *)
(* charge is on record.  There are two keys to refund it: the first for    *)
(* any charge on record, the second only while an administrator reviews a  *)
(* release that was given up.  Nothing on record at the provider is ever   *)
(* undone.  A refund is not promised to exclude a payout, nor one refund   *)
(* the other: the code does not keep them apart (see the README).          *)
(***************************************************************************)
CONSTANTS Lessons, PayoutKeys

VARIABLES
    charged,        \* lessons whose card was charged
    recorded,       \* lessons whose charge the service has on record
    collected,      \* lessons whose money has come in
    givenUp,        \* lessons whose release was given up
    underReview,    \* lessons that an administrator resolves after that
    payouts,        \* [Lessons -> SUBSET PayoutKeys]
    refunds         \* [Lessons -> SUBSET keys of refunds]

moneyVars == <<charged, collected, payouts, refunds>>
ledgerVars == <<moneyVars, recorded, givenUp, underReview>>

Init ==
    /\ charged = {} /\ recorded = {} /\ collected = {} /\ givenUp = {} /\ underReview = {}
    /\ payouts = [l \in Lessons |-> {}]
    /\ refunds = [l \in Lessons |-> {}]

Charge(l) ==
    /\ charged' = charged \cup {l}
    /\ UNCHANGED <<recorded, collected, givenUp, underReview, payouts, refunds>>

Record(l) ==
    /\ l \in charged
    /\ recorded' = recorded \cup {l}
    /\ UNCHANGED <<moneyVars, givenUp, underReview>>

Collect(l) ==
    /\ l \in charged
    /\ collected' = collected \cup {l}
    /\ UNCHANGED <<charged, recorded, givenUp, underReview, payouts, refunds>>

PayOut(l, key) ==
    /\ l \in recorded \cap collected
    /\ payouts[l] = {}
    /\ payouts' = [payouts EXCEPT ![l] = {key}]
    /\ UNCHANGED <<charged, recorded, collected, givenUp, underReview, refunds>>

Refund(l) ==
    /\ l \in recorded
    /\ refunds' = [refunds EXCEPT ![l] = @ \cup {"refund"}]
    /\ UNCHANGED <<charged, recorded, collected, givenUp, underReview, payouts>>

GiveUp(l) ==
    /\ l \in recorded \cap collected
    /\ givenUp' = givenUp \cup {l}
    /\ UNCHANGED <<moneyVars, recorded, underReview>>

Review(l) ==
    /\ l \in givenUp
    /\ underReview' = underReview \cup {l}
    /\ UNCHANGED <<moneyVars, recorded, givenUp>>

\* The review may end with the refund, when its answer is lost.
RefundUnreleased(l) ==
    /\ l \in underReview
    /\ refunds' = [refunds EXCEPT ![l] = @ \cup {"refund-release-failed"}]
    /\ underReview' \in {underReview, underReview \ {l}}
    /\ UNCHANGED <<charged, recorded, collected, givenUp, payouts>>

\* The release is taken up again or decided otherwise, or the review ends.
Settle(l) ==
    /\ givenUp' \in {givenUp, givenUp \ {l}}
    /\ underReview' \in {underReview, underReview \ {l}}
    /\ UNCHANGED <<moneyVars, recorded>>

Next ==
    \E l \in Lessons :
        \/ Charge(l) \/ Record(l) \/ Collect(l)
        \/ \E key \in PayoutKeys : PayOut(l, key)
        \/ Refund(l) \/ RefundUnreleased(l)
        \/ GiveUp(l) \/ Review(l) \/ Settle(l)

Spec == Init /\ [][Next]_ledgerVars
=============================================================================
