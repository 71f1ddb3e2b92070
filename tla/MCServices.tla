----------------------------- MODULE MCServices -----------------------------
(***************************************************************************)
(* The small services with few requests, tokens, batches and rows.         *)
(***************************************************************************)
EXTENDS Services, TLC

CONSTANTS b1, b2

MCVelocities == b1 :> {60} @@ b2 :> {60, 61, 90}

\* The numbers of the provider's fixture.
KnownNumber == <<0, 2, 6, 5, 0, 3, 0, 6, 4, 6, 1>>
MCKnown ==
    KnownNumber :> "VALID"
    @@ [i \in 1..11 |-> 9] :> "EXPIRED" @@ [i \in 1..11 |-> 8] :> "SUSPENDED"
MCBodies == [1..9 -> {0, 1, 9}] \cup {[i \in 1..9 |-> KnownNumber[i]]}

Symmetry == Permutations(Tokens) \cup Permutations(Requests)
=============================================================================
