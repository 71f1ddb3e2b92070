------------------------------ MODULE MCWallet ------------------------------
(***************************************************************************)
(* A wallet with few cards and two concurrent requests.                    *)
(***************************************************************************)
EXTENDS Wallet, TLC

Symmetry == Permutations(Tokens) \cup Permutations(Customers) \cup Permutations(Requests)
=============================================================================
