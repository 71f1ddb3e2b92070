------------------------------ MODULE MCBooking ------------------------------
(***************************************************************************)
(* Small calendars.                                                        *)
(***************************************************************************)
EXTENDS Booking, TLC

Symmetry == Permutations(Lessons) \cup Permutations(BusySlots) \cup Permutations(Requests)
=============================================================================
