---------------------------- MODULE Availability ----------------------------
(***************************************************************************)
(* The weekly grid of one instructor.  PUT replaces it in a transaction at *)
(* READ COMMITTED: deleteMany takes the rows it sees when it starts, waits *)
(* for a transaction that is deleting one of them, and the new rows are    *)
(* seen by nobody before the commit.  POST adds one row.                   *)
(***************************************************************************)
EXTENDS Handlers

CONSTANTS
    Grids,          \* bound: the PUTs and POSTs; each is the rows that it brings
    EmptyGrids      \* those that bring no row

ASSUME AvailabilityAssumption == EmptyGrids \subseteq Grids /\ None \notin Grids

VARIABLES
    grid,           \* whose rows are committed in Availability
    put,            \* [Grids -> how far the request has come]
    victims,        \* [Grids -> the rows its deleteMany took]
    lastPut,        \* history: the PUT that committed last
    replaced        \* history: the rows that were there when that PUT began

availabilityVars == <<grid, put, victims, lastPut, replaced>>

AvailabilityInit ==
    /\ grid = {} /\ lastPut = None /\ replaced = {}
    /\ put = [g \in Grids |-> "new"]
    /\ victims = [g \in Grids |-> {}]

Replacing(g, from, to) == put[g] = from /\ put' = [put EXCEPT ![g] = to]

\* The grid is empty for a request without rows.
RowsOf(g) == {g} \ EmptyGrids

\* create: POST /availability
PostAvailability(g) ==
    /\ Replacing(g, "new", "done")
    /\ grid' = grid \cup RowsOf(g)
    /\ UNCHANGED <<victims, lastPut, replaced>>

(***************************************************************************)
(* replaceInstructorAvailability                                           *)
(***************************************************************************)
\* deleteMany starts: it will delete the rows that are committed now.
StartReplace(g) ==
    /\ Replacing(g, "new", "delete")
    /\ victims' = [victims EXCEPT ![g] = grid]
    /\ UNCHANGED <<grid, lastPut, replaced>>

\* Locked by another transaction that has deleted one of the rows.
Blocked(g) == \E h \in Grids : put[h] = "insert" /\ victims[h] \cap victims[g] # {}

\* Mutant: delete and insert are not in a transaction.
DeleteRows_Committed(g) ==
    /\ Replacing(g, "delete", "insert")
    /\ ~Blocked(g)
    /\ grid' = grid \ victims[g]
    /\ UNCHANGED <<victims, lastPut, replaced>>

\* Rows that went while it waited are gone; rows that came are not looked at.
DeleteRows(g) ==
    /\ Replacing(g, "delete", "insert")
    /\ ~Blocked(g)
    /\ UNCHANGED <<grid, victims, lastPut, replaced>>

\* createMany and the commit.
CommitReplace(g) ==
    /\ Replacing(g, "insert", "done")
    /\ grid' = (grid \ victims[g]) \cup RowsOf(g)
    /\ lastPut' = g /\ replaced' = victims[g]
    /\ UNCHANGED victims

\* A crash, or the timeout of the transaction, rolls it back.
Rollback(g) ==
    /\ put[g] \in {"delete", "insert"}
    /\ put' = [put EXCEPT ![g] = "failed"]
    /\ UNCHANGED <<grid, victims, lastPut, replaced>>

AvailabilityNext ==
    \E g \in Grids :
        PostAvailability(g) \/ StartReplace(g) \/ DeleteRows(g) \/ CommitReplace(g) \/ Rollback(g)

AvailabilitySpec == AvailabilityInit /\ [][AvailabilityNext]_availabilityVars

(***************************************************************************)
(* Properties                                                              *)
(***************************************************************************)
\* Rows and requests have the values of the code.
AvailabilityTypeOK ==
    /\ grid \subseteq Grids
    /\ put \in [Grids -> {"new", "delete", "insert", "done", "failed"}]
    /\ victims \in [Grids -> SUBSET Grids]
    /\ lastPut \in Grids \cup {None} /\ replaced \subseteq Grids

\* After a PUT the grid holds all of its rows and none that were there when it
\* began, and a PUT that dies takes nothing away.  Rows of a PUT that overlapped it
\* remain beside them: neither deleteMany saw the rows of the other.
GridIsReplaced ==
    /\ lastPut # None => RowsOf(lastPut) \subseteq grid
    /\ grid \cap replaced = {}

(***************************************************************************)
(* What makes it so                                                        *)
(***************************************************************************)
\* A row is brought by a request that is done, so that none comes back.
GridInv(g) ==
    /\ g \in grid \cup replaced => put[g] = "done"
    /\ victims[g] \subseteq {h \in Grids : put[h] = "done"}
    /\ put[g] = "new" => victims[g] = {}

\* Inductive.
AvailabilityInv ==
    /\ AvailabilityTypeOK
    /\ GridIsReplaced
    /\ \A g \in Grids : GridInv(g)
=============================================================================
