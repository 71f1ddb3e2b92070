------------------------------ MODULE Calendar ------------------------------
(***************************************************************************)
(* What a calendar promises about starts: one is given to a lesson that    *)
(* has none, and stays that lesson's for ever.  Whatever becomes of the    *)
(* lesson, its start is neither moved nor given again.                     *)
(***************************************************************************)
CONSTANTS Lessons, Starts

VARIABLE given      \* pairs of a start and the lesson it was given to

Init == given = {}

Give(start, l) ==
    /\ \A g \in given : g[1] # start /\ g[2] # l
    /\ given' = given \cup {<<start, l>>}

Next == \E start \in Starts, l \in Lessons : Give(start, l)

Spec == Init /\ [][Next]_given
=============================================================================
