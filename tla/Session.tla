------------------------------- MODULE Session -------------------------------
(***************************************************************************)
(* What rotation promises: a session is a chain of tokens.  It is opened   *)
(* with one, each next is granted for the one before, which is used up     *)
(* first, and once it has ended no token continues it.                     *)
(***************************************************************************)
CONSTANTS Tokens, Sessions

VARIABLES
    current,        \* [Sessions -> set of the tokens that may be used]
    rotating        \* sessions whose token is used up and whose next is on its way

Init ==
    /\ current = [s \in Sessions |-> {}]
    /\ rotating = {}

Fresh(t) == \A s \in Sessions : t \notin current[s]

Open(s, t) ==
    /\ current[s] = {} /\ s \notin rotating
    /\ Fresh(t)
    /\ current' = [current EXCEPT ![s] = {t}]
    /\ UNCHANGED rotating

Use(s) ==
    /\ \E t \in Tokens : current[s] = {t}
    /\ current' = [current EXCEPT ![s] = {}]
    /\ rotating' = rotating \cup {s}

Grant(s, t) ==
    /\ s \in rotating
    /\ Fresh(t)
    /\ current' = [current EXCEPT ![s] = {t}]
    /\ rotating' = rotating \ {s}

\* Sessions end together when a night's rows are deleted.
End(S) ==
    /\ current' = [s \in Sessions |-> IF s \in S THEN {} ELSE current[s]]
    /\ rotating' = rotating \ S

Next ==
    \/ \E s \in Sessions :
         \/ Use(s)
         \/ \E t \in Tokens : Open(s, t) \/ Grant(s, t)
    \/ \E S \in SUBSET Sessions : End(S)

Spec == Init /\ [][Next]_<<current, rotating>>
=============================================================================
