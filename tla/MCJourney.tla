----------------------------- MODULE MCJourney -----------------------------
(***************************************************************************)
(* A student with two requests in flight, one lesson and a short calendar. *)
(***************************************************************************)
EXTENDS Journey

\* Lessons that are some practice, and enough of it.
SomeLessonRows == {[compliant |-> TRUE, minutes |-> m] : m \in {60, 120}}

\* The OCR passes it while it is valid and leaves it to review afterwards.
SomeDocuments == {[legible |-> TRUE, number |-> TRUE, issued |-> TRUE, until |-> 2]}
=============================================================================
