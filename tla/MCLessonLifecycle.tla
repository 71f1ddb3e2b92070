-------------------------- MODULE MCLessonLifecycle --------------------------
(***************************************************************************)
(* LessonLifecycle with the properties its runs check.                     *)
(***************************************************************************)
EXTENDS LessonLifecycleProps, TLC

Symmetry == Permutations(Requests)
=============================================================================
